----------------------------- MODULE Arguments ------------------------------
(***************************************************************************)
(* The command line (args.c, parse_args; main.c, main).  Each round of the  *)
(* loop compares the argument at argi with one flag after the other; a flag *)
(* moves argi on to its value, and the flags behind it in the list are      *)
(* compared with that value.                                                *)
(***************************************************************************)
EXTENDS Integers, Sequences

CONSTANTS
    CommandLines,      \* argv without the program's name
    Numbers            \* the tokens that strtol reads to their end, and its results

(* The defaults are numbers too: 250 ms and 3 retransmissions. *)
ASSUME ArgumentsAssumption ==
    /\ CommandLines \subseteq Seq(STRING)
    /\ Numbers \in [DOMAIN Numbers -> Int]
    /\ {"250", "3"} \subseteq DOMAIN Numbers
    /\ Numbers["250"] = 250 /\ Numbers["3"] = 3

VARIABLES
    argv, argi,        \* the command line and i
    test,              \* the flag argv[argi] is compared with next
    use_tcp_protocol, hostname, port, udp_timeout, udp_retransmissions,
    pc                 \* args; see Program for what follows

position == <<argi, test>>
settings == <<use_tcp_protocol, hostname, port, udp_timeout, udp_retransmissions>>

Flags == <<"-t", "-s", "-p", "-d", "-r", "-h">>
NULL == "NULL"

ArgumentsInit ==
    /\ argv \in CommandLines
    /\ argi = 1 /\ test = 1
    /\ use_tcp_protocol = -1 /\ hostname = NULL
    /\ port = "4567" /\ udp_timeout = 250 /\ udp_retransmissions = 3
    /\ pc = "args"

Parsing == pc = "args" /\ argi <= Len(argv)
Matches(flag) == Parsing /\ Flags[test] = flag /\ argv[argi] = flag
HasValue == argi < Len(argv)
Value == argv[argi + 1]

(* The next comparison, of the argument at i. *)
Proceed(i) ==
    /\ test' = IF test < Len(Flags) THEN test + 1 ELSE 1
    /\ argi' = IF test < Len(Flags) THEN i ELSE i + 1
    /\ UNCHANGED <<argv, pc>>

NoMatch ==
    /\ Parsing /\ argv[argi] # Flags[test]
    /\ Proceed(argi)
    /\ UNCHANGED settings

Protocol ==
    /\ Matches("-t") /\ HasValue /\ Value \in {"tcp", "udp"}
    /\ use_tcp_protocol' = IF Value = "tcp" THEN 1 ELSE 0
    /\ Proceed(argi + 1)
    /\ UNCHANGED <<hostname, port, udp_timeout, udp_retransmissions>>

Host ==
    /\ Matches("-s") /\ HasValue
    /\ hostname' = Value
    /\ Proceed(argi + 1)
    /\ UNCHANGED <<use_tcp_protocol, port, udp_timeout, udp_retransmissions>>

Port ==
    /\ Matches("-p") /\ HasValue
    /\ port' = Value
    /\ Proceed(argi + 1)
    /\ UNCHANGED <<use_tcp_protocol, hostname, udp_timeout, udp_retransmissions>>

UINT16_MAX == 65535
UINT8_MAX == 255

EightBits(n) == n % (UINT8_MAX + 1)   \* mistake: the cast of the other option
uint16_t(n) == n % (UINT16_MAX + 1)
uint8_t(n) == n % (UINT8_MAX + 1)

Timeout ==
    /\ Matches("-d") /\ HasValue /\ Value \in DOMAIN Numbers
    /\ udp_timeout' = uint16_t(Numbers[Value])
    /\ Proceed(argi + 1)
    /\ UNCHANGED <<use_tcp_protocol, hostname, port, udp_retransmissions>>

Retransmissions ==
    /\ Matches("-r") /\ HasValue /\ Value \in DOMAIN Numbers
    /\ udp_retransmissions' = uint8_t(Numbers[Value])
    /\ Proceed(argi + 1)
    /\ UNCHANGED <<use_tcp_protocol, hostname, port, udp_timeout>>

(* -h, a flag without its value and a value of the wrong kind end the       *)
(* process with EXIT_SUCCESS.                                               *)
Refused ==
    /\ \/ Matches("-h")
       \/ \E flag \in {"-t", "-s", "-p", "-d", "-r"} :
            /\ Matches(flag)
            /\ \/ ~HasValue
               \/ HasValue /\ flag = "-t" /\ Value \notin {"tcp", "udp"}
               \/ HasValue /\ flag \in {"-d", "-r"} /\ Value \notin DOMAIN Numbers
    /\ pc' = "ended"
    /\ UNCHANGED <<argv, position, settings>>

parse_args ==
    NoMatch \/ Protocol \/ Host \/ Port \/ Timeout \/ Retransmissions \/ Refused

Parsed == pc = "args" /\ argi > Len(argv)

-----------------------------------------------------------------------------
(* A command line as the documentation has it: flags with values that are   *)
(* not flags themselves.                                                    *)
FlagPositions == {k \in 1 .. Len(argv) : k % 2 = 1}
WellFormed ==
    /\ Len(argv) % 2 = 0
    /\ \A k \in FlagPositions :
         /\ argv[k] \in {"-t", "-s", "-p", "-d", "-r"}
         /\ \A f \in 1 .. Len(Flags) : argv[k + 1] # Flags[f]
Given(flag, default) ==
    LET P == {k \in FlagPositions : argv[k] = flag}
    IN  IF P = {} THEN default
        ELSE argv[(CHOOSE k \in P : \A j \in P : j <= k) + 1]

(* Of a command line without values that look like flags each flag's last   *)
(* value is used, in whatever order the flags come, and the defaults for    *)
(* the others; -d and -r are taken as unsigned numbers of 16 and 8 bits.    *)
SettingsAsGiven ==
    Parsed /\ WellFormed =>
        /\ use_tcp_protocol = IF Given("-t", NULL) = "tcp" THEN 1
                              ELSE IF Given("-t", NULL) = "udp" THEN 0 ELSE -1
        /\ hostname = Given("-s", NULL) /\ port = Given("-p", "4567")
        /\ udp_timeout = Numbers[Given("-d", "250")] % (UINT16_MAX + 1)
        /\ udp_retransmissions = Numbers[Given("-r", "3")] % (UINT8_MAX + 1)
=============================================================================
