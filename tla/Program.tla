------------------------------ MODULE Program -------------------------------
(***************************************************************************)
(* The main thread from the command line to the messages it hands to the    *)
(* network: the input loop of main.c with getline's buffer, the state       *)
(* functions, the commands, and the bytes or the text of a message.         *)
(*                                                                         *)
(* What becomes of the message, and everything the listener thread does,    *)
(* is UdpClient's and TcpClient's; here a REPLY may answer a request, and a *)
(* message that is not confirmed ends the process.  getline and the memory  *)
(* allocator are external.                                                  *)
(***************************************************************************)
EXTENDS Arguments, Validation, Datagrams, TcpText, FiniteSets

CONSTANTS
    Lines,             \* [text, newline]: what stdin may hold
    CommandWords,      \* [auth, join, rename, help]: the words of commands
    DEFAULT_DISPLAY_NAME,
    FIRST_BLOCK,       \* 120, what getline allocates for a first line
    MessageIds,        \* values of confirmed_msg_ids_index
    MaxOffset          \* bound: how far line may move into its block

ASSUME ProgramAssumption ==
    /\ \A l \in Lines :
         l.text \in Seq(Character) /\ l.newline \in BOOLEAN /\ (l.newline \/ l.text # <<>>)
    /\ DOMAIN CommandWords = {"auth", "join", "rename", "help"}
    /\ DEFAULT_DISPLAY_NAME \in Seq(Character) /\ validate_display_name(DEFAULT_DISPLAY_NAME)
    /\ MessageIds \subseteq 0 .. UINT16_MAX
    /\ FIRST_BLOCK \in Nat \ {0} /\ MaxOffset \in Nat

(* The longest AUTH and its NUL fit the buffer of the send_tcp_* functions. *)
ASSUME BufferIsLargeEnough ==
    MAX_USERNAME_LEN + MAX_DISPLAY_NAME_LEN + MAX_SECRET_LEN + 18 < MAX_MSG_SIZE

VARIABLES
    state, display_name,
    line,              \* NULL, or the offset of the pointer in getline's block
    len,               \* the block's size: main's len keeps it from round to round
    typed,             \* the line read last, without its newline
    unprocessed_line,
    at_end,            \* nothing follows the line
    awaiting,          \* a request was sent that no REPLY has answered
    out, wire          \* the message this line produced, and as it is sent

input == <<line, len, typed, unprocessed_line, at_end>>
session == <<state, display_name, awaiting>>
sending == <<out, wire>>
pvars == <<argv, position, settings, pc, input, session, sending>>

NO_LINE == -1
Nothing == [type |-> "nothing", fields |-> <<>>]

Init ==
    /\ ArgumentsInit
    /\ state = "START" /\ display_name = DEFAULT_DISPLAY_NAME /\ awaiting = FALSE
    /\ line = NO_LINE /\ len = 0
    /\ typed = <<>> /\ unprocessed_line = <<>> /\ at_end = FALSE
    /\ out = Nothing /\ wire = <<>>

Parse == parse_args /\ UNCHANGED <<input, session, sending>>

(* The connection, the tables and the listener; each may fail. *)
Start ==
    /\ Parsed
    /\ pc' \in IF use_tcp_protocol = -1 \/ hostname = NULL THEN {"ended"} ELSE {"read", "ended"}
    /\ UNCHANGED <<argv, position, settings, input, session, sending>>

-----------------------------------------------------------------------------
(* getline: room for the line, its newline and a NUL.  It takes line for    *)
(* the start of a block of len bytes, which holds only for the first line   *)
(* and after a line that line was not moved along.                          *)
Needed(l) == Len(l.text) + (IF l.newline THEN 1 ELSE 0) + 1
Enough(size, l) == IF Needed(l) <= size THEN size
                   ELSE IF Needed(l) <= 2 * size THEN 2 * size ELSE Needed(l)

Allocate(l) ==
    /\ line = NO_LINE
    /\ line' = 0
    /\ len' = Enough(FIRST_BLOCK, l)

Reuse(l) ==
    /\ line # NO_LINE /\ Needed(l) <= len
    /\ UNCHANGED <<line, len>>

Reallocate(l) ==
    /\ line = 0 /\ Needed(l) > len
    /\ len' = Enough(len, l)
    /\ UNCHANGED line

(* main: the last character goes, the newline if there is one; an empty     *)
(* line is skipped; unprocessed_line keeps the line for cmd_msg.            *)
NoRoomForNul(s) == strncpy(s, MAX_MESSAGE_CONTENT_LEN)        \* mistake: off by one
StaleTail(s) ==       \* mistake: neither memset nor a NUL behind what is copied
    strncpy(s, MAX_MESSAGE_CONTENT_LEN - 1)
        \o SubSeq(unprocessed_line, Len(s) + 1, Len(unprocessed_line))
Unprocessed(s) == strncpy(s, MAX_MESSAGE_CONTENT_LEN - 1)

GetLine(l) ==
    /\ pc = "read" /\ ~at_end /\ line <= MaxOffset
    /\ Allocate(l) \/ Reuse(l) \/ Reallocate(l)
    /\ LET s == IF l.newline THEN l.text ELSE Front(l.text)
       IN  /\ typed' = s
           /\ IF s = <<>> THEN UNCHANGED <<unprocessed_line, pc>>
              ELSE unprocessed_line' = Unprocessed(s) /\ pc' = "dispatch"
    /\ at_end' = ~l.newline
    /\ out' = Nothing /\ wire' = <<>>
    /\ UNCHANGED <<argv, position, settings, session>>

ReadError ==
    /\ pc = "read"
    /\ pc' = "ended"
    /\ UNCHANGED <<argv, position, settings, input, session, sending>>

(* realloc of a pointer into a block aborts; a line written past the end of *)
(* its block may go unnoticed (Reuse) or not.                               *)
GetLineCrashes(l) ==
    /\ pc = "read" /\ ~at_end
    /\ line > 0 /\ line + Needed(l) > len
    /\ pc' = "crashed"
    /\ UNCHANGED <<argv, position, settings, input, session, sending>>

-----------------------------------------------------------------------------
(* strtok and the search for a command. *)
WordCount == Cardinality(Starts(typed))
StartOf(k) == CHOOSE i \in Starts(typed) : Cardinality({j \in Starts(typed) : j <= i}) = k
Word(k) == WordAt(typed, StartOf(k))

Commands == DOMAIN CommandWords
Command ==
    IF \E c \in Commands : CommandWords[c] = Word(1)
    THEN CHOOSE c \in Commands : CommandWords[c] = Word(1)
    ELSE "msg"

(* The commands that each state's function runs; the others are refused.    *)
state_start_logic == {"auth", "rename", "help"}
state_auth_logic == {"auth", "rename", "help"}
state_open_logic == {"join", "rename", "help", "msg"}
state_join_logic == {"rename", "help"}

ChatInJoin ==        \* mistake: messages go through while a JOIN is pending
    [START |-> state_start_logic, AUTH |-> state_auth_logic,
     OPEN |-> state_open_logic, JOIN |-> state_join_logic \cup {"msg"}]
Accepted ==
    [START |-> state_start_logic, AUTH |-> state_auth_logic,
     OPEN |-> state_open_logic, JOIN |-> state_join_logic]

Selected(command) ==
    /\ pc = "dispatch" /\ WordCount > 0
    /\ Command = command /\ command \in Accepted[state]

BlankLine ==      \* strcmp is given NULL
    /\ pc = "dispatch" /\ WordCount = 0
    /\ pc' = "crashed"
    /\ UNCHANGED <<argv, position, settings, input, session, sending>>

Refuse ==
    /\ pc = "dispatch" /\ WordCount > 0 /\ Command \notin Accepted[state]
    /\ pc' = "read"
    /\ UNCHANGED <<argv, position, settings, input, session, sending>>

cmd_help ==
    /\ Selected("help")
    /\ pc' = "read"
    /\ UNCHANGED <<argv, position, settings, input, session, sending>>

(* line = strtok(NULL, " "), up to n times: the last word, or NULL. *)
TakeWords(n) ==
    /\ line' = IF WordCount > n THEN line + StartOf(n + 1) - 1 ELSE NO_LINE
    /\ UNCHANGED <<len, typed, unprocessed_line, at_end>>

(* display_name has no room for the NUL of the longest name; behind it lies *)
(* udp_timeout, in the builds that keep the order of the declarations.      *)
SetName(name) ==
    /\ display_name' = name
    /\ udp_timeout' \in {udp_timeout} \cup
         (IF Len(name) = MAX_DISPLAY_NAME_LEN THEN {udp_timeout - (udp_timeout % 256)} ELSE {})
KeepName == UNCHANGED <<display_name, udp_timeout>>

(* What is sent, over the protocol in use; a datagram may stay unconfirmed. *)
Send(message, text, datagrams) ==
    /\ out' = message
    /\ IF use_tcp_protocol = 1 THEN wire' = text /\ pc' = "read"
       ELSE wire' \in datagrams /\ pc' \in {"read", "ended"}
SendNothing == pc' = "read" /\ UNCHANGED sending

cmd_rename ==
    /\ Selected("rename")
    /\ TakeWords(1)
    /\ LET name == strncpy(Word(2), MAX_DISPLAY_NAME_LEN)
       IN  IF WordCount > 1 /\ validate_display_name(name) THEN SetName(name) ELSE KeepName
    /\ SendNothing
    /\ UNCHANGED <<argv, position, use_tcp_protocol, hostname, port, udp_retransmissions,
                   state, awaiting>>

cmd_auth ==
    /\ Selected("auth")
    /\ TakeWords(3)
    /\ state' = "AUTH"
    /\ LET username == strncpy(Word(2), MAX_USERNAME_LEN)
           secret == strncpy(Word(3), MAX_SECRET_LEN)
           name == strncpy(Word(4), MAX_DISPLAY_NAME_LEN)
       IN  IF /\ WordCount > 3
              /\ validate_id(username) /\ validate_secret(secret) /\ validate_display_name(name)
           THEN /\ SetName(name)
                /\ Send([type |-> "AUTH", fields |-> <<username, name, secret>>],
                        send_tcp_auth_msg(username, name, secret),
                        {serialize_auth_msg(id, username, name, secret) : id \in MessageIds})
                /\ awaiting' = TRUE
           ELSE KeepName /\ SendNothing /\ UNCHANGED awaiting
    /\ UNCHANGED <<argv, position, use_tcp_protocol, hostname, port, udp_retransmissions>>

cmd_join ==
    /\ Selected("join")
    /\ TakeWords(1)
    /\ LET channel == strncpy(Word(2), MAX_USERNAME_LEN)
       IN  IF /\ WordCount > 1
              /\ validate_id(channel) /\ validate_display_name(display_name)
           THEN /\ state' = "JOIN" /\ awaiting' = TRUE
                /\ Send([type |-> "JOIN", fields |-> <<channel, display_name>>],
                        send_tcp_join_msg(channel, display_name),
                        {serialize_join_msg(id, channel, display_name) : id \in MessageIds})
           ELSE SendNothing /\ UNCHANGED <<state, awaiting>>
    /\ UNCHANGED <<argv, position, settings, display_name>>

(* unprocessed_line is too short for a line that would have to be cut.      *)
Message ==
    IF Len(unprocessed_line) > MAX_MESSAGE_CONTENT_LEN
    THEN truncate_message_content(unprocessed_line) ELSE unprocessed_line

cmd_msg ==
    /\ Selected("msg")
    /\ IF validate_display_name(display_name) /\ validate_message_content(unprocessed_line)
       THEN Send([type |-> "MSG", fields |-> <<display_name, Message>>],
                 send_tcp_msg_msg(display_name, Message),
                 {serialize_msg(id, display_name, Message) : id \in MessageIds})
       ELSE SendNothing
    /\ UNCHANGED <<argv, position, settings, input, session>>

(* The end of stdin, or Ctrl-C at any time. *)
graceful_quit ==
    /\ pc \in {"read", "dispatch"}
    /\ out' = [type |-> "BYE", fields |-> <<display_name>>]
    /\ wire' \in IF use_tcp_protocol = 1 THEN {send_tcp_bye_msg(display_name)}
                 ELSE {serialize_bye_msg(id, display_name) : id \in MessageIds}
    /\ pc' = "ended"
    /\ UNCHANGED <<argv, position, settings, input, session>>

(* The listener handles the REPLY to a request. *)
Reply(ok) ==
    /\ pc \in {"read", "dispatch"} /\ awaiting
    /\ state' = IF ok \/ state = "JOIN" THEN "OPEN" ELSE state
    /\ awaiting' = FALSE
    /\ UNCHANGED <<argv, position, settings, pc, input, display_name, sending>>

Ended == pc \in {"ended", "crashed"} /\ UNCHANGED pvars

Dispatch == BlankLine \/ Refuse \/ cmd_help \/ cmd_rename \/ cmd_auth \/ cmd_join \/ cmd_msg

Next ==
    \/ Parse \/ Start \/ ReadError \/ Dispatch \/ graceful_quit \/ Ended
    \/ \E l \in Lines : GetLine(l) \/ GetLineCrashes(l)
    \/ \E ok \in BOOLEAN : Reply(ok)

Spec == Init /\ [][Next]_pvars

-----------------------------------------------------------------------------
(* Every variable has its type; unprocessed_line keeps room for its NUL.    *)
TypeOK ==
    /\ pc \in {"args", "read", "dispatch", "ended", "crashed"}
    /\ use_tcp_protocol \in {-1, 0, 1}
    /\ udp_timeout \in 0 .. UINT16_MAX /\ udp_retransmissions \in 0 .. UINT8_MAX
    /\ state \in {"START", "AUTH", "OPEN", "JOIN"}
    /\ Len(display_name) \in 1 .. MAX_DISPLAY_NAME_LEN
    /\ line \in {NO_LINE} \cup Nat /\ len \in Nat
    /\ Len(unprocessed_line) < MAX_MESSAGE_CONTENT_LEN
    /\ {at_end, awaiting} \subseteq BOOLEAN

(* The parameters of a message: IDs as the protocol's grammar has them, and *)
(* as validate_id has them, with a dot; secrets, names and contents.        *)
OneOf(characters, s, max) ==
    Len(s) \in 1 .. max /\ \A i \in 1 .. Len(s) : s[i] \in characters
Alphanumeric == (48 .. 57) \cup (65 .. 90) \cup (97 .. 122)
GrammarId(s) == OneOf(Alphanumeric \cup {45, 95}, s, MAX_USERNAME_LEN)
DottedId(s) == OneOf(Alphanumeric \cup {45, 46, 95}, s, MAX_USERNAME_LEN)
ValidSecret(s) == OneOf(Alphanumeric \cup {45, 95}, s, MAX_SECRET_LEN)
ValidName(s) == OneOf(33 .. 126, s, MAX_DISPLAY_NAME_LEN)
ValidContent(s) == OneOf({10} \cup (32 .. 126), s, MAX_MESSAGE_CONTENT_LEN)

(* No message leaves the client with a parameter that validation.c would    *)
(* refuse, be it typed now, or a name that an earlier command left behind   *)
(* and that is still used many lines later, or the default.  That is not    *)
(* yet what the protocol asks for: validate_id lets a dot through           *)
(* (IdsFollowGrammar), and a word is cut to its limit before it is          *)
(* validated (WordsSentWhole).                                              *)
ConformingMessages ==
    /\ out.type = "AUTH" => /\ DottedId(out.fields[1]) /\ ValidName(out.fields[2])
                            /\ ValidSecret(out.fields[3])
    /\ out.type = "JOIN" => DottedId(out.fields[1]) /\ ValidName(out.fields[2])
    /\ out.type = "MSG" => ValidName(out.fields[1]) /\ ValidContent(out.fields[2])
    /\ out.type = "BYE" => ValidName(out.fields[1])

(* A username or channel that is sent holds only the characters that the    *)
(* protocol's grammar and the error text of cmd_auth list.  The code does   *)
(* not keep this, nor the next property; README.md says how to see it.      *)
IdsFollowGrammar == out.type \in {"AUTH", "JOIN"} => GrammarId(out.fields[1])

(* A command with a word longer than its limit is not sent, as the protocol *)
(* asks: whatever is sent is the words as they were typed.                  *)
WordsSentWhole ==
    /\ out.type = "AUTH" => out.fields = <<Word(2), Word(4), Word(3)>>
    /\ out.type = "JOIN" => out.fields[1] = Word(2)

(* What is sent comes from the line just read and the name in force, never  *)
(* from what an earlier line left in unprocessed_line or in getline's       *)
(* block: a chat message is the line itself or, if it is too long, a first  *)
(* part of it; each parameter of a command is a word of it or the beginning *)
(* of that word.                                                            *)
SentFromThisLine ==
    /\ out.type = "MSG" =>
         /\ out.fields[1] = display_name
         /\ IsPrefix(out.fields[2], typed)
         /\ Len(typed) < MAX_MESSAGE_CONTENT_LEN => out.fields[2] = typed
    /\ out.type = "JOIN" =>
         IsPrefix(out.fields[1], Word(2)) /\ out.fields[2] = display_name
    /\ out.type = "AUTH" =>
         /\ IsPrefix(out.fields[1], Word(2)) /\ IsPrefix(out.fields[3], Word(3))
         /\ IsPrefix(out.fields[2], Word(4)) /\ out.fields[2] = display_name

(* A server that reads a datagram by the documented layout: the type, the   *)
(* ID, and texts with a NUL behind each.                                    *)
TypeCode == [AUTH |-> 2, JOIN |-> 3, MSG |-> 4, BYE |-> 255]
EndOfText(d, i) == First(Occurrences(d, <<0>>, i))
TextAt(d, i) == SubSeq(d, i, EndOfText(d, i) - 1)
ReadsDatagram(message, d) ==
    LET second == EndOfText(d, 4) + 1
        third == EndOfText(d, second) + 1
        fourth == EndOfText(d, third) + 1
    IN  /\ d[1] = TypeCode[message.type] /\ 256 * d[2] + d[3] \in MessageIds
        /\ IF message.type = "BYE"
           THEN message.fields = <<TextAt(d, 4)>> /\ second = Len(d) + 1
           ELSE IF message.type = "AUTH"
           THEN /\ message.fields = <<TextAt(d, 4), TextAt(d, second), TextAt(d, third)>>
                /\ fourth = Len(d) + 1
           ELSE /\ message.fields = <<TextAt(d, 4), TextAt(d, second)>>
                /\ third = Len(d) + 1

(* A server that reads a text by its keywords. *)
Between(t, first, last) == SubSeq(t, First(Occurrences(t, first, 1)) + Len(first),
                                  First(Occurrences(t, last, 1)) - 1)
Keyword == [AUTH |-> AUTH, JOIN |-> JOIN, MSG |-> MSG, BYE |-> BYE]
TextFields(type, t) ==
    IF type = "AUTH" THEN <<Between(t, <<AUTH, SP>>, Spaced(AS)),
                            Between(t, Spaced(AS), Spaced(USING)),
                            Between(t, Spaced(USING), CRLF)>>
    ELSE IF type = "JOIN" THEN <<Between(t, <<JOIN, SP>>, Spaced(AS)),
                                 Between(t, Spaced(AS), CRLF)>>
    ELSE IF type = "MSG" THEN <<Between(t, <<FROM, SP>>, Spaced(IS)),
                                Between(t, Spaced(IS), CRLF)>>
    ELSE <<Between(t, <<FROM, SP>>, CRLF)>>
ReadsText(message, t) ==
    t[1] = Keyword[message.type] /\ TextFields(message.type, t) = message.fields

(* Every message reads back, in both variants, as the fields it was made    *)
(* of; only the text of a MSG that fills the buffer to its last character   *)
(* is cut and loses its CRLF.                                               *)
ServerUnderstands ==
    out.type = "nothing"
    \/ (use_tcp_protocol = 0 /\ ReadsDatagram(out, wire))
    \/ /\ use_tcp_protocol = 1
       /\ IF SubSeq(wire, Len(wire) - 1, Len(wire)) = CRLF THEN ReadsText(out, wire)
          ELSE out.type = "MSG" /\ Size(wire) = MAX_MSG_SIZE - 1

(* A line that is no command and holds only characters of the grammar is    *)
(* sent when the session is open, and never in another state, however the   *)
(* REPLY that changes the state falls between the reading of the line and   *)
(* its dispatch.                                                            *)
EveryChatLineIsSent ==
    [][ /\ pc = "dispatch" /\ pc' # "dispatch" /\ out'.type # "BYE" /\ WordCount > 0
        /\ \A c \in Commands : CommandWords[c] # Word(1)
        /\ \A i \in 1 .. Len(typed) : typed[i] \in 32 .. 126
        => (out'.type = "MSG" <=> state = "OPEN") ]_pvars

(* The time between retransmissions is the one given with -d or its         *)
(* default, as the documentation of the arguments has it.                   *)
TimeoutAsConfigured ==
    pc \in {"read", "dispatch"} /\ WellFormed =>
        udp_timeout = Numbers[Given("-d", "250")] % (UINT16_MAX + 1)
=============================================================================
