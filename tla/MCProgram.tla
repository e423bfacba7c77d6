----------------------------- MODULE MCProgram ------------------------------
(***************************************************************************)
(* Lines and command lines for Program.  The commands are written /a, /j,   *)
(* /r and /h; /x is none.  Limits are 2 for a word and 24 for a message, so *)
(* that the longest message fills a buffer of 31 characters.                *)
(***************************************************************************)
EXTENDS Program

MCCommandWords == [auth |-> <<47, 97>>, join |-> <<47, 106>>,
                   rename |-> <<47, 114>>, help |-> <<47, 104>>]
Auth == MCCommandWords.auth
Join == MCCommandWords.join
Rename == MCCommandWords.rename

(* A line of words, and lines that hold no words or no command. *)
Typed(words) == [text |-> FlattenSeq([k \in 1 .. 2 * Len(words) - 1 |->
                              IF k % 2 = 0 THEN <<SP>> ELSE words[(k + 1) \div 2]]),
                 newline |-> TRUE]
Of(c, n) == [i \in 1 .. n |-> c]

b == <<98>>
AuthLines == {
    Typed(<<Auth, b, <<115>>, <<98, 99>>>>),                 \* the longest name
    Typed(<<Auth, <<98, 98, 98>>, <<115>>, b>>),             \* a username too long
    Typed(<<Auth, <<98, 33>>, <<115>>, b>>),                 \* not a username
    Typed(<<Auth, <<98, 46>>, <<115>>, b>>),                 \* a dot
    Typed(<<Auth, b, <<46>>, b>>),                           \* not a secret
    Typed(<<Auth, b, <<115>>>>)}
JoinLines == {Typed(<<Join, b>>), Typed(<<Join, <<33>>>>), Typed(<<Join>>)}
RenameLines == {Typed(<<Rename, <<100>>>>), Typed(<<Rename, <<9>>>>), Typed(<<Rename>>)}
OtherLines == {
    Typed(<<MCCommandWords.help>>),
    [text |-> <<>>, newline |-> TRUE],
    [text |-> <<SP, SP>>, newline |-> TRUE],
    Typed(<<<<47, 120>>>>),                                  \* an unknown command
    Typed(<<b, <<9>>>>),                                     \* not a message
    [text |-> <<98, 99>>, newline |-> FALSE],
    [text |-> Of(120, 3), newline |-> TRUE],
    [text |-> Of(120, 18), newline |-> TRUE],                \* no room for the CRLF
    [text |-> Of(120, 26), newline |-> TRUE]}                \* longer than a message
MCLines == AuthLines \cup JoinLines \cup RenameLines \cup OtherLines

MCName == <<117>>
MCMessageIds == {1, 514}

MCNumbers == [t \in {"250", "3", "65836", "257", "0"} |->
    CASE t = "250" -> 250 [] t = "3" -> 3 [] t = "65836" -> 65836 [] t = "257" -> 257 [] t = "0" -> 0]
Running == {
    <<"-t", "tcp", "-s", "h">>,
    <<"-s", "h", "-d", "65836", "-t", "udp", "-p", "1">>,
    <<"-r", "257", "-t", "tcp", "-s", "x", "-t", "udp", "-d", "0", "-d", "250", "-r", "3", "-s", "h">>}
MCCommandLines == Running \cup {
    <<>>, <<"-h">>, <<"-t">>, <<"-t", "x">>, <<"-s">>, <<"-p">>, <<"-d">>, <<"-r">>,
    <<"-d", "x">>, <<"-r", "x">>, <<"-s", "h">>, <<"-t", "udp">>, <<"-t", "udp", "-s", "h", "-h">>,
    <<"-s", "-p", "-d", "257", "x", "-r", "257">>}
=============================================================================
