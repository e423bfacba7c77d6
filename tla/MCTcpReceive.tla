---------------------------- MODULE MCTcpReceive ----------------------------
(***************************************************************************)
(* One message of each type.  The contents of the MSG read like the grammar,*)
(* one REPLY has two lines, another only blanks.                            *)
(***************************************************************************)
EXTENDS TcpReceive

MCMeant == {
    [type |-> "MSG", name |-> <<97>>, content |-> <<FROM, SP, IS, SP, 120>>],
    [type |-> "ERR", name |-> <<97, 98>>, content |-> <<LF>>],
    [type |-> "BYE", name |-> <<98>>],
    [type |-> "REPLY", result |-> OK, content |-> <<SP, 120, LF, 121>>],
    [type |-> "REPLY", result |-> NOK, content |-> <<LF, SP>>]}

MCMessages == {Text(m) : m \in MCMeant}
MCContent == UNION {{t[i] : i \in 1 .. Len(t)} : t \in MCMessages}
=============================================================================
