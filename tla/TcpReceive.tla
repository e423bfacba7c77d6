----------------------------- MODULE TcpReceive -----------------------------
(***************************************************************************)
(* TcpFraming over the messages of the protocol: what the server means, the *)
(* text it writes, and what the client shows of it.  The effect of a message*)
(* on the session is TcpClient's.                                           *)
(***************************************************************************)
EXTENDS TcpFraming, TcpText

CONSTANT Meant     \* the messages of the server, as it means them

(* The grammar of the protocol.  A name is a single word; a content may hold *)
(* whatever a text can, keywords included.                                  *)
Symbol == Character \cup AUTH .. NOK
Name == {n \in Seq(Character \ {SP}) : Len(n) <= MAX_DISPLAY_NAME_LEN}
Grammar ==
    [type : {"REPLY"}, result : {OK, NOK}, content : Seq(Symbol)]
        \cup [type : {"MSG", "ERR"}, name : Name, content : Seq(Symbol)]
        \cup [type : {"BYE"}, name : Name]

Text(m) ==
    IF m.type = "REPLY" THEN <<REPLY, SP, m.result, SP, IS, SP>> \o m.content
    ELSE IF m.type = "BYE" THEN <<BYE, SP, FROM, SP>> \o m.name
    ELSE <<IF m.type = "MSG" THEN MSG ELSE ERR, SP, FROM, SP>> \o m.name
            \o Spaced(IS) \o m.content

ASSUME MeantAssumption ==
    /\ \A m \in Meant : m \in Grammar
    /\ Messages = {Text(m) : m \in Meant}
    /\ \A m, n \in Meant : Text(m) = Text(n) => m = n

(* MSG, ERR and BYE are read as they were written; of a REPLY's content     *)
(* leading blanks and all but the first line are lost, and one that is      *)
(* nothing but blanks is not accepted.                                      *)
Understood(m) ==
    IF m.type # "REPLY" THEN m
    ELSE LET kept == FirstLine(SkipBlanks(m.content))
         IN  IF kept = <<>> THEN Malformed("REPLY") ELSE [m EXCEPT !.content = kept]

(* However the stream was cut, the client gets from the k-th text the name, *)
(* result and content the server put into its k-th message: the name ends   *)
(* where it ended, also when the content looks like a part of the grammar.  *)
ReadAsWritten ==
    \A k \in 1 .. Len(handled) :
        \E m \in Meant : Text(m) = sent[k] /\ process_tcp_message(handled[k]) = Understood(m)
=============================================================================
