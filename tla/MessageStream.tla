--------------------------- MODULE MessageStream ---------------------------
(***************************************************************************)
(* What the framing of the TCP variant promises: the messages the server   *)
(* wrote are handled one by one, whole and in order.                       *)
(***************************************************************************)
EXTENDS Naturals, Sequences

CONSTANT Messages

VARIABLES sent, handled

Init == sent = <<>> /\ handled = <<>>

Write(m) == sent' = Append(sent, m) /\ UNCHANGED handled

Handle ==
    /\ Len(handled) < Len(sent)
    /\ handled' = Append(handled, sent[Len(handled) + 1])
    /\ UNCHANGED sent

Next == Handle \/ \E m \in Messages : Write(m)

Spec == Init /\ [][Next]_<<sent, handled>>
=============================================================================
