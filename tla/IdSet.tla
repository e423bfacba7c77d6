------------------------------- MODULE IdSet -------------------------------
(***************************************************************************)
(* What the deduplication of received messages promises: a set of message  *)
(* IDs, and for every ID asked about the answer whether it was asked about  *)
(* before.                                                                  *)
(***************************************************************************)
CONSTANT Ids

VARIABLES known, answer

Init == known = {} /\ answer = "none"

Ask(id) ==
    /\ answer' = IF id \in known THEN "duplicate" ELSE "new"
    /\ known' = known \cup {id}

Next == \E id \in Ids : Ask(id)
Spec == Init /\ [][Next]_<<known, answer>>
=============================================================================
