---------------------------- MODULE ChatSession ----------------------------
(***************************************************************************)
(* What both variants of the client promise about a session, without any   *)
(* messages: the states of enum APP_STATE and the transitions of the       *)
(* client's state machine.  accepted says whether the server has accepted  *)
(* an AUTH of this client.  A session is opened once, by acceptance, and   *)
(* from then on the client only joins channels and comes back.             *)
(***************************************************************************)
VARIABLES state, accepted

Init == state = "START" /\ accepted = FALSE

Authenticate == state = "START" /\ state' = "AUTH" /\ UNCHANGED accepted

Accept == state = "AUTH" /\ ~accepted /\ accepted' = TRUE /\ UNCHANGED state

Opened == state = "AUTH" /\ accepted /\ state' = "OPEN" /\ UNCHANGED accepted

Join == state = "OPEN" /\ state' = "JOIN" /\ UNCHANGED accepted

Joined == state = "JOIN" /\ state' = "OPEN" /\ UNCHANGED accepted

Next == Authenticate \/ Accept \/ Opened \/ Join \/ Joined

Spec == Init /\ [][Next]_<<state, accepted>>
=============================================================================
