------------------------------ MODULE Delivery ------------------------------
(***************************************************************************)
(* What the UDP variant promises about the server's chat messages on a      *)
(* network that loses, repeats and reorders them: each is shown at most     *)
(* once, and the server is told that one has arrived only when it has been  *)
(* shown.                                                                   *)
(***************************************************************************)
EXTENDS Naturals, Sequences

CONSTANT Messages      \* records with a type and an id

VARIABLES
    sent,        \* messages of which a copy has got through
    shown,       \* IDs of the chat messages the user has seen, in order
    confirmed    \* IDs the server has been told of

vars == <<sent, shown, confirmed>>

Chat(m) == m.type \in {"MSG", "ERR"}
WasShown(id) == \E k \in 1 .. Len(shown) : shown[k] = id

Init == sent = {} /\ shown = <<>> /\ confirmed = {}

Send(m) == sent' = sent \cup {m} /\ UNCHANGED <<shown, confirmed>>

Show(m) ==
    /\ m \in sent /\ Chat(m) /\ ~WasShown(m.id)
    /\ shown' = Append(shown, m.id)
    /\ confirmed' = confirmed \cup {m.id}
    /\ UNCHANGED sent

Confirm(m) ==
    /\ m \in sent /\ (Chat(m) => WasShown(m.id))
    /\ confirmed' = confirmed \cup {m.id}
    /\ UNCHANGED <<sent, shown>>

Next == \E m \in Messages : Send(m) \/ Show(m) \/ Confirm(m)
Spec == Init /\ [][Next]_vars
=============================================================================
