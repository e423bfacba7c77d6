------------------------------ MODULE CStrings ------------------------------
(***************************************************************************)
(* Characters and the few operations on C strings that the client uses.    *)
(* A character is its code; a string is a sequence without its NUL.         *)
(***************************************************************************)
EXTENDS Integers, Sequences

NUL == 0
LF == 10
CR == 13
SP == 32

Character == 1 .. 255          \* of a text, which a NUL ends

(* strncpy into a buffer of n characters and a NUL. *)
strncpy(s, n) == SubSeq(s, 1, IF Len(s) < n THEN Len(s) ELSE n)

(* strstr: the positions of t in s, from the given one on. *)
Occurrences(s, t, from) ==
    {i \in from .. Len(s) - Len(t) + 1 : SubSeq(s, i, i + Len(t) - 1) = t}

First(positions) == CHOOSE i \in positions : \A j \in positions : i <= j

(* The words of a line, by the position of their first character, as        *)
(* strtok(line, " ") finds them.                                            *)
Starts(s) == {i \in 1 .. Len(s) : s[i] # SP /\ (i = 1 \/ s[i - 1] = SP)}
WordAt(s, i) ==
    SubSeq(s, i, First({j \in i .. Len(s) : j = Len(s) \/ s[j + 1] = SP}))
=============================================================================
