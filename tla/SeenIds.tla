------------------------------ MODULE SeenIds ------------------------------
(***************************************************************************)
(* The list of received message IDs (id.c, is_message_duplicate): a malloced *)
(* array, filled from the front, doubled when full.  Entries that were not  *)
(* written yet hold whatever the memory held.                               *)
(***************************************************************************)
EXTENDS Integers

CONSTANTS
    Ids,           \* the values of uint16_t
    InitialSize    \* DEFAULT_SEEN_MSG_ARR_SIZE

ASSUME InitialSizeAssumption == InitialSize \in Nat \ {0}

VARIABLES
    seen_ids, seen_count, seen_ids_array_size,
    answer         \* what the last call returned

table == <<seen_ids, seen_count, seen_ids_array_size>>
vars == <<table, answer>>

Memory(size) == [0 .. size - 1 -> Ids]      \* malloc: any content

Init ==
    /\ seen_ids_array_size = InitialSize
    /\ seen_ids \in Memory(InitialSize)
    /\ seen_count = 0
    /\ answer = "none"

ScanTooFar(id) ==        \* mistake: the scan includes the first unwritten entry
    \E i \in 0 .. seen_count : i < seen_ids_array_size /\ seen_ids[i] = id
ScanTooShort(id) ==      \* mistake: the scan misses the last entry
    \E i \in 0 .. seen_count - 2 : seen_ids[i] = id
Listed(id) == \E i \in 0 .. seen_count - 1 : seen_ids[i] = id

Duplicate(id) ==
    /\ Listed(id)
    /\ answer' = "duplicate"
    /\ UNCHANGED table

Write(a, id) == [a EXCEPT ![seen_count] = id]

(* if (seen_count < seen_ids_array_size) *)
Full == seen_count >= seen_ids_array_size

AppendId(id) ==
    /\ ~Listed(id) /\ ~Full
    /\ seen_ids' = Write(seen_ids, id)
    /\ seen_count' = seen_count + 1
    /\ answer' = "new"
    /\ UNCHANGED seen_ids_array_size

(* realloc keeps the old entries and leaves the new half unwritten. *)
GrowAndAppend(id) ==
    /\ ~Listed(id) /\ Full
    /\ seen_ids_array_size' = 2 * seen_ids_array_size
    /\ \E grown \in Memory(2 * seen_ids_array_size) :
         /\ \A i \in 0 .. seen_ids_array_size - 1 : grown[i] = seen_ids[i]
         /\ seen_ids' = Write(grown, id)
    /\ seen_count' = seen_count + 1
    /\ answer' = "new"

is_message_duplicate(id) == Duplicate(id) \/ AppendId(id) \/ GrowAndAppend(id)

Next == \E id \in Ids : is_message_duplicate(id)
Spec == Init /\ [][Next]_vars

-----------------------------------------------------------------------------
(* The array is a function on its size, the count is within it. *)
TypeOK ==
    /\ seen_ids_array_size \in Nat \ {0}
    /\ seen_ids \in Memory(seen_ids_array_size)
    /\ seen_count \in 0 .. seen_ids_array_size
    /\ answer \in {"none", "new", "duplicate"}

(* No ID is listed twice, so the array never grows beyond twice the number  *)
(* of IDs there are, however often the server repeats itself.               *)
EntriesDistinct ==
    \A i, j \in 0 .. seen_count - 1 : seen_ids[i] = seen_ids[j] => i = j

(* The array answers as the set of all IDs asked about would: a repeated    *)
(* message is recognised across every growth of the array, and a new one is *)
(* never taken for a repetition because of what unwritten memory holds.     *)
Known == {seen_ids[i] : i \in 0 .. seen_count - 1}
Set == INSTANCE IdSet WITH known <- Known
ImplementsIdSet == Set!Spec
=============================================================================
