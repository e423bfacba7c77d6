------------------------- MODULE UdpReceiveProofs --------------------------
(***************************************************************************)
(* What the UDP listener makes of received bytes, for every buffer size,   *)
(* every set of server messages and every first size of the list of IDs:   *)
(* serialisation followed by deserialisation, through a buffer that is     *)
(* never cleared, gives the message back, and the listener delivers        *)
(* messages as Delivery promises.                                          *)
(***************************************************************************)
EXTENDS UdpReceive, SequenceTheorems, TLAPS

-----------------------------------------------------------------------------
(* The array of seen IDs implements the set of seen IDs, for every first    *)
(* size of the array and every set of IDs.                                  *)
Inv == TypeOK /\ EntriesDistinct

(* Writing behind the last entry adds the ID to the set and changes nothing *)
(* else of it, whatever the rest of the array holds.                        *)
LEMMA WriteAdds ==
  ASSUME TypeOK, NEW id \in Ids, NEW size \in Nat, seen_count < size,
         NEW a \in Memory(size),
         \A i \in 0 .. seen_count - 1 : a[i] = seen_ids[i],
         seen_ids' = Write(a, id), seen_count' = seen_count + 1
  PROVE  /\ seen_ids' \in Memory(size)
         /\ \A i \in 0 .. seen_count - 1 : seen_ids'[i] = seen_ids[i]
         /\ seen_ids'[seen_count] = id
         /\ Known' = Known \cup {id}
<1>1. seen_count \in Nat /\ seen_count \in 0 .. size - 1
  BY DEF TypeOK
<1>2. seen_ids' \in Memory(size) /\ seen_ids'[seen_count] = id
  BY <1>1 DEF Memory, Write
<1>3. \A i \in 0 .. seen_count - 1 : seen_ids'[i] = seen_ids[i]
  BY <1>1 DEF Memory, Write
<1>4. 0 .. seen_count' - 1 = (0 .. seen_count - 1) \cup {seen_count}
  BY <1>1
<1> QED
  BY <1>2, <1>3, <1>4 DEF Known

(* An ID that was not listed leaves the entries distinct. *)
LEMMA FreshKeepsDistinct ==
  ASSUME TypeOK, EntriesDistinct, NEW id \in Ids, ~Listed(id),
         \A i \in 0 .. seen_count - 1 : seen_ids'[i] = seen_ids[i],
         seen_ids'[seen_count] = id, seen_count' = seen_count + 1
  PROVE  EntriesDistinct'
<1>1. \A i \in 0 .. seen_count' - 1 : i \in 0 .. seen_count - 1 \/ i = seen_count
  BY DEF TypeOK
<1> QED
  BY <1>1 DEF EntriesDistinct, Listed

(* One call: the invariant is kept and the set of entries answers like IdSet. *)
LEMMA CallStep ==
  ASSUME Inv, NEW id \in Ids, is_message_duplicate(id)
  PROVE  Inv' /\ Set!Ask(id)
<1>1. Listed(id) <=> id \in Known
  BY DEF Listed, Known
<1>2. CASE Duplicate(id)
  <2>1. Known' = Known
    BY <1>2 DEF Duplicate, table, Known
  <2> QED
    BY <1>1, <1>2, <2>1 DEF Duplicate, table, Inv, TypeOK, EntriesDistinct, Set!Ask
<1>3. CASE AppendId(id)
  <2>1. /\ seen_count < seen_ids_array_size
        /\ seen_ids \in Memory(seen_ids_array_size)
        /\ seen_ids_array_size \in Nat
    BY <1>3 DEF AppendId, Full, Inv, TypeOK
  <2>2. /\ seen_ids' \in Memory(seen_ids_array_size)
        /\ \A i \in 0 .. seen_count - 1 : seen_ids'[i] = seen_ids[i]
        /\ seen_ids'[seen_count] = id
        /\ Known' = Known \cup {id}
    BY <1>3, <2>1, WriteAdds DEF AppendId, Inv
  <2>3. TypeOK'
    BY <1>3, <2>1, <2>2 DEF AppendId, Inv, TypeOK
  <2>4. EntriesDistinct'
    BY <1>3, <2>2, FreshKeepsDistinct DEF AppendId, Inv
  <2> QED
    BY <1>1, <1>3, <2>2, <2>3, <2>4 DEF AppendId, Inv, Set!Ask
<1>4. CASE GrowAndAppend(id)
  <2> DEFINE size == seen_ids_array_size
  <2>1. size \in Nat \ {0} /\ seen_count \in Nat /\ seen_count = size
    BY <1>4 DEF GrowAndAppend, Full, Inv, TypeOK
  <2>2. PICK grown \in Memory(2 * size) :
          /\ \A i \in 0 .. size - 1 : grown[i] = seen_ids[i]
          /\ seen_ids' = Write(grown, id)
    BY <1>4 DEF GrowAndAppend
  <2>3. /\ seen_ids' \in Memory(2 * size)
        /\ \A i \in 0 .. seen_count - 1 : seen_ids'[i] = seen_ids[i]
        /\ seen_ids'[seen_count] = id
        /\ Known' = Known \cup {id}
    <3>1. 2 * size \in Nat /\ seen_count < 2 * size
      BY <2>1
    <3>2. seen_count' = seen_count + 1
      BY <1>4 DEF GrowAndAppend
    <3> HIDE DEF size
    <3> QED
      BY <2>1, <2>2, <3>1, <3>2, WriteAdds DEF Inv
  <2>4. TypeOK'
    BY <1>4, <2>1, <2>3 DEF GrowAndAppend, Inv, TypeOK
  <2>5. EntriesDistinct'
    BY <1>4, <2>3, FreshKeepsDistinct DEF GrowAndAppend, Inv
  <2> QED
    BY <1>1, <1>4, <2>3, <2>4, <2>5 DEF GrowAndAppend, Inv, Set!Ask
<1> QED
  BY <1>2, <1>3, <1>4 DEF is_message_duplicate

(* The array is empty at first, whatever malloc's memory holds. *)
LEMMA InitInv == Init => Inv /\ Set!Init
<1> SUFFICES ASSUME Init PROVE Inv /\ Set!Init
  OBVIOUS
<1>1. 0 .. seen_count - 1 = {}
  BY DEF Init
<1>2. TypeOK
  BY InitialSizeAssumption DEF Init, TypeOK
<1>3. EntriesDistinct /\ Known = {}
  BY <1>1 DEF EntriesDistinct, Known
<1> QED
  BY <1>2, <1>3 DEF Inv, Init, Set!Init

(* Every step keeps the invariant. *)
LEMMA NextInv == Inv /\ [Next]_vars => Inv'
<1>1. Inv /\ UNCHANGED vars => Inv'
  BY DEF Inv, vars, table, TypeOK, EntriesDistinct
<1> QED
  BY <1>1, CallStep DEF Next

(* The array never holds an ID twice and the count stays within its size,   *)
(* for any number of messages (id.c, is_message_duplicate).                 *)
THEOREM SeenIdsInvariant == Spec => [](TypeOK /\ EntriesDistinct)
<1> QED
  BY InitInv, NextInv, PTL DEF Spec, Inv

(* The array answers as the set of received IDs does (id.c,                 *)
(* is_message_duplicate): what UdpClient's variable seen stands for.        *)
THEOREM SeenIdsImplementIdSet == Spec => ImplementsIdSet
<1>1. Inv /\ [Next]_vars => [Set!Next]_<<Known, answer>>
  <2>1. ASSUME Inv, Next PROVE Set!Next
    BY <2>1, CallStep DEF Next, Set!Next
  <2>2. UNCHANGED vars => UNCHANGED <<Known, answer>>
    BY DEF vars, table, Known
  <2> QED
    BY <2>1, <2>2
<1> QED
  BY <1>1, InitInv, NextInv, PTL DEF Spec, ImplementsIdSet, Set!Spec

-----------------------------------------------------------------------------
(* Datagrams: what is written is read. *)
Types == {"CONFIRM", "REPLY", "AUTH", "JOIN", "MSG", "PING", "ERR", "BYE"}
Texts == {"MSG", "ERR"}

(* The types are bytes, each its own. *)
LEMMA TypeValues ==
  /\ DOMAIN MSG_TYPE_VAL = Types
  /\ \A a \in Types : MSG_TYPE_VAL[a] \in Byte
  /\ \A a, b \in Types : MSG_TYPE_VAL[a] = MSG_TYPE_VAL[b] => a = b
<1>1. DOMAIN MSG_TYPE_VAL = Types
  BY DEF MSG_TYPE_VAL, Types
<1>2. /\ MSG_TYPE_VAL["CONFIRM"] = 0 /\ MSG_TYPE_VAL["REPLY"] = 1
      /\ MSG_TYPE_VAL["AUTH"] = 2 /\ MSG_TYPE_VAL["JOIN"] = 3
      /\ MSG_TYPE_VAL["MSG"] = 4 /\ MSG_TYPE_VAL["PING"] = 253
      /\ MSG_TYPE_VAL["ERR"] = 254 /\ MSG_TYPE_VAL["BYE"] = 255
  BY DEF MSG_TYPE_VAL
<1> HIDE DEF MSG_TYPE_VAL
<1> QED
  BY <1>1, <1>2 DEF Types, Byte

(* A 16-bit number and its two bytes. *)
LEMMA TwoBytes ==
  ASSUME NEW id \in Uint16
  PROVE  /\ id \div 256 \in Byte /\ id % 256 \in Byte
         /\ 256 * (id \div 256) + (id % 256) = id
  BY DEF Byte, Uint16

(* A text is a sequence of bytes. *)
LEMMA TextIsBytes ==
  ASSUME NEW s \in Seq(Character)
  PROVE  s \in Seq(Byte)
<1>1. Character \subseteq Byte
  BY DEF Character, Byte
<1> QED
  BY <1>1, SeqMonotonic

(* The parts of the server's messages. *)
LEMMA MessageParts ==
  ASSUME NEW m \in ServerMessages
  PROVE  /\ m.type \in Types /\ m.id \in Ids /\ m.id \in Uint16
         /\ m.result \in Byte /\ m.ref \in Uint16
         /\ m.name \in Seq(Character) /\ m.contents \in Seq(Character)
         /\ m.name \in Seq(Byte) /\ m.contents \in Seq(Byte)
         /\ Len(m.name) \in Nat /\ Len(m.contents) \in Nat
         /\ Len(m.name) <= MAX_DISPLAY_NAME_LEN
         /\ \A n \in ServerMessages : n.id = m.id => n = m
<1>1. m.type \in Types
  BY ServerMessagesAssumption, TypeValues
<1>2. m.id \in Uint16
  BY ServerMessagesAssumption, ReceiveAssumption
<1>3. m.name \in Seq(Byte) /\ m.contents \in Seq(Byte)
  BY ServerMessagesAssumption, TextIsBytes
<1> QED
  BY <1>1, <1>2, <1>3, ServerMessagesAssumption, LenProperties

(* The buffer has room for a datagram without contents and for its NUL. *)
LEMMA Sizes ==
  /\ MAX_MSG_SIZE \in Nat /\ Room \in Nat /\ MAX_MSG_SIZE = Room + 1
  /\ Room = MAX_MESSAGE_CONTENT_LEN + 6
  /\ MAX_MESSAGE_CONTENT_LEN \in Nat /\ MAX_DISPLAY_NAME_LEN \in Nat
  /\ MAX_DISPLAY_NAME_LEN <= MAX_MESSAGE_CONTENT_LEN
  BY MaximumsAssumption, ReceiveAssumption DEF MAX_MSG_SIZE, Room

(* The NUL is a string of one byte. *)
LEMMA NulString == <<NUL>> \in Seq(Byte) /\ Len(<<NUL>>) = 1 /\ <<NUL>>[1] = NUL
  BY DEF NUL, Byte

LEMMA HeaderBytes ==
  ASSUME NEW m \in ServerMessages
  PROVE  Header3(m) \in Seq(Byte) /\ Len(Header3(m)) = 3
<1>1. MSG_TYPE_VAL[m.type] \in Byte /\ m.id \div 256 \in Byte /\ m.id % 256 \in Byte
  BY MessageParts, TypeValues, TwoBytes
<1> QED
  BY <1>1 DEF Header3

(* A sequence followed by another. *)
LEMMA Glue ==
  ASSUME NEW S, NEW a \in Seq(S), NEW b \in Seq(S)
  PROVE  /\ a \o b \in Seq(S) /\ Len(a \o b) = Len(a) + Len(b)
         /\ \A i \in 1 .. Len(a) : (a \o b)[i] = a[i]
         /\ \A i \in 1 .. Len(b) : (a \o b)[Len(a) + i] = b[i]
<1> DEFINE w == a \o b
           p == Len(a)
           q == Len(b)
<1>1. /\ w \in Seq(S) /\ Len(w) = p + q
      /\ \A i \in 1 .. p + q : w[i] = IF i <= p THEN a[i] ELSE b[i - p]
  BY ConcatProperties
<1>0. p \in Nat /\ q \in Nat
  BY LenProperties
<1> HIDE DEF w, p, q
<1>2. \A i \in 1 .. p + q : w[i] = IF i <= p THEN a[i] ELSE b[i - p]
  BY <1>1
<1>3. \A i \in 1 .. p : w[i] = a[i]
  BY <1>2, <1>0
<1>4. ASSUME NEW i \in 1 .. q PROVE w[p + i] = b[i]
  <2>1. p + i \in 1 .. p + q /\ ~(p + i <= p) /\ (p + i) - p = i
    BY <1>0
  <2> QED
    BY <1>2, <2>1
<1> QED
  BY <1>1, <1>3, <1>4 DEF w, p, q

(* A text and its NUL. *)
LEMMA TextBytes ==
  ASSUME NEW s \in Seq(Byte)
  PROVE  /\ s \o <<NUL>> \in Seq(Byte) /\ Len(s \o <<NUL>>) = Len(s) + 1
         /\ \A i \in 1 .. Len(s) : (s \o <<NUL>>)[i] = s[i]
         /\ (s \o <<NUL>>)[Len(s) + 1] = NUL
<1> DEFINE z == <<NUL>>
<1>1. z \in Seq(Byte)
  BY NulString
<1>2. Len(z) = 1
  BY NulString
<1>3. z[1] = NUL
  BY NulString
<1> HIDE DEF z
<1> DEFINE w == s \o z
           p == Len(s)
<1>4. /\ w \in Seq(Byte) /\ Len(w) = p + Len(z)
      /\ \A i \in 1 .. p : w[i] = s[i]
      /\ \A i \in 1 .. Len(z) : w[p + i] = z[i]
  BY <1>1, Glue
<1> HIDE DEF w, p
<1>5. w[p + 1] = NUL
  <2>1. 1 \in 1 .. 1
    OBVIOUS
  <2> QED
    BY <1>2, <1>3, <1>4, <2>1
<1> QED
  BY <1>2, <1>4, <1>5 DEF w, z, p

(* Of functions on positions: w is s followed by t; w is s and a NUL. *)
Beside(w, s, p, t, q) == (\A i \in 1 .. p : w[i] = s[i]) /\ (\A i \in 1 .. q : w[p + i] = t[i])
Ends(w, s, p) == (\A i \in 1 .. p : w[i] = s[i]) /\ w[p + 1] = NUL

(* The offsets of the parts of a MSG or ERR. *)
LEMMA TextOffsets ==
  ASSUME NEW n \in Nat, NEW c \in Nat,
         NEW w, NEW h, NEW d, NEW b, NEW a, NEW x, NEW y,
         Beside(w, h, 3, d, n + c + 2), Ends(d, b, n + 1 + c),
         Beside(b, a, n + 1, y, c), Ends(a, x, n)
  PROVE  /\ \A i \in 1 .. 3 : w[i] = h[i]
         /\ \A i \in 1 .. n : w[3 + i] = x[i]
         /\ w[4 + n] = NUL
         /\ \A i \in 1 .. c : w[4 + n + i] = y[i]
         /\ w[5 + n + c] = NUL
<1> USE DEF Beside, Ends
<1>1. ASSUME NEW i \in 1 .. n PROVE w[3 + i] = x[i]
  <2>1. i \in 1 .. n + c + 2 /\ i \in 1 .. n + 1 + c /\ i \in 1 .. n + 1
    OBVIOUS
  <2> QED
    BY <2>1
<1>2. w[4 + n] = NUL
  <2>1. /\ n + 1 \in 1 .. n + c + 2 /\ n + 1 \in 1 .. n + 1 + c /\ n + 1 \in 1 .. n + 1
        /\ 4 + n = 3 + (n + 1)
    OBVIOUS
  <2> QED
    BY <2>1
<1>3. ASSUME NEW i \in 1 .. c PROVE w[4 + n + i] = y[i]
  <2>1. /\ n + 1 + i \in 1 .. n + c + 2 /\ n + 1 + i \in 1 .. n + 1 + c
        /\ 4 + n + i = 3 + (n + 1 + i)
    OBVIOUS
  <2> QED
    BY <2>1
<1>4. w[5 + n + c] = NUL
  <2>1. /\ n + c + 2 \in 1 .. n + c + 2 /\ n + c + 2 = n + 1 + c + 1
        /\ 5 + n + c = 3 + (n + c + 2)
    OBVIOUS
  <2> QED
    BY <2>1
<1> QED
  BY <1>1, <1>2, <1>3, <1>4

(* The offsets of the parts of a REPLY. *)
LEMMA ReplyOffsets ==
  ASSUME NEW c \in Nat,
         NEW w, NEW h, NEW d, NEW b, NEW r, NEW y,
         Beside(w, h, 3, d, c + 4), Ends(d, b, 3 + c), Beside(b, r, 3, y, c)
  PROVE  /\ \A i \in 1 .. 3 : w[i] = h[i]
         /\ w[4] = r[1]
         /\ \A i \in 1 .. c : w[6 + i] = y[i]
         /\ w[7 + c] = NUL
<1> USE DEF Beside, Ends
<1>1. w[4] = r[1]
  <2>1. 1 \in 1 .. c + 4 /\ 1 \in 1 .. 3 + c /\ 1 \in 1 .. 3 /\ 4 = 3 + 1
    OBVIOUS
  <2> QED
    BY <2>1
<1>2. ASSUME NEW i \in 1 .. c PROVE w[6 + i] = y[i]
  <2>1. 3 + i \in 1 .. c + 4 /\ 3 + i \in 1 .. 3 + c /\ 6 + i = 3 + (3 + i)
    OBVIOUS
  <2> QED
    BY <2>1
<1>3. w[7 + c] = NUL
  <2>1. c + 4 \in 1 .. c + 4 /\ c + 4 = 3 + c + 1 /\ 7 + c = 3 + (c + 4)
    OBVIOUS
  <2> QED
    BY <2>1
<1> QED
  BY <1>1, <1>2, <1>3

(* A header, a first part, a text and its NUL. *)
LEMMA Layout ==
  ASSUME NEW h \in Seq(Byte), NEW a \in Seq(Byte), NEW y \in Seq(Byte)
  PROVE  LET b == a \o y
             d == b \o <<NUL>>
             w == h \o d
         IN  /\ w \in Seq(Byte) /\ Len(d) = Len(b) + 1 /\ Len(b) = Len(a) + Len(y)
             /\ Len(w) = Len(h) + Len(d)
             /\ Beside(w, h, Len(h), d, Len(d)) /\ Ends(d, b, Len(b))
             /\ Beside(b, a, Len(a), y, Len(y))
<1> DEFINE b == a \o y
           d == b \o <<NUL>>
           w == h \o d
<1>1. b \in Seq(Byte) /\ Len(b) = Len(a) + Len(y) /\ Beside(b, a, Len(a), y, Len(y))
  BY Glue DEF Beside
<1> HIDE DEF b
<1>2. d \in Seq(Byte) /\ Len(d) = Len(b) + 1 /\ Ends(d, b, Len(b))
  BY <1>1, TextBytes DEF Ends
<1> HIDE DEF d
<1>3. d \in Seq(Byte)
  BY <1>2
<1>4. /\ w \in Seq(Byte) /\ Len(w) = Len(h) + Len(d)
      /\ Beside(w, h, Len(h), d, Len(d))
  BY <1>3, Glue DEF Beside
<1> HIDE DEF w
<1> QED
  BY <1>1, <1>2, <1>4 DEF w, d, b

(* The layout of a MSG or ERR, byte by byte. *)
LEMMA WireOfText ==
  ASSUME NEW m \in ServerMessages, m.type \in Texts
  PROVE  /\ Wire(m) \in Seq(Byte) /\ Len(Wire(m)) = Len(m.name) + Len(m.contents) + 5
         /\ \A i \in 1 .. 3 : Wire(m)[i] = Header3(m)[i]
         /\ \A i \in 1 .. Len(m.name) : Wire(m)[3 + i] = m.name[i]
         /\ Wire(m)[4 + Len(m.name)] = NUL
         /\ \A i \in 1 .. Len(m.contents) : Wire(m)[4 + Len(m.name) + i] = m.contents[i]
         /\ Wire(m)[5 + Len(m.name) + Len(m.contents)] = NUL
<1> DEFINE h == Header3(m)
           x == m.name
           y == m.contents
           a == x \o <<NUL>>
           b == a \o y
           d == b \o <<NUL>>
           w == Wire(m)
           n == Len(x)
           c == Len(y)
<1>1. w = h \o d
  BY DEF Wire, Texts
<1>2. h \in Seq(Byte) /\ x \in Seq(Byte) /\ y \in Seq(Byte)
  BY HeaderBytes, MessageParts
<1>3. a \in Seq(Byte)
  BY <1>2, TextBytes
<1>4. Len(a) = n + 1 /\ Ends(a, x, n)
  BY <1>2, TextBytes DEF Ends
<1>5. w \in Seq(Byte)
  BY <1>1, <1>2, <1>3, Layout
<1>6. /\ Len(d) = Len(b) + 1 /\ Len(b) = Len(a) + c /\ Len(w) = Len(h) + Len(d)
      /\ Beside(w, h, Len(h), d, Len(d)) /\ Ends(d, b, Len(b))
      /\ Beside(b, a, Len(a), y, c)
  <2>1. h \in Seq(Byte) /\ a \in Seq(Byte) /\ y \in Seq(Byte)
    BY <1>2, <1>3
  <2> HIDE DEF h, a, y, w
  <2>2. /\ Len(d) = Len(b) + 1 /\ Len(b) = Len(a) + c /\ Len(h \o d) = Len(h) + Len(d)
        /\ Beside(h \o d, h, Len(h), d, Len(d)) /\ Ends(d, b, Len(b))
        /\ Beside(b, a, Len(a), y, c)
    BY <2>1, Layout, ZenonT(40)
  <2> HIDE DEF b, d
  <2> QED
    BY <1>1, <2>2
<1>7. n \in Nat /\ c \in Nat
  BY MessageParts
<1>8. Len(h) = 3
  BY HeaderBytes
<1> HIDE DEF h, x, y, a, b, d, w, n, c
<1>9. Len(a) = n + 1 /\ Len(b) = n + 1 + c /\ Len(d) = n + c + 2 /\ Len(w) = n + c + 5
  BY <1>4, <1>6, <1>7, <1>8
<1>10. /\ Beside(w, h, 3, d, n + c + 2) /\ Ends(d, b, n + 1 + c)
       /\ Beside(b, a, n + 1, y, c) /\ Ends(a, x, n)
  BY <1>4, <1>6, <1>8, <1>9
<1>11. /\ \A i \in 1 .. 3 : w[i] = h[i]
       /\ \A i \in 1 .. n : w[3 + i] = x[i]
       /\ w[4 + n] = NUL
       /\ \A i \in 1 .. c : w[4 + n + i] = y[i]
       /\ w[5 + n + c] = NUL
  BY <1>7, <1>10, TextOffsets
<1> QED
  BY <1>5, <1>9, <1>11 DEF w, h, x, y, n, c

(* The layout of a REPLY. *)
LEMMA WireOfReply ==
  ASSUME NEW m \in ServerMessages, m.type = "REPLY"
  PROVE  /\ Wire(m) \in Seq(Byte) /\ Len(Wire(m)) = Len(m.contents) + 7
         /\ \A i \in 1 .. 3 : Wire(m)[i] = Header3(m)[i]
         /\ Wire(m)[4] = m.result
         /\ \A i \in 1 .. Len(m.contents) : Wire(m)[6 + i] = m.contents[i]
         /\ Wire(m)[7 + Len(m.contents)] = NUL
<1> DEFINE h == Header3(m)
           y == m.contents
           a == <<m.result, m.ref \div 256, m.ref % 256>>
           b == a \o y
           d == b \o <<NUL>>
           w == Wire(m)
           c == Len(y)
<1>1. w = h \o d
  BY DEF Wire
<1>2. h \in Seq(Byte) /\ y \in Seq(Byte)
  BY HeaderBytes, MessageParts
<1>3. m.result \in Byte /\ m.ref \div 256 \in Byte /\ m.ref % 256 \in Byte
  BY MessageParts, TwoBytes
<1>4. a \in Seq(Byte) /\ Len(a) = 3 /\ a[1] = m.result
  BY <1>3
<1>5. w \in Seq(Byte)
  BY <1>1, <1>2, <1>4, Layout
<1>6. /\ Len(d) = Len(b) + 1 /\ Len(b) = Len(a) + c /\ Len(w) = Len(h) + Len(d)
      /\ Beside(w, h, Len(h), d, Len(d)) /\ Ends(d, b, Len(b))
      /\ Beside(b, a, Len(a), y, c)
  <2>1. h \in Seq(Byte) /\ a \in Seq(Byte) /\ y \in Seq(Byte)
    BY <1>2, <1>4
  <2> HIDE DEF h, a, y, w
  <2>2. /\ Len(d) = Len(b) + 1 /\ Len(b) = Len(a) + c /\ Len(h \o d) = Len(h) + Len(d)
        /\ Beside(h \o d, h, Len(h), d, Len(d)) /\ Ends(d, b, Len(b))
        /\ Beside(b, a, Len(a), y, c)
    BY <2>1, Layout, ZenonT(40)
  <2> HIDE DEF b, d
  <2> QED
    BY <1>1, <2>2
<1>7. c \in Nat
  BY MessageParts
<1>8. Len(h) = 3
  BY HeaderBytes
<1>9. Len(a) = 3 /\ a[1] = m.result
  BY <1>4
<1> HIDE DEF h, y, a, b, d, w, c
<1>10. Len(b) = 3 + c /\ Len(d) = c + 4 /\ Len(w) = c + 7
  BY <1>6, <1>7, <1>8, <1>9
<1>11. Beside(w, h, 3, d, c + 4) /\ Ends(d, b, 3 + c) /\ Beside(b, a, 3, y, c)
  BY <1>6, <1>8, <1>9, <1>10
<1>12. /\ \A i \in 1 .. 3 : w[i] = h[i]
       /\ w[4] = a[1]
       /\ \A i \in 1 .. c : w[6 + i] = y[i]
       /\ w[7 + c] = NUL
  BY <1>7, <1>11, ReplyOffsets
<1> QED
  BY <1>5, <1>9, <1>10, <1>12 DEF w, h, y, c

(* Every datagram begins with its type and its ID. *)
LEMMA WireOfAny ==
  ASSUME NEW m \in ServerMessages
  PROVE  /\ Wire(m) \in Seq(Byte) /\ Len(Wire(m)) \in Nat /\ Len(Wire(m)) >= 3
         /\ \A i \in 1 .. 3 : Wire(m)[i] = Header3(m)[i]
<1> DEFINE h == Header3(m)
           w == Wire(m)
           x == m.name
           n == Len(m.name)
           c == Len(m.contents)
<1>1. h \in Seq(Byte) /\ x \in Seq(Byte)
  BY HeaderBytes, MessageParts
<1>2. Len(h) = 3
  BY HeaderBytes
<1>3. n \in Nat /\ c \in Nat
  BY MessageParts
<1>4. CASE m.type \in Texts
  <2>1. w \in Seq(Byte) /\ \A i \in 1 .. 3 : w[i] = h[i]
    BY <1>4, WireOfText
  <2>2. Len(w) = n + c + 5
    BY <1>4, WireOfText
  <2> HIDE DEF h, w, n, c
  <2>3. Len(w) \in Nat /\ Len(w) >= 3
    BY <1>3, <2>2
  <2> QED
    BY <2>1, <2>3 DEF h, w
<1>5. CASE m.type = "REPLY"
  <2>1. w \in Seq(Byte) /\ \A i \in 1 .. 3 : w[i] = h[i]
    BY <1>5, WireOfReply
  <2>2. Len(w) = c + 7
    BY <1>5, WireOfReply
  <2> HIDE DEF h, w, n, c
  <2>3. Len(w) \in Nat /\ Len(w) >= 3
    BY <1>3, <2>2
  <2> QED
    BY <2>1, <2>3 DEF h, w
<1>6. CASE m.type = "BYE"
  <2> DEFINE d == x \o <<NUL>>
  <2>1. w = h \o d
    BY <1>6 DEF Wire
  <2>2. d \in Seq(Byte)
    BY <1>1, TextBytes
  <2>3. Len(d) = n + 1
    BY <1>1, TextBytes
  <2> HIDE DEF d
  <2>4. w \in Seq(Byte)
    BY <1>1, <2>1, <2>2, Glue
  <2>5. Len(w) = Len(h) + Len(d) /\ \A i \in 1 .. Len(h) : w[i] = h[i]
    BY <1>1, <2>1, <2>2, Glue
  <2> HIDE DEF h, w, n, c
  <2>6. Len(w) \in Nat /\ Len(w) >= 3 /\ \A i \in 1 .. 3 : w[i] = h[i]
    BY <1>2, <1>3, <2>3, <2>5
  <2> QED
    BY <2>4, <2>6 DEF h, w
<1>7. CASE m.type \notin Texts \cup {"REPLY", "BYE"}
  <2>1. w = h \o <<>>
    BY <1>7 DEF Wire, Texts
  <2>2. w = h
    BY <1>1, <2>1, ConcatEmptySeq
  <2> HIDE DEF h, w
  <2>3. Len(w) \in Nat /\ Len(w) >= 3
    BY <1>2, <2>2
  <2> QED
    BY <1>1, <2>2, <2>3 DEF h, w
<1> QED
  BY <1>4, <1>5, <1>6, <1>7

-----------------------------------------------------------------------------
(* How much of a datagram recvfrom keeps. *)
Kept(m) == IF Len(Wire(m)) < Room THEN Len(Wire(m)) ELSE Room

(* The buffer holds m's datagram, up to its size, and a NUL. *)
InBuffer(m) ==
    /\ numbytes = Kept(m)
    /\ \A o \in 0 .. Kept(m) - 1 : recv_buffer[o] = Wire(m)[o + 1]
    /\ recv_buffer[Kept(m)] = NUL

BufferType ==
    /\ recv_buffer \in [Offsets -> Byte]
    /\ numbytes \in Offsets

LEMMA KeptBounds ==
  ASSUME NEW m \in ServerMessages
  PROVE  Kept(m) \in Nat /\ 3 <= Kept(m) /\ Kept(m) <= Room /\ Kept(m) <= Len(Wire(m))
<1> DEFINE l == Len(Wire(m))
<1>1. l \in Nat /\ l >= 3
  BY WireOfAny
<1>2. Room \in Nat /\ Room >= 3
  BY Sizes
<1> HIDE DEF l
<1> QED
  BY <1>1, <1>2 DEF Kept, l

(* recvfrom fills the buffer with what it keeps of the datagram. *)
LEMMA RecvFills ==
  ASSUME NEW m \in ServerMessages, BufferType, Recv(m)
  PROVE  BufferType' /\ InBuffer(m)'
<1> DEFINE w == Wire(m)
           k == Kept(m)
           d == strncpy(w, Room)
<1>1. w \in Seq(Byte)
  BY WireOfAny
<1>2. Len(w) \in Nat
  BY WireOfAny
<1>3. k \in Nat /\ 3 <= k /\ k <= Room /\ k <= Len(w)
  BY KeptBounds
<1>4. d = SubSeq(w, 1, k)
  BY DEF strncpy, Kept
<1>5. Room \in Nat /\ MAX_MSG_SIZE = Room + 1 /\ Offsets = 0 .. Room
  BY Sizes DEF Offsets
<1> HIDE DEF w, k, d
<1>6. Len(d) = k /\ \A i \in 1 .. k : d[i] = w[i]
  <2>1. 1 \in 1 .. Len(w) + 1 /\ k \in 0 .. Len(w) /\ k - 1 + 1 = k /\ 1 <= k + 1
    BY <1>2, <1>3
  <2>2. /\ Len(SubSeq(w, 1, k)) = IF 1 <= k THEN k - 1 + 1 ELSE 0
        /\ \A i \in 1 .. k - 1 + 1 : SubSeq(w, 1, k)[i] = w[1 + i - 1]
    BY <1>1, <1>3, <2>1, SubSeqProperties
  <2> QED
    BY <1>3, <1>4, <2>2
<1>7. \A i \in 1 .. k : w[i] \in Byte
  <2>1. \A i \in 1 .. Len(w) : w[i] \in Byte
    BY <1>1, ElementOfSeq
  <2> QED
    BY <1>2, <1>3, <2>1
<1>8. recv_buffer' = [o \in Offsets |-> IF o < k THEN d[o + 1]
                                        ELSE IF o = k THEN NUL ELSE recv_buffer[o]]
  BY <1>6 DEF Recv, Fill, d, w
<1>9. numbytes' = k
  BY <1>6 DEF Recv, d, w
<1>10. \A o \in 0 .. k - 1 : o \in Offsets /\ o < k /\ o + 1 \in 1 .. k
  BY <1>3, <1>5
<1>11. \A o \in 0 .. k - 1 : recv_buffer'[o] = w[o + 1]
  BY <1>6, <1>8, <1>10
<1>12. k \in Offsets /\ ~(k < k)
  BY <1>3, <1>5
<1>13. recv_buffer'[k] = NUL
  BY <1>8, <1>12
<1>14. InBuffer(m)'
  BY <1>9, <1>11, <1>13 DEF InBuffer, k, w
<1>15. recv_buffer' \in [Offsets -> Byte]
  <2>1. NUL \in Byte
    BY DEF NUL, Byte
  <2>2. \A o \in Offsets : o < k => o + 1 \in 1 .. k
    BY <1>3, <1>5
  <2>3. \A o \in Offsets : recv_buffer[o] \in Byte
    BY DEF BufferType
  <2> QED
    BY <1>6, <1>7, <1>8, <2>1, <2>2, <2>3
<1> QED
  BY <1>9, <1>12, <1>14, <1>15 DEF BufferType

(* What a datagram begins with is what the listener reads first. *)
LEMMA HeaderRead ==
  ASSUME NEW m \in ServerMessages, InBuffer(m)
  PROVE  recv_buffer[0] = MSG_TYPE_VAL[m.type] /\ ntohs(recv_buffer, 1) = m.id
<1>1. \A o \in 0 .. Kept(m) - 1 : recv_buffer[o] = Wire(m)[o + 1]
  BY DEF InBuffer
<1>2. 0 \in 0 .. Kept(m) - 1 /\ 1 \in 0 .. Kept(m) - 1 /\ 2 \in 0 .. Kept(m) - 1
  BY KeptBounds
<1>3. /\ recv_buffer[0] = Wire(m)[1] /\ recv_buffer[1] = Wire(m)[2]
      /\ recv_buffer[2] = Wire(m)[3]
  BY <1>1, <1>2
<1>4. /\ Wire(m)[1] = Header3(m)[1] /\ Wire(m)[2] = Header3(m)[2]
      /\ Wire(m)[3] = Header3(m)[3]
  BY WireOfAny
<1>5. /\ Header3(m)[1] = MSG_TYPE_VAL[m.type] /\ Header3(m)[2] = m.id \div 256
      /\ Header3(m)[3] = m.id % 256
  BY DEF Header3
<1>6. 256 * (m.id \div 256) + (m.id % 256) = m.id
  BY MessageParts, TwoBytes
<1>7. ntohs(recv_buffer, 1) = 256 * recv_buffer[1] + recv_buffer[2]
  BY DEF ntohs
<1> QED
  BY <1>3, <1>4, <1>5, <1>6, <1>7

LEMMA TypeRead ==
  ASSUME NEW m \in ServerMessages, InBuffer(m), NEW type \in Types,
         recv_buffer[0] = MSG_TYPE_VAL[type]
  PROVE  m.type = type
<1>1. MSG_TYPE_VAL[m.type] = MSG_TYPE_VAL[type] /\ m.type \in Types
  BY HeaderRead, MessageParts
<1> QED
  BY <1>1, TypeValues

-----------------------------------------------------------------------------
(* The datagrams that go back. *)
LEMMA ConfirmBytes ==
  ASSUME NEW id \in Uint16
  PROVE  LET d == serialize_confirm_msg(id)
         IN  /\ Len(d) = 3 /\ \A k \in 1 .. Len(d) : d[k] \in Byte
             /\ d[1] = 0 /\ 256 * d[2] + d[3] = id
<1> DEFINE d == serialize_confirm_msg(id)
           hi == id \div 256
           lo == id % 256
<1>1. d = <<0>> \o <<hi, lo>>
  BY DEF serialize_confirm_msg, Header, htons, MSG_TYPE_VAL
<1>2. hi \in Byte /\ lo \in Byte /\ 256 * hi + lo = id
  BY TwoBytes
<1>3. 0 \in Byte
  BY DEF Byte
<1> HIDE DEF hi, lo, d
<1>4. Len(d) = 3 /\ d[1] = 0 /\ d[2] = hi /\ d[3] = lo
  BY <1>1
<1>5. \A k \in 1 .. 3 : d[k] \in Byte
  <2>1. \A k \in 1 .. 3 : k = 1 \/ k = 2 \/ k = 3
    OBVIOUS
  <2> QED
    BY <1>2, <1>3, <1>4, <2>1
<1> QED
  BY <1>2, <1>4, <1>5 DEF d

(* The client's own ERR fits its buffer. *)
LEMMA ErrBytes ==
  LET d == serialize_err_msg(OWN_ID, OWN_NAME, err_string)
  IN  /\ Len(d) <= MAX_MSG_SIZE /\ \A k \in 1 .. Len(d) : d[k] \in Byte
      /\ d[1] = 254
<1> DEFINE hi == OWN_ID \div 256
           lo == OWN_ID % 256
           h == <<254>> \o <<hi, lo>>
           x == Append(OWN_NAME, NUL)
           y == Append(err_string, NUL)
           g == h \o x
           d == g \o y
<1>1. serialize_err_msg(OWN_ID, OWN_NAME, err_string) = d
  BY DEF serialize_err_msg, Header, htons, Terminated, MSG_TYPE_VAL
<1>2. hi \in Byte /\ lo \in Byte /\ 254 \in Byte /\ NUL \in Byte
  BY TwoBytes, ReceiveAssumption DEF Byte, NUL
<1> HIDE DEF hi, lo
<1>3. h \in Seq(Byte) /\ Len(h) = 3 /\ h[1] = 254
  BY <1>2
<1>4. x \in Seq(Byte) /\ y \in Seq(Byte)
  BY <1>2, ReceiveAssumption, TextIsBytes, AppendProperties
<1>5. Len(x) = Len(OWN_NAME) + 1 /\ Len(y) = Len(err_string) + 1
  BY ReceiveAssumption, AppendProperties
<1> HIDE DEF h, x, y
<1>6. g \in Seq(Byte) /\ Len(g) = Len(h) + Len(x) /\ \A i \in 1 .. Len(h) : g[i] = h[i]
  <2>1. h \in Seq(Byte) /\ x \in Seq(Byte)
    BY <1>3, <1>4
  <2> QED
    BY <2>1, Glue
<1> HIDE DEF g
<1>7. d \in Seq(Byte) /\ Len(d) = Len(g) + Len(y) /\ \A i \in 1 .. Len(g) : d[i] = g[i]
  BY <1>4, <1>6, Glue
<1> HIDE DEF d
<1>8. Len(OWN_NAME) \in Nat /\ Len(err_string) \in Nat
  BY ReceiveAssumption, LenProperties
<1>9. Len(OWN_NAME) + Len(err_string) <= MAX_MESSAGE_CONTENT_LEN
  BY ReceiveAssumption
<1>10. MAX_MSG_SIZE = MAX_MESSAGE_CONTENT_LEN + 7 /\ MAX_MESSAGE_CONTENT_LEN \in Nat
  BY Sizes
<1>11. Len(h) = 3 /\ Len(g) = Len(h) + Len(x) /\ Len(d) = Len(g) + Len(y)
  BY <1>3, <1>6, <1>7
<1>12. Len(d) <= MAX_MSG_SIZE
  <2> DEFINE p == Len(OWN_NAME)
             q == Len(err_string)
  <2> HIDE DEF p, q
  <2>1. Len(d) = 3 + (p + 1) + (q + 1) /\ p \in Nat /\ q \in Nat
    BY <1>5, <1>8, <1>11 DEF p, q
  <2>2. p + q <= MAX_MESSAGE_CONTENT_LEN
    BY <1>9 DEF p, q
  <2> QED
    BY <1>10, <2>1, <2>2
<1>13. d[1] = 254
  <2>1. 1 \in 1 .. Len(h) /\ 1 \in 1 .. Len(g)
    BY <1>5, <1>8, <1>11
  <2> QED
    BY <1>3, <1>6, <1>7, <2>1
<1>14. \A k \in 1 .. Len(d) : d[k] \in Byte
  BY <1>7, ElementOfSeq
<1> QED
  BY <1>1, <1>12, <1>13, <1>14

(* A CONFIRM adds its ID to what the server was told; an ERR adds nothing. *)
LEMMA ConfirmAdds ==
  ASSUME NEW id \in Uint16, NEW others,
         toServer' = toServer \cup {serialize_confirm_msg(id)} \cup others,
         \A e \in others : e[1] # 0
  PROVE  Confirmed' = Confirmed \cup {id}
<1> DEFINE d == serialize_confirm_msg(id)
           Read(e) == 256 * e[2] + e[3]
<1>1. d[1] = 0 /\ Read(d) = id
  BY ConfirmBytes
<1> HIDE DEF d, Read
<1>2. {e \in toServer' : e[1] = 0} = {e \in toServer : e[1] = 0} \cup {d}
  BY <1>1 DEF d
<1>3. /\ Confirmed' = {Read(e) : e \in {f \in toServer' : f[1] = 0}}
      /\ Confirmed = {Read(e) : e \in {f \in toServer : f[1] = 0}}
  BY DEF Confirmed, Read
<1> QED
  BY <1>1, <1>2, <1>3

-----------------------------------------------------------------------------
(* What is printed is what the list of seen IDs holds. *)
ShownIsListed == \A id \in Ids : Chat!WasShown(id) <=> id \in Known

DatagramsFit ==
    \A d \in toServer : Len(d) <= MAX_MSG_SIZE /\ \A k \in 1 .. Len(d) : d[k] \in Byte

ReceiveInv ==
    /\ Inv
    /\ state \in {"START", "AUTH", "OPEN", "JOIN"}
    /\ sent \subseteq ServerMessages
    /\ BufferType
    /\ shown \in Seq(Ids)
    /\ DatagramsFit
    /\ pc \in {"recv", "process", "ended", "crashed"}
    /\ pc = "process" => \E m \in sent : InBuffer(m)
    /\ ShownIsListed

(* Printing an ID adds it to those that were shown. *)
LEMMA AppendShows ==
  ASSUME shown \in Seq(Ids), NEW id \in Ids, shown' = Append(shown, id)
  PROVE  /\ shown' \in Seq(Ids)
         /\ \A other : Chat!WasShown(other)' <=> Chat!WasShown(other) \/ other = id
<1>1. /\ Append(shown, id) \in Seq(Ids) /\ Len(Append(shown, id)) = Len(shown) + 1
      /\ \A i \in 1 .. Len(shown) : Append(shown, id)[i] = shown[i]
      /\ Append(shown, id)[Len(shown) + 1] = id
  BY AppendProperties
<1>2. Len(shown) \in Nat
  BY LenProperties
<1>3. 1 .. Len(shown) + 1 = (1 .. Len(shown)) \cup {Len(shown) + 1}
  BY <1>2
<1> QED
  BY <1>1, <1>3 DEF Chat!WasShown

(* A message that may be printed: the list answers, and the screen follows. *)
LEMMA ShowStep ==
  ASSUME ReceiveInv, NEW m \in ServerMessages, NEW type, NEW r, r.message_id = m.id,
         ShowOnce(type, r)
  PROVE  /\ Inv' /\ Set!Ask(m.id) /\ shown' \in Seq(Ids) /\ ShownIsListed'
         /\ Chat!WasShown(m.id) => shown' = shown
         /\ ~Chat!WasShown(m.id) => shown' = Append(shown, m.id)
<1>1. m.id \in Ids
  BY MessageParts
<1>2. is_message_duplicate(m.id)
  BY DEF ShowOnce
<1>3. Inv' /\ Set!Ask(m.id)
  BY <1>1, <1>2, CallStep DEF ReceiveInv
<1>4. /\ Known' = Known \cup {m.id}
      /\ answer' = "duplicate" <=> m.id \in Known
  BY <1>3 DEF Set!Ask
<1>5. Chat!WasShown(m.id) <=> m.id \in Known
  BY <1>1 DEF ReceiveInv, ShownIsListed
<1>6. CASE m.id \in Known
  <2>1. shown' = shown /\ Known' = Known
    BY <1>4, <1>6 DEF ShowOnce
  <2>2. ShownIsListed'
    BY <2>1 DEF ReceiveInv, ShownIsListed, Chat!WasShown
  <2> QED
    BY <1>3, <1>5, <1>6, <2>1, <2>2 DEF ReceiveInv
<1>7. CASE m.id \notin Known
  <2>1. shown' = Append(shown, m.id)
    BY <1>4, <1>7 DEF ShowOnce
  <2>2. /\ shown' \in Seq(Ids)
        /\ \A other : Chat!WasShown(other)' <=> Chat!WasShown(other) \/ other = m.id
    BY <1>1, <2>1, AppendShows DEF ReceiveInv
  <2>3. ShownIsListed'
    BY <1>4, <2>2 DEF ReceiveInv, ShownIsListed
  <2> QED
    BY <1>3, <1>5, <1>7, <2>1, <2>2, <2>3
<1> QED
  BY <1>6, <1>7

-----------------------------------------------------------------------------
(* What a step does to the message list, to the screen and to the server.   *)
Step == ReceiveInv' /\ [Set!Next]_<<Known, answer>> /\ [Chat!Next]_(Chat!vars)

States == {"START", "AUTH", "OPEN", "JOIN"}

LEMMA InvKept ==
  ASSUME ReceiveInv, UNCHANGED vars
  PROVE  Inv' /\ UNCHANGED <<Known, answer>>
  BY DEF ReceiveInv, Inv, TypeOK, EntriesDistinct, Known, vars, table

(* A datagram arrives. *)
LEMMA RecvStep ==
  ASSUME ReceiveInv, NEW m \in ServerMessages, Recv(m)
  PROVE  Step
<1>1. UNCHANGED <<vars, state, output>> /\ sent' = sent \cup {m} /\ pc' = "process"
  BY DEF Recv
<1>2. Inv' /\ UNCHANGED <<Known, answer>>
  BY <1>1, InvKept
<1>3. BufferType' /\ InBuffer(m)'
  BY RecvFills DEF ReceiveInv
<1>4. \E n \in sent' : InBuffer(n)'
  BY <1>1, <1>3
<1>5. UNCHANGED <<shown, toServer, Confirmed>>
  BY <1>1 DEF output, Confirmed
<1>6. DatagramsFit' /\ ShownIsListed'
  BY <1>2, <1>5 DEF ReceiveInv, DatagramsFit, ShownIsListed, Chat!WasShown
<1>7. ReceiveInv'
  BY <1>1, <1>2, <1>3, <1>4, <1>5, <1>6 DEF ReceiveInv
<1>8. Chat!Send(m)
  BY <1>1, <1>5 DEF Chat!Send
<1> QED
  BY <1>2, <1>7, <1>8 DEF Step, Chat!Next

(* Nothing is answered and nothing of a chat message is printed. *)
LEMMA QuietStep ==
  ASSUME ReceiveInv, UNCHANGED <<vars, sent, receiver, shown, toServer>>,
         state' \in States, pc' \in {"recv", "ended", "crashed"} \/ pc' = pc
  PROVE  Step
<1>1. Inv' /\ UNCHANGED <<Known, answer>>
  BY InvKept
<1>2. UNCHANGED <<sent, recv_buffer, numbytes, shown, toServer, Confirmed>>
  BY DEF receiver, Confirmed
<1>3. DatagramsFit' /\ ShownIsListed' /\ BufferType'
  BY <1>1, <1>2 DEF ReceiveInv, DatagramsFit, ShownIsListed, Chat!WasShown, BufferType
<1>4. pc' = "process" => \E m \in sent' : InBuffer(m)'
  BY <1>2 DEF ReceiveInv, InBuffer
<1>5. ReceiveInv'
  BY <1>1, <1>2, <1>3, <1>4 DEF ReceiveInv, States
<1> QED
  BY <1>1, <1>2, <1>5 DEF Step, Chat!vars

(* A message that is not printed as a chat message is confirmed. *)
LEMMA ConfirmStep ==
  ASSUME ReceiveInv, NEW m \in sent, m.type \notin Texts,
         NEW others, \A e \in others : e[1] # 0 /\ Len(e) <= MAX_MSG_SIZE
                                       /\ \A k \in 1 .. Len(e) : e[k] \in Byte,
         toServer' = toServer \cup {serialize_confirm_msg(m.id)} \cup others,
         UNCHANGED <<vars, sent, receiver, shown>>,
         state' \in States, pc' \in {"recv", "ended"}
  PROVE  Step
<1>1. Inv' /\ UNCHANGED <<Known, answer>>
  BY InvKept
<1>2. UNCHANGED <<sent, recv_buffer, numbytes, shown>>
  BY DEF receiver
<1>3. m \in ServerMessages /\ m.id \in Uint16
  BY MessageParts DEF ReceiveInv
<1>4. Confirmed' = Confirmed \cup {m.id}
  BY <1>3, ConfirmAdds
<1>5. /\ Len(serialize_confirm_msg(m.id)) <= MAX_MSG_SIZE
      /\ \A k \in 1 .. Len(serialize_confirm_msg(m.id)) :
           serialize_confirm_msg(m.id)[k] \in Byte
  <2>1. 3 <= MAX_MSG_SIZE
    BY Sizes
  <2> QED
    BY <1>3, <2>1, ConfirmBytes
<1>6. DatagramsFit'
  BY <1>5 DEF ReceiveInv, DatagramsFit
<1>7. ShownIsListed' /\ BufferType'
  BY <1>1, <1>2 DEF ReceiveInv, ShownIsListed, Chat!WasShown, BufferType
<1>8. ReceiveInv'
  BY <1>1, <1>2, <1>6, <1>7 DEF ReceiveInv, States
<1>9. Chat!Confirm(m)
  BY <1>2, <1>4 DEF Chat!Confirm, Chat!Chat, Texts
<1> QED
  BY <1>1, <1>3, <1>8, <1>9 DEF Step, Chat!Next

(* A chat message is printed unless it was, and confirmed in either case. *)
LEMMA TextStep ==
  ASSUME ReceiveInv, NEW m \in sent, m.type \in Texts,
         NEW type, NEW r, r.message_id = m.id,
         ShowOnce(type, r), SendConfirm(r.message_id),
         UNCHANGED <<state, sent, receiver>>, pc' \in {"recv", "ended"}
  PROVE  Step
<1>1. m \in ServerMessages /\ m.id \in Uint16 /\ m.id \in Ids
  BY MessageParts DEF ReceiveInv
<1>2. /\ Inv' /\ Set!Ask(m.id) /\ shown' \in Seq(Ids) /\ ShownIsListed'
      /\ Chat!WasShown(m.id) => shown' = shown
      /\ ~Chat!WasShown(m.id) => shown' = Append(shown, m.id)
  BY <1>1, ShowStep
<1>3. UNCHANGED <<sent, recv_buffer, numbytes>>
  BY DEF receiver
<1>4. toServer' = toServer \cup {serialize_confirm_msg(m.id)}
  BY DEF SendConfirm
<1>5. Confirmed' = Confirmed \cup {m.id}
  <2> DEFINE none == {}
  <2>1. toServer' = toServer \cup {serialize_confirm_msg(m.id)} \cup none
    BY <1>4
  <2>2. \A e \in none : e[1] # 0
    OBVIOUS
  <2> HIDE DEF none
  <2> QED
    BY <1>1, <2>1, <2>2, ConfirmAdds
<1>6. DatagramsFit'
  <2>1. /\ Len(serialize_confirm_msg(m.id)) <= MAX_MSG_SIZE
        /\ \A k \in 1 .. Len(serialize_confirm_msg(m.id)) :
             serialize_confirm_msg(m.id)[k] \in Byte
    <3>1. 3 <= MAX_MSG_SIZE
      BY Sizes
    <3> QED
      BY <1>1, <3>1, ConfirmBytes
  <2> QED
    BY <1>4, <2>1 DEF ReceiveInv, DatagramsFit
<1>7. ReceiveInv'
  BY <1>2, <1>3, <1>6 DEF ReceiveInv, BufferType
<1>8. Chat!Show(m) \/ Chat!Confirm(m)
  BY <1>2, <1>3, <1>5 DEF Chat!Show, Chat!Confirm, Chat!Chat, Texts
<1> QED
  BY <1>1, <1>2, <1>7, <1>8 DEF Step, Chat!Next, Set!Next

(* The message that is being handled. *)
LEMMA Handled ==
  ASSUME ReceiveInv, pc = "process"
  PROVE  \E m \in sent :
           /\ m \in ServerMessages /\ InBuffer(m)
           /\ ntohs(recv_buffer, 1) = m.id
           /\ \A type \in Types : Is(type) <=> m.type = type
<1>1. PICK m \in sent : InBuffer(m)
  BY DEF ReceiveInv
<1>2. m \in ServerMessages
  BY DEF ReceiveInv
<1>3. \A type \in Types : Is(type) <=> m.type = type
  BY <1>1, <1>2, HeaderRead, TypeRead DEF Is
<1> QED
  BY <1>1, <1>2, <1>3, HeaderRead

LEMMA ListenerStep ==
  ASSUME ReceiveInv, Listener
  PROVE  Step
<1>1. pc = "process"
  BY DEF Listener, ProcessMsg, ProcessMsgAtStart, ProcessErr, ProcessPing, ProcessBye,
         ProcessConfirm, ProcessReplyAtStart, ProcessReply, Crash, ProcessMalformed, Whole, Is
<1>2. PICK m \in sent :
           /\ m \in ServerMessages /\ InBuffer(m)
           /\ ntohs(recv_buffer, 1) = m.id
           /\ \A type \in Types : Is(type) <=> m.type = type
  BY <1>1, Handled
<1>3. state \in States
  BY DEF ReceiveInv, States
<1> DEFINE none == {}
<1>4. /\ \A e \in none : e[1] # 0 /\ Len(e) <= MAX_MSG_SIZE
                         /\ \A k \in 1 .. Len(e) : e[k] \in Byte
      /\ \A x, y : x \cup {y} = x \cup {y} \cup none
  OBVIOUS
<1> HIDE DEF none
<1>5. CASE ProcessMsg
  <2> DEFINE r == deserialize_msg(recv_buffer)
  <2>1. r.message_id = m.id
    BY <1>2 DEF deserialize_msg, NameAndContents
  <2>2. m.type \in Texts
    BY <1>2, <1>5 DEF ProcessMsg, Whole, Types, Texts
  <2>3. /\ ShowOnce("MSG", r) /\ SendConfirm(r.message_id)
        /\ UNCHANGED <<state, sent, receiver>> /\ pc' \in {"recv", "ended"}
    BY <1>5 DEF ProcessMsg, Continue
  <2> HIDE DEF r
  <2> QED
    BY <1>2, <2>1, <2>2, <2>3, TextStep
<1>6. CASE ProcessErr
  <2> DEFINE r == deserialize_err_msg(recv_buffer)
  <2>1. r.message_id = m.id
    BY <1>2 DEF deserialize_err_msg, NameAndContents
  <2>2. m.type \in Texts
    BY <1>2, <1>6 DEF ProcessErr, Whole, Types, Texts
  <2>3. /\ ShowOnce("ERR", r) /\ SendConfirm(r.message_id)
        /\ UNCHANGED <<state, sent, receiver>> /\ pc' \in {"recv", "ended"}
    BY <1>6 DEF ProcessErr, EXIT
  <2> HIDE DEF r
  <2> QED
    BY <1>2, <2>1, <2>2, <2>3, TextStep
<1>7. CASE ProcessPing \/ ProcessBye
  <2>1. m.type \notin Texts
    BY <1>2, <1>7 DEF ProcessPing, ProcessBye, Whole, Types, Texts
  <2>2. SendConfirm(m.id)
    BY <1>2, <1>7 DEF ProcessPing, ProcessBye, deserialize_ping_msg, deserialize_bye_msg
  <2>3. toServer' = toServer \cup {serialize_confirm_msg(m.id)} \cup none
    BY <1>4, <2>2 DEF SendConfirm
  <2>4. /\ UNCHANGED <<vars, sent, receiver, shown>> /\ state' \in States
        /\ pc' \in {"recv", "ended"}
    BY <1>3, <1>7 DEF ProcessPing, ProcessBye, Continue, EXIT
  <2> QED
    BY <1>2, <1>4, <2>1, <2>3, <2>4, ConfirmStep
<1>8. CASE ProcessReply
  <2> DEFINE r == deserialize_reply_msg(recv_buffer)
  <2>1. r.message_id = m.id
    BY <1>2 DEF deserialize_reply_msg
  <2>2. m.type \notin Texts
    BY <1>2, <1>8 DEF ProcessReply, Whole, Types, Texts
  <2>3. CASE ReplyEnds
    <3>1. /\ UNCHANGED <<vars, sent, receiver, shown, toServer>>
          /\ state' \in States /\ pc' \in {"recv", "ended", "crashed"}
      BY <1>3, <2>3 DEF ReplyEnds, EXIT
    <3> QED
      BY <3>1, QuietStep
  <2>4. CASE ~ReplyEnds
    <3>1. /\ state' = IF r.result = 1 \/ state = "JOIN" THEN "OPEN" ELSE state
          /\ SendConfirm(r.message_id)
          /\ UNCHANGED <<vars, sent, receiver, shown>> /\ pc' \in {"recv", "ended"}
      BY <1>8, <2>4 DEF ProcessReply, Continue
    <3>2. state' \in States
      BY <1>3, <3>1 DEF States
    <3>3. toServer' = toServer \cup {serialize_confirm_msg(m.id)} \cup none
      BY <1>4, <2>1, <3>1 DEF SendConfirm
    <3> QED
      BY <1>2, <1>4, <2>2, <3>1, <3>2, <3>3, ConfirmStep
  <2> QED
    BY <2>3, <2>4
<1>9. CASE ProcessMalformed
  <2> DEFINE err == serialize_err_msg(OWN_ID, OWN_NAME, err_string)
  <2>1. m.type \notin Texts
    <3>1. "MSG" \in DOMAIN MIN_SIZE /\ "ERR" \in DOMAIN MIN_SIZE
      BY DEF MIN_SIZE
    <3> QED
      BY <1>2, <1>9, <3>1 DEF ProcessMalformed, Texts, Types
  <2>2. toServer' = toServer \cup {serialize_confirm_msg(m.id)} \cup {err}
    BY <1>2, <1>9 DEF ProcessMalformed
  <2>3. err[1] # 0 /\ Len(err) <= MAX_MSG_SIZE /\ \A k \in 1 .. Len(err) : err[k] \in Byte
    BY ErrBytes
  <2>4. /\ UNCHANGED <<vars, sent, receiver, shown>> /\ state' \in States
        /\ pc' \in {"recv", "ended"}
    BY <1>3, <1>9 DEF ProcessMalformed, EXIT
  <2> HIDE DEF err
  <2> QED
    BY <1>2, <2>1, <2>2, <2>3, <2>4, ConfirmStep
<1>10. CASE ProcessMsgAtStart \/ ProcessConfirm \/ ProcessReplyAtStart \/ Crash
  <2>1. /\ UNCHANGED <<vars, sent, receiver, shown, toServer>> /\ state' \in States
        /\ pc' \in {"recv", "ended", "crashed"}
    BY <1>3, <1>10 DEF ProcessMsgAtStart, ProcessConfirm, ProcessReplyAtStart, ReplyEnds,
                       Crash, Continue, EXIT, output
  <2> QED
    BY <2>1, QuietStep
<1> QED
  BY <1>5, <1>6, <1>7, <1>8, <1>9, <1>10 DEF Listener

LEMMA ReceiveStep == ReceiveInv /\ [ReceiveNext]_rvars => Step
<1> SUFFICES ASSUME ReceiveInv, [ReceiveNext]_rvars PROVE Step
  OBVIOUS
<1>1. CASE MainThread
  <2>1. /\ UNCHANGED <<vars, sent, receiver, shown, toServer>> /\ state' \in States
        /\ pc' = pc
    BY <1>1 DEF MainThread, output, States
  <2> QED
    BY <2>1, QuietStep
<1>2. CASE Ended \/ UNCHANGED rvars
  <2>1. UNCHANGED <<vars, sent, receiver, shown, toServer>> /\ state' \in States /\ pc' = pc
    BY <1>2 DEF Ended, rvars, output, ReceiveInv, States
  <2> QED
    BY <2>1, QuietStep
<1> QED
  BY <1>1, <1>2, ListenerStep, RecvStep DEF ReceiveNext

LEMMA ReceiveInitInv == ReceiveInit => ReceiveInv /\ Set!Init /\ Chat!Init
<1> SUFFICES ASSUME ReceiveInit PROVE ReceiveInv /\ Set!Init /\ Chat!Init
  OBVIOUS
<1>1. Inv /\ Set!Init
  BY InitInv DEF ReceiveInit
<1>2. shown = <<>> /\ toServer = {} /\ sent = {} /\ numbytes = 0
  BY DEF ReceiveInit
<1>3. BufferType
  <2>1. 0 \in Offsets
    BY Sizes DEF Offsets
  <2>2. PICK b \in Junk : recv_buffer = [o \in Offsets |-> b]
    BY DEF ReceiveInit
  <2>3. b \in Byte
    BY ReceiveAssumption
  <2> QED
    BY <1>2, <2>1, <2>2, <2>3 DEF BufferType
<1>4. Known = {}
  BY <1>1 DEF Set!Init
<1>5. ShownIsListed
  BY <1>2, <1>4 DEF ShownIsListed, Chat!WasShown
<1>6. Confirmed = {} /\ DatagramsFit
  BY <1>2 DEF Confirmed, DatagramsFit
<1>7. shown \in Seq(Ids)
  BY <1>2, EmptySeq
<1>8. ReceiveInv
  BY <1>1, <1>2, <1>3, <1>5, <1>6, <1>7 DEF ReceiveInv, ReceiveInit
<1> QED
  BY <1>1, <1>2, <1>6, <1>8 DEF Chat!Init

(* The buffer, the list of seen IDs and the datagrams that go back keep     *)
(* their types; nothing is written behind the buffer and nothing longer     *)
(* than it is sent (network_udp.c, udp_listener).                           *)
THEOREM ReceiveTypes == ReceiveSpec => []ReceiveTypeOK
<1>1. ReceiveInv => ReceiveTypeOK
  BY DEF ReceiveInv, ReceiveTypeOK, Inv, BufferType, DatagramsFit
<1>2. ReceiveInv /\ [ReceiveNext]_rvars => ReceiveInv'
  BY ReceiveStep DEF Step
<1> QED
  BY <1>1, <1>2, ReceiveInitInv, PTL DEF ReceiveSpec

(* The list of seen IDs answers as a set would, driven by whatever the      *)
(* network delivers (id.c, is_message_duplicate).                           *)
THEOREM ReceiveImplementsIdSet == ReceiveSpec => ImplementsIdSet
<1>1. ReceiveInv /\ [ReceiveNext]_rvars => ReceiveInv' /\ [Set!Next]_<<Known, answer>>
  BY ReceiveStep DEF Step
<1> QED
  BY <1>1, ReceiveInitInv, PTL DEF ReceiveSpec, ImplementsIdSet, Set!Spec

(* However datagrams are lost, repeated and reordered, and whatever older   *)
(* bytes the buffer keeps: a chat message is printed at most once, and its  *)
(* CONFIRM leaves only after that (network_udp.c, handle_msg_message).      *)
THEOREM ReceiveImplementsDelivery == ReceiveSpec => ImplementsDelivery
<1>1. ReceiveInv /\ [ReceiveNext]_rvars => ReceiveInv' /\ [Chat!Next]_(Chat!vars)
  BY ReceiveStep DEF Step
<1> QED
  BY <1>1, ReceiveInitInv, PTL DEF ReceiveSpec, ImplementsDelivery, Chat!Spec

-----------------------------------------------------------------------------
(* A text that is read up to its NUL. *)
LEMMA CStringEnds ==
  ASSUME NEW off \in Nat, NEW n \in Nat, off + n <= Room,
         \A i \in 1 .. n : recv_buffer[off + i - 1] # NUL,
         recv_buffer[off + n] = NUL
  PROVE  CString(recv_buffer, off) = [i \in 1 .. n |-> recv_buffer[off + i - 1]]
<1> DEFINE ends == {i \in off .. MAX_MSG_SIZE - 1 : recv_buffer[i] = NUL} \cup {MAX_MSG_SIZE}
<1>1. Room \in Nat /\ MAX_MSG_SIZE = Room + 1
  BY Sizes
<1>2. off + n \in ends
  BY <1>1
<1>3. ASSUME NEW j \in ends PROVE off + n <= j
  <2>1. CASE j = MAX_MSG_SIZE
    BY <1>1, <2>1
  <2>2. CASE j \in off .. MAX_MSG_SIZE - 1 /\ recv_buffer[j] = NUL
    <3>1. j \in Int /\ off <= j
      BY <1>1, <2>2
    <3>2. ASSUME j < off + n PROVE FALSE
      <4>1. j - off + 1 \in 1 .. n /\ off + (j - off + 1) - 1 = j
        BY <3>1, <3>2
      <4> QED
        BY <2>2, <4>1
    <3> QED
      BY <3>1, <3>2
  <2> QED
    BY <2>1, <2>2
<1>4. \A j \in ends : j \in Int
  BY <1>1
<1> HIDE DEF ends
<1>5. First(ends) = off + n
  <2>1. \A i \in ends : (\A j \in ends : i <= j) => i = off + n
    BY <1>2, <1>3, <1>4
  <2> QED
    BY <1>2, <1>3, <2>1 DEF First
<1>6. CString(recv_buffer, off) = [i \in 1 .. First(ends) - off |-> recv_buffer[off + i - 1]]
  BY DEF CString, ends
<1>7. (off + n) - off = n
  OBVIOUS
<1> QED
  BY <1>5, <1>6, <1>7

LEMMA TextRead ==
  ASSUME NEW s \in Seq(Character), NEW n \in Nat, n <= Len(s),
         NEW off \in Nat, off + n <= Room,
         \A i \in 1 .. n : recv_buffer[off + i - 1] = s[i],
         recv_buffer[off + n] = NUL
  PROVE  CString(recv_buffer, off) = SubSeq(s, 1, n)
<1>1. \A i \in 1 .. Len(s) : s[i] \in Character
  BY ElementOfSeq
<1>2. Len(s) \in Nat
  BY LenProperties
<1>3. \A i \in 1 .. n : s[i] # NUL
  <2>1. \A i \in 1 .. n : i \in 1 .. Len(s)
    BY <1>2
  <2>2. NUL \notin Character
    BY DEF NUL, Character
  <2> QED
    BY <1>1, <2>1, <2>2
<1>4. CString(recv_buffer, off) = [i \in 1 .. n |-> recv_buffer[off + i - 1]]
  <2>1. \A i \in 1 .. n : recv_buffer[off + i - 1] # NUL
    BY <1>3
  <2> QED
    BY <2>1, CStringEnds
<1>5. [i \in 1 .. n |-> recv_buffer[off + i - 1]] = [i \in 1 .. n |-> s[i]]
  OBVIOUS
<1>6. SubSeq(s, 1, n) = [i \in 1 .. n |-> s[i]]
  <2>1. n \in 0 .. Len(s)
    BY <1>2
  <2> QED
    BY <2>1, SubSeqRestrict DEF Restrict
<1> QED
  BY <1>4, <1>5, <1>6

(* How many characters of the last text there is room for. *)
Fitting(c, l, off, room) == IF l <= room THEN c ELSE room - off

Fits(c, l, off, room, k, e) ==
    /\ e \in Nat /\ e <= c /\ off + e <= room
    /\ \A i \in 1 .. e : i \in 1 .. c /\ off + i - 1 \in 0 .. k - 1
                         /\ off + i - 1 + 1 = off + i
    /\ l <= room => off + e \in 0 .. k - 1 /\ off + e + 1 = off + c + 1
    /\ ~(l <= room) => off + e = k
    /\ (c - (l - 1 - room) < c) => e = c - (l - 1 - room)
    /\ ~(c - (l - 1 - room) < c) => e = c

LEMMA FittingOffsets ==
  ASSUME NEW c \in Nat, NEW off \in Nat, NEW room \in Nat, off <= room,
         NEW l, l = off + c + 1, NEW k, k = IF l < room THEN l ELSE room
  PROVE  Fits(c, l, off, room, k, Fitting(c, l, off, room))
  BY DEF Fitting, Fits

(* The last text of a datagram: the whole of it, or what the buffer had     *)
(* room for.                                                                *)
CutTo(s, room) == IF room < Len(s) THEN strncpy(s, room) ELSE s

LEMMA LastText ==
  ASSUME NEW m \in ServerMessages, InBuffer(m),
         NEW s \in Seq(Character), NEW off \in Nat, off <= Room,
         Len(Wire(m)) = off + Len(s) + 1,
         \A i \in 1 .. Len(s) : Wire(m)[off + i] = s[i],
         Wire(m)[off + Len(s) + 1] = NUL
  PROVE  CString(recv_buffer, off) = CutTo(s, Len(s) - (Len(Wire(m)) - 1 - Room))
<1> DEFINE w == Wire(m)
           c == Len(s)
           l == Len(w)
           k == Kept(m)
           e == Fitting(c, l, off, Room)
<1>1. c \in Nat
  BY LenProperties
<1>2. Room \in Nat
  BY Sizes
<1>3. l = off + c + 1
  OBVIOUS
<1>4. k = IF l < Room THEN l ELSE Room
  BY DEF Kept
<1>5. /\ \A o \in 0 .. k - 1 : recv_buffer[o] = w[o + 1]
      /\ recv_buffer[k] = NUL
  BY DEF InBuffer
<1>6. w[off + c + 1] = NUL /\ \A i \in 1 .. c : w[off + i] = s[i]
  OBVIOUS
<1> HIDE DEF w, c, l, k
<1>7. Fits(c, l, off, Room, k, e)
  BY <1>1, <1>2, <1>3, <1>4, FittingOffsets
<1> HIDE DEF e
<1>8. \A i \in 1 .. e : recv_buffer[off + i - 1] = s[i]
  BY <1>5, <1>6, <1>7 DEF Fits
<1>9. recv_buffer[off + e] = NUL
  BY <1>5, <1>6, <1>7 DEF Fits
<1>10. CString(recv_buffer, off) = SubSeq(s, 1, e)
  BY <1>7, <1>8, <1>9, TextRead DEF c, Fits
<1>11. CASE c - (l - 1 - Room) < c
  <2>1. CutTo(s, c - (l - 1 - Room)) = strncpy(s, e)
    BY <1>7, <1>11 DEF CutTo, c, Fits
  <2>2. strncpy(s, e) = SubSeq(s, 1, e)
    BY <1>1, <1>7 DEF strncpy, c, Fits
  <2> QED
    BY <1>10, <2>1, <2>2 DEF c, l, w
<1>12. CASE ~(c - (l - 1 - Room) < c)
  <2>1. CutTo(s, c - (l - 1 - Room)) = s
    BY <1>12 DEF CutTo, c
  <2>2. SubSeq(s, 1, c) = s
    BY SubSeqFull DEF c
  <2> QED
    BY <1>7, <1>10, <1>12, <2>1, <2>2 DEF c, l, w, Fits
<1> QED
  BY <1>11, <1>12

Expected(m) == CutTo(m.contents, Len(m.contents) - (Len(Wire(m)) - 1 - Room))

(* What deserialize_msg and deserialize_err_msg make of the buffer. *)
LEMMA TextsRead ==
  ASSUME NEW m \in ServerMessages, m.type \in Texts, InBuffer(m)
  PROVE  LET r == NameAndContents(recv_buffer)
         IN  r.display_name = m.name /\ r.message_contents = Expected(m)
<1> DEFINE w == Wire(m)
           x == m.name
           y == m.contents
           n == Len(x)
           c == Len(y)
           l == Len(w)
           k == Kept(m)
<1>1. x \in Seq(Character) /\ y \in Seq(Character)
  BY MessageParts
<1>2. n \in Nat /\ c \in Nat /\ n <= MAX_DISPLAY_NAME_LEN
  BY MessageParts
<1>3. /\ Room \in Nat /\ Room = MAX_MESSAGE_CONTENT_LEN + 6 /\ MAX_MESSAGE_CONTENT_LEN \in Nat
      /\ MAX_DISPLAY_NAME_LEN \in Nat /\ MAX_DISPLAY_NAME_LEN <= MAX_MESSAGE_CONTENT_LEN
  BY Sizes
<1>4. /\ l = n + c + 5
      /\ \A i \in 1 .. n : w[3 + i] = x[i]
      /\ w[4 + n] = NUL
      /\ \A i \in 1 .. c : w[4 + n + i] = y[i]
      /\ w[5 + n + c] = NUL
  BY WireOfText
<1>5. /\ \A o \in 0 .. k - 1 : recv_buffer[o] = w[o + 1]
      /\ k = IF l < Room THEN l ELSE Room
  BY DEF InBuffer, Kept
<1> HIDE DEF w, n, c, l, k
<1>6. CString(recv_buffer, 3) = x
  <2>1. \A i \in 1 .. n : 3 + i - 1 \in 0 .. k - 1 /\ 3 + i - 1 + 1 = 3 + i
    BY <1>2, <1>3, <1>4, <1>5
  <2>2. 3 + n \in 0 .. k - 1 /\ 3 + n + 1 = 4 + n /\ 3 + n <= Room
    BY <1>2, <1>3, <1>4, <1>5
  <2>3. \A i \in 1 .. n : recv_buffer[3 + i - 1] = x[i]
    BY <1>4, <1>5, <2>1
  <2>4. recv_buffer[3 + n] = NUL
    BY <1>4, <1>5, <2>2
  <2>5. n <= Len(x)
    BY <1>2 DEF n
  <2>6. CString(recv_buffer, 3) = SubSeq(x, 1, n)
    BY <1>1, <1>2, <2>2, <2>3, <2>4, <2>5, TextRead
  <2> QED
    BY <1>1, <2>6, SubSeqFull DEF n
<1>7. CString(recv_buffer, 3 + n + 1) = Expected(m)
  <2> DEFINE off == 3 + n + 1
  <2>1. off \in Nat /\ off <= Room /\ l = off + c + 1
    BY <1>2, <1>3, <1>4
  <2>2. off = 4 + n /\ off + c + 1 = 5 + n + c
    BY <1>2
  <2> HIDE DEF off
  <2>3. w[off + c + 1] = NUL /\ \A i \in 1 .. c : w[off + i] = y[i]
    BY <1>4, <2>2
  <2>4. CString(recv_buffer, off) = CutTo(y, Len(y) - (Len(w) - 1 - Room))
    BY <1>1, <2>1, <2>3, LastText DEF w, c, l
  <2> QED
    BY <2>4 DEF off, w, Expected
<1> QED
  BY <1>6, <1>7 DEF NameAndContents, n

(* What deserialize_reply_msg makes of the buffer. *)
LEMMA ReplyRead ==
  ASSUME NEW m \in ServerMessages, m.type = "REPLY", InBuffer(m)
  PROVE  recv_buffer[3] = m.result /\ CString(recv_buffer, 6) = Expected(m)
<1> DEFINE w == Wire(m)
           y == m.contents
           c == Len(y)
           l == Len(w)
           k == Kept(m)
<1>1. y \in Seq(Character)
  BY MessageParts
<1>2. c \in Nat
  BY MessageParts
<1>3. Room \in Nat /\ Room = MAX_MESSAGE_CONTENT_LEN + 6 /\ MAX_MESSAGE_CONTENT_LEN \in Nat
  BY Sizes
<1>4. /\ l = c + 7 /\ w[4] = m.result
      /\ \A i \in 1 .. c : w[6 + i] = y[i]
      /\ w[7 + c] = NUL
  BY WireOfReply
<1>5. /\ \A o \in 0 .. k - 1 : recv_buffer[o] = w[o + 1]
      /\ k = IF l < Room THEN l ELSE Room
  BY DEF InBuffer, Kept
<1> HIDE DEF w, c, l, k
<1>6. recv_buffer[3] = m.result
  <2>1. 3 \in 0 .. k - 1 /\ 3 + 1 = 4
    BY <1>2, <1>3, <1>4, <1>5
  <2> QED
    BY <1>4, <1>5, <2>1
<1>7. CString(recv_buffer, 6) = Expected(m)
  <2>1. 6 \in Nat /\ 6 <= Room /\ l = 6 + c + 1 /\ 6 + c + 1 = 7 + c
    BY <1>2, <1>3, <1>4
  <2>2. w[6 + c + 1] = NUL /\ \A i \in 1 .. c : w[6 + i] = y[i]
    BY <1>4, <2>1
  <2>3. CString(recv_buffer, 6) = CutTo(y, Len(y) - (Len(w) - 1 - Room))
    BY <1>1, <2>1, <2>2, LastText DEF w, c, l
  <2> QED
    BY <2>3 DEF w, Expected
<1> QED
  BY <1>6, <1>7

-----------------------------------------------------------------------------
(* What is on the screen is a message of the server's. *)
DisplayOf(m) ==
    /\ display.type = m.type /\ display.id = m.id
    /\ IF m.type = "REPLY" THEN display.result = m.result ELSE display.name = m.name
    /\ display.contents = Expected(m)

DisplayIsSent == display # Nothing => \E m \in sent : DisplayOf(m)

LEMMA WholeOrCutIs == WholeOrCut <=> DisplayIsSent
<1>1. Room = MAX_MSG_SIZE - 1
  BY DEF Room
<1> QED
  BY <1>1 DEF WholeOrCut, DisplayIsSent, DisplayOf, Expected, CutTo

LEMMA DisplayStep == ReceiveInv /\ DisplayIsSent /\ [ReceiveNext]_rvars => DisplayIsSent'
<1> SUFFICES ASSUME ReceiveInv, DisplayIsSent, [ReceiveNext]_rvars PROVE DisplayIsSent'
  OBVIOUS
<1>1. CASE UNCHANGED display /\ sent \subseteq sent'
  BY <1>1 DEF DisplayIsSent, DisplayOf
<1>2. CASE sent' = sent /\ \E m \in sent : DisplayOf(m)'
  BY <1>2 DEF DisplayIsSent
<1>3. CASE ProcessMsg
  <2> DEFINE r == NameAndContents(recv_buffer)
  <2>1. PICK m \in sent :
           /\ m \in ServerMessages /\ InBuffer(m)
           /\ ntohs(recv_buffer, 1) = m.id
           /\ \A type \in Types : Is(type) <=> m.type = type
    BY <1>3, Handled DEF ProcessMsg, Whole, Is
  <2>2. m.type = "MSG"
    BY <1>3, <2>1 DEF ProcessMsg, Whole, Types
  <2>3. r.display_name = m.name /\ r.message_contents = Expected(m)
    BY <2>1, <2>2, TextsRead DEF Texts
  <2>4. r.message_id = m.id
    BY <2>1 DEF NameAndContents
  <2>5. ShowOnce("MSG", r) /\ sent' = sent
    BY <1>3 DEF ProcessMsg, deserialize_msg
  <2> HIDE DEF r
  <2>6. CASE UNCHANGED display
    BY <1>1, <2>5, <2>6
  <2>7. CASE display' = [type |-> "MSG", id |-> m.id, name |-> m.name,
                         contents |-> Expected(m)]
    <3>1. DisplayOf(m)'
      BY <2>2, <2>7 DEF DisplayOf
    <3> QED
      BY <1>2, <2>5, <3>1
  <2> QED
    BY <2>3, <2>4, <2>5, <2>6, <2>7 DEF ShowOnce
<1>4. CASE ProcessErr
  <2> DEFINE r == NameAndContents(recv_buffer)
  <2>1. PICK m \in sent :
           /\ m \in ServerMessages /\ InBuffer(m)
           /\ ntohs(recv_buffer, 1) = m.id
           /\ \A type \in Types : Is(type) <=> m.type = type
    BY <1>4, Handled DEF ProcessErr, Whole, Is
  <2>2. m.type = "ERR"
    BY <1>4, <2>1 DEF ProcessErr, Whole, Types
  <2>3. r.display_name = m.name /\ r.message_contents = Expected(m)
    BY <2>1, <2>2, TextsRead DEF Texts
  <2>4. r.message_id = m.id
    BY <2>1 DEF NameAndContents
  <2>5. ShowOnce("ERR", r) /\ sent' = sent
    BY <1>4 DEF ProcessErr, deserialize_err_msg
  <2> HIDE DEF r
  <2>6. CASE UNCHANGED display
    BY <1>1, <2>5, <2>6
  <2>7. CASE display' = [type |-> "ERR", id |-> m.id, name |-> m.name,
                         contents |-> Expected(m)]
    <3>1. DisplayOf(m)'
      BY <2>2, <2>7 DEF DisplayOf
    <3> QED
      BY <1>2, <2>5, <3>1
  <2> QED
    BY <2>3, <2>4, <2>5, <2>6, <2>7 DEF ShowOnce
<1>5. CASE ProcessReply
  <2> DEFINE r == deserialize_reply_msg(recv_buffer)
  <2>1. PICK m \in sent :
           /\ m \in ServerMessages /\ InBuffer(m)
           /\ ntohs(recv_buffer, 1) = m.id
           /\ \A type \in Types : Is(type) <=> m.type = type
    BY <1>5, Handled DEF ProcessReply, Whole, Is
  <2>2. m.type = "REPLY"
    BY <1>5, <2>1 DEF ProcessReply, Whole, Types
  <2>3. r.message_id = m.id /\ r.result = m.result /\ r.message_contents = Expected(m)
    BY <2>1, <2>2, ReplyRead DEF deserialize_reply_msg
  <2>4. sent' = sent /\ (UNCHANGED display \/ PrintReply(r))
    BY <1>5 DEF ProcessReply, ReplyEnds
  <2> HIDE DEF r
  <2>5. CASE UNCHANGED display
    BY <1>1, <2>4, <2>5
  <2>6. CASE display' = [type |-> "REPLY", id |-> m.id, result |-> m.result,
                         contents |-> Expected(m)]
    <3>1. DisplayOf(m)'
      BY <2>2, <2>6 DEF DisplayOf
    <3> QED
      BY <1>2, <2>4, <3>1
  <2> QED
    BY <2>3, <2>4, <2>5, <2>6 DEF PrintReply
<1>6. CASE \E m \in ServerMessages : Recv(m)
  BY <1>1, <1>6 DEF Recv, output
<1>7. CASE \/ ProcessMsgAtStart \/ ProcessPing \/ ProcessBye \/ ProcessConfirm
           \/ ProcessReplyAtStart \/ Crash \/ ProcessMalformed
  BY <1>1, <1>7 DEF ProcessMsgAtStart, ProcessPing, ProcessBye, ProcessConfirm,
                    ProcessReplyAtStart, ReplyEnds, Crash, ProcessMalformed, output
<1>8. CASE MainThread \/ Ended \/ UNCHANGED rvars
  BY <1>1, <1>8 DEF MainThread, Ended, rvars, output
<1> QED
  BY <1>3, <1>4, <1>5, <1>6, <1>7, <1>8 DEF ReceiveNext, Listener

(* What the user sees is what the server wrote: the receive buffer is never *)
(* cleared, but no byte of an older datagram is ever printed, and only the  *)
(* contents of a message longer than the buffer are cut                     *)
(* (network_udp.c, udp_listener; deserialize.c).                            *)
THEOREM ShowsWhatWasSent == ReceiveSpec => []WholeOrCut
<1>1. ReceiveInit => ReceiveInv /\ DisplayIsSent
  BY ReceiveInitInv DEF ReceiveInit, DisplayIsSent
<1>2. ReceiveInv /\ [ReceiveNext]_rvars => ReceiveInv'
  BY ReceiveStep DEF Step
<1>3. WholeOrCut <=> DisplayIsSent
  BY WholeOrCutIs
<1> QED
  BY <1>1, <1>2, <1>3, DisplayStep, PTL DEF ReceiveSpec
=============================================================================
