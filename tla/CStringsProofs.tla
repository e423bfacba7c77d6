--------------------------- MODULE CStringsProofs ---------------------------
(***************************************************************************)
(* What the operators on strings find: where the pieces of a text that is   *)
(* put together stand in it, and where strstr finds them again.  A text is  *)
(* a sequence of numbers.                                                   *)
(***************************************************************************)
EXTENDS CStrings, SequenceTheorems, WellFoundedInduction, TLAPS

(* First finds the smallest number. *)
LEMMA FirstExists ==
  ASSUME NEW P, P \subseteq Nat, P # {}
  PROVE  First(P) \in P /\ \A y \in P : First(P) <= y
<1> DEFINE R == OpToRel(<, Nat)
<1>1. IsWellFoundedOn(R, Nat)
  BY NatLessThanWellFounded
<1>2. \A x, y \in Nat : y < x => <<y, x>> \in R
  BY DEF OpToRel
<1> HIDE DEF R
<1>3. PICK x \in P : \A y \in P : ~(<<y, x>> \in R)
  BY <1>1, WFMin
<1>4. \A y \in P : x <= y
  <2>1. \A y \in P : y \in Nat /\ x \in Nat /\ ~(y < x)
    BY <1>2, <1>3
  <2> QED
    BY <2>1
<1> QED
  BY <1>4 DEF First

LEMMA FirstIs ==
  ASSUME NEW P, P \subseteq Int, NEW x \in P, \A y \in P : x <= y
  PROVE  First(P) = x
<1>1. \A y \in P : (\A j \in P : y <= j) => y = x
  OBVIOUS
<1> QED
  BY <1>1 DEF First

(* Two texts of as many symbols, symbol by symbol. *)
LEMMA SameText ==
  ASSUME NEW s \in Seq(Nat), NEW t \in Seq(Nat), Len(s) = Len(t),
         \A i \in 1 .. Len(s) : s[i] = t[i]
  PROVE  s = t
BY SeqEqual

(* The n symbols s stand in u behind its first a. *)
Piece(u, a, s, n) == \A i \in 1 .. n : u[a + i] = s[i]

LEMMA Pieces ==
  ASSUME NEW a \in Nat, NEW b \in Nat, NEW s, NEW t, NEW u,
         \A i \in 1 .. a + b : u[i] = IF i <= a THEN s[i] ELSE t[i - a]
  PROVE  Piece(u, 0, s, a) /\ Piece(u, a, t, b)
<1>1. ASSUME NEW i \in 1 .. b PROVE u[a + i] = t[i]
  <2>1. a + i \in 1 .. a + b /\ ~(a + i <= a) /\ a + i - a = i
    OBVIOUS
  <2> QED
    BY <2>1
<1>2. ASSUME NEW i \in 1 .. a PROVE u[0 + i] = s[i]
  <2>1. 0 + i = i /\ i \in 1 .. a + b /\ i <= a
    OBVIOUS
  <2> QED
    BY <2>1
<1> QED
  BY <1>1, <1>2 DEF Piece

LEMMA PieceOfPiece ==
  ASSUME NEW a \in Nat, NEW b \in Nat, NEW c \in Nat, NEW d \in Nat, c + d <= b,
         NEW u, NEW s, NEW t, Piece(u, a, s, b), Piece(s, c, t, d)
  PROVE  Piece(u, a + c, t, d)
<1>1. ASSUME NEW i \in 1 .. d PROVE u[a + c + i] = t[i]
  <2>1. c + i \in 1 .. b /\ a + (c + i) = a + c + i
    OBVIOUS
  <2>2. u[a + (c + i)] = s[c + i] /\ s[c + i] = t[i]
    BY <2>1 DEF Piece
  <2> QED
    BY <2>1, <2>2
<1> QED
  BY <1>1 DEF Piece

(* A text behind another. *)
LEMMA Joined ==
  ASSUME NEW s \in Seq(Nat), NEW t \in Seq(Nat)
  PROVE  /\ s \o t \in Seq(Nat) /\ Len(s) \in Nat /\ Len(t) \in Nat
         /\ Len(s \o t) = Len(s) + Len(t)
         /\ Piece(s \o t, 0, s, Len(s)) /\ Piece(s \o t, Len(s), t, Len(t))
<1> DEFINE u == s \o t
           a == Len(s)
           b == Len(t)
<1>1. a \in Nat /\ b \in Nat
  BY LenProperties
<1>2. /\ u \in Seq(Nat) /\ Len(u) = a + b
      /\ \A i \in 1 .. a + b : u[i] = IF i <= a THEN s[i] ELSE t[i - a]
  BY ConcatProperties
<1> HIDE DEF u, a, b
<1>3. Piece(u, 0, s, a) /\ Piece(u, a, t, b)
  BY <1>1, <1>2, Pieces
<1> QED
  BY <1>1, <1>2, <1>3 DEF u, a, b

(* A part of a text. *)
LEMMA Part ==
  ASSUME NEW s \in Seq(Nat), NEW i \in Nat \ {0}, NEW j \in Nat, i <= j + 1, j <= Len(s)
  PROVE  /\ SubSeq(s, i, j) \in Seq(Nat) /\ Len(SubSeq(s, i, j)) = j + 1 - i
         /\ \A k \in 1 .. j + 1 - i : SubSeq(s, i, j)[k] = s[i + k - 1]
<1>1. Len(s) \in Nat /\ \A k \in 1 .. Len(s) : s[k] \in Nat
  BY LenProperties, ElementOfSeq
<1>2. \A k \in i .. j : s[k] \in Nat
  BY <1>1
<1>3. /\ SubSeq(s, i, j) \in Seq(Nat)
      /\ Len(SubSeq(s, i, j)) = IF i <= j THEN j - i + 1 ELSE 0
      /\ \A k \in 1 .. j - i + 1 : SubSeq(s, i, j)[k] = s[i + k - 1]
  BY <1>2, SubSeqProperties
<1>4. j - i + 1 = j + 1 - i /\ (i <= j \/ j + 1 - i = 0)
  OBVIOUS
<1> QED
  BY <1>3, <1>4

(* u, a text of n symbols, stands at i. *)
LEMMA StandsAt ==
  ASSUME NEW s \in Seq(Nat), NEW u \in Seq(Nat), NEW i \in Nat \ {0},
         i + Len(u) <= Len(s) + 1
  PROVE  SubSeq(s, i, i + Len(u) - 1) = u <=> \A k \in 1 .. Len(u) : s[i + k - 1] = u[k]
<1> DEFINE n == Len(u)
           t == SubSeq(s, i, i + n - 1)
<1>1. n \in Nat /\ Len(s) \in Nat
  BY LenProperties
<1>2. i + n - 1 \in Nat /\ i <= (i + n - 1) + 1 /\ i + n - 1 <= Len(s) /\ (i + n - 1) + 1 - i = n
  BY <1>1
<1>3. t \in Seq(Nat) /\ Len(t) = n /\ \A k \in 1 .. n : t[k] = s[i + k - 1]
  BY <1>2, Part
<1>4. (\A k \in 1 .. n : t[k] = u[k]) => t = u
  BY <1>3, SameText
<1> QED
  BY <1>3, <1>4

(* strstr: what is found first, from the given place on. *)
FirstAt(s, u, from, i) ==
    /\ from <= i /\ i + Len(u) <= Len(s) + 1
    /\ \A k \in 1 .. Len(u) : s[i + k - 1] = u[k]
    /\ \A j \in from .. i - 1 : s[j] # u[1]

LEMMA FoundFirst ==
  ASSUME NEW s \in Seq(Nat), NEW u \in Seq(Nat), u # <<>>, NEW from \in Nat \ {0},
         NEW i \in Nat, FirstAt(s, u, from, i)
  PROVE  Occurrences(s, u, from) # {} /\ First(Occurrences(s, u, from)) = i
<1> DEFINE P == Occurrences(s, u, from)
<1>1. Len(u) \in Nat \ {0} /\ Len(s) \in Nat
  BY EmptySeq, LenProperties
<1>2. i \in P
  <2>1. SubSeq(s, i, i + Len(u) - 1) = u
    BY StandsAt DEF FirstAt
  <2>2. i \in from .. Len(s) - Len(u) + 1
    BY <1>1 DEF FirstAt
  <2> QED
    BY <2>1, <2>2 DEF Occurrences
<1>3. P \subseteq Int
  BY <1>1 DEF Occurrences
<1>4. ASSUME NEW j \in P PROVE i <= j
  <2>1. j \in Nat \ {0} /\ from <= j /\ j + Len(u) <= Len(s) + 1
    BY <1>1 DEF Occurrences
  <2>2. SubSeq(s, j, j + Len(u) - 1) = u
    BY DEF Occurrences
  <2>3. s[j + 1 - 1] = u[1]
    <3>1. \A k \in 1 .. Len(u) : s[j + k - 1] = u[k]
      BY <2>1, <2>2, StandsAt
    <3>2. 1 \in 1 .. Len(u)
      BY <1>1
    <3> QED
      BY <3>1, <3>2
  <2>4. j + 1 - 1 = j
    BY <2>1
  <2> QED
    BY <2>1, <2>3, <2>4 DEF FirstAt
<1> QED
  BY <1>2, <1>3, <1>4, FirstIs

LEMMA WholePart ==
  ASSUME NEW s \in Seq(Nat)
  PROVE  SubSeq(s, 1, Len(s)) = s
<1>1. /\ Len(s) \in Nat /\ 1 \in Nat \ {0} /\ 1 <= Len(s) + 1 /\ Len(s) <= Len(s)
      /\ Len(s) + 1 - 1 = Len(s)
  BY LenProperties
<1>2. /\ SubSeq(s, 1, Len(s)) \in Seq(Nat) /\ Len(SubSeq(s, 1, Len(s))) = Len(s)
      /\ \A k \in 1 .. Len(s) : SubSeq(s, 1, Len(s))[k] = s[1 + k - 1]
  BY <1>1, Part
<1>3. \A k \in 1 .. Len(s) : 1 + k - 1 = k
  BY <1>1
<1> QED
  BY <1>2, <1>3, SameText

(* A piece of a text is a part of it. *)
LEMMA PieceIsPart ==
  ASSUME NEW t \in Seq(Nat), NEW a \in Nat, NEW s \in Seq(Nat), a + Len(s) <= Len(t),
         Piece(t, a, s, Len(s))
  PROVE  SubSeq(t, a + 1, a + Len(s)) = s
<1>1. Len(s) \in Nat /\ Len(t) \in Nat
  BY LenProperties
<1>2. \A k \in 1 .. Len(s) : t[(a + 1) + k - 1] = s[k]
  <2>1. \A k \in 1 .. Len(s) : (a + 1) + k - 1 = a + k
    BY <1>1
  <2>2. \A k \in 1 .. Len(s) : t[a + k] = s[k]
    BY DEF Piece
  <2> QED
    BY <2>1, <2>2
<1>3. a + 1 \in Nat \ {0} /\ (a + 1) + Len(s) <= Len(t) + 1 /\ (a + 1) + Len(s) - 1 = a + Len(s)
  BY <1>1
<1>4. SubSeq(t, a + 1, (a + 1) + Len(s) - 1) = s
  BY <1>2, <1>3, StandsAt
<1> QED
  BY <1>3, <1>4

LEMMA Regroup ==
  ASSUME NEW a \in Seq(Nat), NEW b \in Seq(Nat), NEW c \in Seq(Nat)
  PROVE  (a \o b) \o c = a \o (b \o c)
BY ConcatAssociative, SMTT(20)

(* A text over some symbols is one over more of them. *)
LEMMA SeqOfSubset ==
  ASSUME NEW T, NEW S \in SUBSET T, NEW p \in Seq(S)
  PROVE  p \in Seq(T)
<1>1. Len(p) \in Nat /\ p \in [1 .. Len(p) -> S]
  BY LenProperties
<1>2. p \in [1 .. Len(p) -> T]
  BY <1>1
<1> QED
  BY <1>1, <1>2, IsASeq

(* t begins with p. *)
Begins(t, p) ==
    /\ t \in Seq(Nat) /\ p \in Seq(Nat) /\ Len(p) <= Len(t) /\ Piece(t, 0, p, Len(p))

LEMMA BeginsItself ==
  ASSUME NEW t \in Seq(Nat)
  PROVE  Begins(t, t)
<1>1. Len(t) \in Nat
  BY LenProperties
<1>2. \A i \in 1 .. Len(t) : 0 + i = i
  BY <1>1
<1> QED
  BY <1>1, <1>2 DEF Begins, Piece

LEMMA BeginsTransitive ==
  ASSUME NEW t, NEW p, NEW q, Begins(t, p), Begins(p, q)
  PROVE  Begins(t, q)
<1>1. Len(t) \in Nat /\ Len(p) \in Nat /\ Len(q) \in Nat
  BY LenProperties DEF Begins
<1>2. Len(q) <= Len(p) /\ Len(p) <= Len(t) /\ Piece(t, 0, p, Len(p)) /\ Piece(p, 0, q, Len(q))
  BY DEF Begins
<1> DEFINE a == Len(t)
           b == Len(p)
           c == Len(q)
<1> HIDE DEF a, b, c
<1>3. a \in Nat /\ b \in Nat /\ c \in Nat /\ c <= b /\ b <= a
  BY <1>1, <1>2 DEF a, b, c
<1>4. c <= a /\ \A i \in 1 .. c : 0 + i = i /\ i \in 1 .. b
  BY <1>3
<1>5. \A i \in 1 .. c : t[0 + i] = q[i]
  BY <1>2, <1>4 DEF Piece, b, c
<1>6. Piece(t, 0, q, Len(q)) /\ Len(q) <= Len(t)
  BY <1>4, <1>5 DEF Piece, a, c
<1> QED
  BY <1>6 DEF Begins

(* What is put behind a text does not change its beginning. *)
LEMMA BeginsJoined ==
  ASSUME NEW s \in Seq(Nat), NEW t \in Seq(Nat)
  PROVE  Begins(s \o t, s)
<1> DEFINE a == Len(s)
           b == Len(t)
           u == s \o t
<1>1. /\ u \in Seq(Nat) /\ a \in Nat /\ b \in Nat /\ Len(u) = a + b /\ Piece(u, 0, s, a)
  BY Joined
<1> HIDE DEF b, u
<1>2. a <= Len(u)
  <2> HIDE DEF a
  <2> QED
    BY <1>1
<1> QED
  BY <1>1, <1>2 DEF Begins, u

(* The q-th symbol of u, its key, occurs nowhere before it in u, and not in *)
(* texts over S.                                                            *)
Key(u, q, S) ==
    /\ u \in Seq(Nat) /\ q \in 1 .. Len(u) /\ u[q] \notin S
    /\ \A k \in 1 .. q - 1 : u[k] # u[q]

(* strstr finds u behind a text in which its key does not occur. *)
LEMMA FoundBehind ==
  ASSUME NEW t, NEW S \in SUBSET Nat, NEW p \in Seq(S), NEW u, NEW q, Key(u, q, S),
         Begins(t, p \o u)
  PROVE  /\ Len(p) \in Nat /\ Len(u) \in Nat \ {0} /\ p \in Seq(Nat)
         /\ First(Occurrences(t, u, 1)) = Len(p) + 1
<1> DEFINE P == Occurrences(t, u, 1)
           w == p \o u
           a == Len(p)
           b == Len(u)
           n == Len(t)
<1>1. /\ t \in Seq(Nat) /\ u \in Seq(Nat) /\ q \in 1 .. b /\ u[q] \notin S
      /\ \A k \in 1 .. q - 1 : u[k] # u[q]
      /\ Len(w) <= n /\ Piece(t, 0, w, Len(w))
  BY DEF Key, Begins
<1>2. p \in Seq(Nat) /\ a \in Nat /\ b \in Nat /\ n \in Nat /\ \A i \in 1 .. a : p[i] \in S
  <2>1. a \in Nat /\ p \in [1 .. a -> S] /\ b \in Nat /\ n \in Nat
    BY <1>1, LenProperties
  <2>2. p \in [1 .. a -> Nat]
    BY <2>1
  <2>3. p \in Seq(Nat)
    BY <2>1, <2>2, IsASeq
  <2> QED
    BY <2>1, <2>3
<1>3. Len(w) = a + b /\ Piece(w, 0, p, a) /\ Piece(w, a, u, b)
  BY <1>1, <1>2, Joined
<1> HIDE DEF w, a, b, n, P
<1>4. /\ \A i \in 1 .. a : t[i] \in S
      /\ \A k \in 1 .. b : t[a + k] = u[k]
  <2>1. \A i \in 1 .. a + b : t[0 + i] = w[i]
    BY <1>1, <1>3 DEF Piece
  <2>2. \A i \in 1 .. a : i \in 1 .. a + b /\ 0 + i = i
    BY <1>2
  <2>3. \A i \in 1 .. a : w[0 + i] = p[i]
    BY <1>3 DEF Piece
  <2>4. \A i \in 1 .. a : t[i] \in S
    BY <2>1, <2>2, <2>3, <1>2
  <2>5. \A k \in 1 .. b : a + k \in 1 .. a + b /\ 0 + (a + k) = a + k
    BY <1>2
  <2>6. \A k \in 1 .. b : w[a + k] = u[k]
    BY <1>3 DEF Piece
  <2>7. \A k \in 1 .. b : t[a + k] = u[k]
    BY <2>1, <2>5, <2>6
  <2> QED
    BY <2>4, <2>7
<1>5. P = {i \in 1 .. n - b + 1 : SubSeq(t, i, i + b - 1) = u}
  BY DEF P, Occurrences, n, b
<1>6. b # 0 /\ q \in Nat /\ 1 <= q /\ q <= b
  BY <1>1, <1>2
<1>7. a + 1 \in P
  <2>1. a + 1 \in 1 .. n - b + 1 /\ a + 1 \in Nat \ {0} /\ a + 1 + b <= n + 1
    BY <1>1, <1>2, <1>3
  <2>2. \A k \in 1 .. b : a + 1 + k - 1 = a + k
    BY <1>2
  <2>3. \A k \in 1 .. b : t[a + 1 + k - 1] = u[k]
    BY <1>4, <2>2
  <2> DEFINE i == a + 1
  <2>4. i \in Nat \ {0} /\ i + b <= n + 1 /\ \A k \in 1 .. b : t[i + k - 1] = u[k]
    BY <2>1, <2>3
  <2> HIDE DEF i
  <2>5. SubSeq(t, i, i + b - 1) = u
    BY <1>1, <2>4, StandsAt DEF n, b
  <2> QED
    BY <1>5, <2>1, <2>5 DEF i
<1>8. P \subseteq Int
  BY <1>2, <1>5
<1>9. ASSUME NEW j \in P PROVE a + 1 <= j
  <2>1. /\ j \in Nat \ {0} /\ j + b <= n + 1 /\ SubSeq(t, j, j + b - 1) = u
    BY <1>2, <1>5
  <2>2. \A k \in 1 .. b : t[j + k - 1] = u[k]
    BY <1>1, <2>1, StandsAt DEF n, b
  <2>3. t[j + q - 1] = u[q] /\ j + q - 1 \in Nat \ {0}
    BY <1>1, <1>6, <2>1, <2>2
  <2>4. ~(j + q - 1 \in 1 .. a)
    BY <1>1, <1>4, <2>3
  <2>5. ASSUME j <= a PROVE FALSE
    <3> DEFINE k == j + q - 1 - a
    <3>1. k \in 1 .. q - 1 /\ k \in 1 .. b /\ a + k = j + q - 1
      BY <1>2, <1>6, <2>1, <2>3, <2>4, <2>5
    <3> HIDE DEF k
    <3>2. t[a + k] = u[k] /\ u[k] # u[q]
      BY <1>1, <1>4, <3>1
    <3> QED
      BY <2>3, <3>1, <3>2
  <2> QED
    BY <1>2, <2>1, <2>5
<1>10. First(P) = a + 1
  BY <1>7, <1>8, <1>9, FirstIs
<1> QED
  BY <1>2, <1>6, <1>10 DEF P, a, b
=============================================================================
