-------------------------- MODULE TcpFramingProofs --------------------------
(***************************************************************************)
(* The line buffer of TcpFraming for every message, every way to cut the   *)
(* stream and every size of a read; and, with TcpReceive, what is read in  *)
(* the messages of the grammar.                                            *)
(***************************************************************************)
EXTENDS TcpReceive, CStringsProofs

(* The bytes are bytes, and the size of the line buffer a number. *)
BytesType ==
    /\ pending \in Seq(Bytes) /\ buffer \in Seq(Bytes) /\ line \in Seq(Bytes)
    /\ capacity \in Nat

(* After an append the buffer holds the longer line and its NUL. *)
LEMMA AppendFits ==
  ASSUME BytesType, NEW s \in Seq(Bytes), AppendToLine(s)
  PROVE  line' \in Seq(Bytes) /\ capacity' \in Nat /\ LineFits'
<1>1. /\ Len(line) \in Nat /\ Len(s) \in Nat
      /\ line \o s \in Seq(Bytes) /\ Len(line \o s) = Len(line) + Len(s)
  BY ConcatProperties, LenProperties DEF BytesType
<1>2. line' = line \o s /\ capacity' \in Nat /\ capacity' >= Len(line) + Len(s) + 1
  BY <1>1 DEF AppendToLine, Room, BytesType
<1> QED
  BY <1>1, <1>2 DEF LineFits

(* Every step keeps the types and the room. *)
LEMMA LineStep ==
  ASSUME BytesType, LineFits, [Next]_vars
  PROVE  BytesType' /\ LineFits'
<1>1. CASE UNCHANGED vars \/ End \/ Ended
  BY <1>1 DEF vars, End, Ended, BytesType, LineFits
<1>2. ASSUME NEW m \in Messages, Write(m) PROVE BytesType' /\ LineFits'
  <2>1. pending' \in Seq(Bytes)
    <3>1. pending' = (pending \o m) \o <<CR, LF>>
      BY <1>2 DEF Write
    <3>2. /\ m \in Seq(Content) /\ Len(m) \in Nat /\ m \in [1 .. Len(m) -> Content]
      BY FramingAssumption, LenProperties
    <3>3. m \in Seq(Bytes)
      BY <3>2, IsASeq DEF Bytes
    <3> QED
      BY <3>1, <3>3, ConcatProperties DEF BytesType, Bytes
  <2> QED
    BY <1>2, <2>1 DEF Write, BytesType, LineFits
<1>3. ASSUME NEW n \in 1 .. MaxRead, Recv(n) PROVE BytesType' /\ LineFits'
  <2>1. /\ Len(pending) \in Nat /\ n \in 1 .. Len(pending)
        /\ \A i \in 1 .. Len(pending) : pending[i] \in Bytes
    BY <1>3, FramingAssumption, LenProperties, ElementOfSeq DEF Recv, BytesType
  <2>2. SubSeq(pending, 1, n) \in Seq(Bytes)
    BY <2>1, SubSeqProperties
  <2>3. SubSeq(pending, n + 1, Len(pending)) \in Seq(Bytes)
    BY <2>1, SubSeqProperties
  <2> QED
    BY <1>3, <2>2, <2>3 DEF Recv, BytesType, LineFits
<1>4. CASE CompleteLine
  <2>1. PICK i \in Terminators(buffer) :
            /\ AppendToLine(SubSeq(buffer, 1, i - 1))
            /\ buffer' = SubSeq(buffer, i + 2, Len(buffer))
    BY <1>4 DEF CompleteLine, AfterLine
  <2>2. /\ Len(buffer) \in Nat /\ i \in 1 .. Len(buffer) - 1
        /\ \A k \in 1 .. Len(buffer) : buffer[k] \in Bytes
    BY LenProperties, ElementOfSeq DEF Terminators, BytesType
  <2>3. SubSeq(buffer, 1, i - 1) \in Seq(Bytes)
    BY <2>2, SubSeqProperties
  <2>4. SubSeq(buffer, i + 2, Len(buffer)) \in Seq(Bytes)
    BY <2>2, SubSeqProperties
  <2> QED
    BY <1>4, <2>1, <2>3, <2>4, AppendFits DEF CompleteLine, BytesType
<1>5. CASE Process
  BY <1>5, EmptySeq DEF Process, Reset, BytesType, LineFits
<1>6. CASE SaveRest
  <2>1. CASE buffer = <<>>
    BY <1>6, <2>1, EmptySeq DEF SaveRest, BytesType, LineFits
  <2>2. CASE buffer # <<>>
    BY <1>6, <2>2, EmptySeq, AppendFits DEF SaveRest, BytesType
  <2> QED
    BY <2>1, <2>2
<1> QED
  BY <1>1, <1>2, <1>3, <1>4, <1>5, <1>6 DEF Next, Listener

(* tcp_listener's strcat never writes past line_buffer: its size, counted   *)
(* in three places of the code and kept when the line is emptied, has room  *)
(* for the text and the NUL for messages of any length, cut anywhere.       *)
THEOREM LineAlwaysFits == Spec => []LineFits
<1>1. Init => BytesType /\ LineFits
  BY EmptySeq DEF Init, BytesType, LineFits
<1>2. BytesType /\ LineFits /\ [Next]_vars => (BytesType /\ LineFits)'
  BY LineStep
<1> QED
  BY <1>1, <1>2, PTL DEF Spec

-----------------------------------------------------------------------------
(* A message holds bytes, and no CR. *)
LEMMA NoCrInside ==
  ASSUME NEW m \in Messages
  PROVE  /\ Len(m) \in Nat /\ m \in Seq(Bytes)
         /\ \A i \in 1 .. Len(m) : m[i] \in Bytes /\ m[i] # CR
<1>1. m \in Seq(Content) /\ Len(m) \in Nat /\ \A i \in 1 .. Len(m) : m[i] \in Content
  BY FramingAssumption, LenProperties, ElementOfSeq
<1>2. Content \subseteq Bytes /\ CR \notin Content
  BY FramingAssumption DEF Bytes
<1>3. m \in Seq(Bytes)
  BY <1>1, <1>2, SeqMonotonic
<1> QED
  BY <1>1, <1>2, <1>3

(* The stream as the server wrote it: byte p is T[p], the k-th of the n      *)
(* messages s is len[k] bytes and ends with byte ends[k], and a CR occurs    *)
(* only in a CRLF.  Texts are functions here and lengths plain numbers, as   *)
(* the provers count better without sequences.                               *)
Frame(T, ends, n, s, len) ==
    /\ T \in [Nat -> Bytes] /\ ends \in [Nat -> Nat]
    /\ \A k \in 0 .. n : ends[k] <= ends[n]
    /\ \A k \in 1 .. n :
         /\ len[k] \in Nat /\ ends[k] = ends[k - 1] + len[k] + 2
         /\ \A i \in 1 .. len[k] : T[ends[k - 1] + i] = s[k][i] /\ s[k][i] # CR
         /\ T[ends[k - 1] + len[k] + 1] = CR
    /\ \A p \in 1 .. ends[n] : T[p] = CR => p + 1 <= ends[n] /\ T[p + 1] = LF

(* The nb bytes B and then the np bytes P are the stream behind byte b. *)
Behind(T, end, b, B, nb, P, np) ==
    /\ b \in Nat /\ b + nb + np = end
    /\ \A i \in 1 .. nb : B[i] = T[b + i]
    /\ \A i \in 1 .. np : P[i] = T[b + nb + i]

(* The nx bytes X are the stream from byte e to byte b, and hold no CR. *)
Before(T, e, b, X, nx) ==
    /\ b = e + nx
    /\ \A i \in 1 .. nx : X[i] = T[e + i] /\ X[i] # CR

(* U is the e bytes T, the c bytes of m, and a CRLF. *)
Extends(T, U, e, c, m) ==
    /\ \A p \in 1 .. e : U[p] = T[p]
    /\ \A i \in 1 .. c : U[e + i] = m[i]
    /\ U[e + c + 1] = CR /\ U[e + c + 2] = LF

(* A message more: the stream grows by it and its CRLF. *)
LEMMA FrameGrows ==
  ASSUME NEW n \in Nat, NEW s, NEW len, NEW T, NEW ends, Frame(T, ends, n, s, len),
         NEW s2, NEW len2, NEW c \in Nat, NEW m,
         \A i \in 1 .. c : m[i] \in Bytes /\ m[i] # CR,
         \A k \in 1 .. n : s2[k] = s[k] /\ len2[k] = len[k],
         s2[n + 1] = m, len2[n + 1] = c
  PROVE  \E T2, ends2 :
           /\ Frame(T2, ends2, n + 1, s2, len2)
           /\ ends[n] \in Nat /\ ends2[n + 1] = ends[n] + c + 2
           /\ \A k \in 0 .. n : ends2[k] = ends[k]
           /\ Extends(T, T2, ends[n], c, m)
<1> DEFINE E == ends[n]
           T2 == [p \in Nat |-> IF p <= E THEN T[p]
                                ELSE IF p <= E + c THEN m[p - E]
                                ELSE IF p = E + c + 1 THEN CR ELSE LF]
           ends2 == [k \in Nat |-> IF k <= n THEN ends[k] ELSE E + c + 2]
<1>1. /\ E \in Nat /\ ends \in [Nat -> Nat] /\ T \in [Nat -> Bytes]
      /\ \A k \in 0 .. n : ends[k] \in Nat /\ ends[k] <= E
  BY DEF Frame
<1>2. CR # LF /\ CR \in Bytes /\ LF \in Bytes
  BY DEF CR, LF, Bytes
<1>3. \A p \in Nat : p <= E => T2[p] = T[p]
  BY <1>1
<1>4. \A i \in 1 .. c : T2[E + i] = m[i]
  BY <1>1
<1>5. T2[E + c + 1] = CR /\ T2[E + c + 2] = LF
  BY <1>1
<1>6. ends2[n + 1] = E + c + 2 /\ \A k \in 0 .. n : ends2[k] = ends[k]
  BY <1>1
<1>7. ends2 \in [Nat -> Nat]
  BY <1>1
<1> HIDE DEF ends2
<1>8. T2 \in [Nat -> Bytes]
  <2>1. ASSUME NEW p \in Nat PROVE T2[p] \in Bytes
    <3>1. CASE p <= E
      BY <1>1, <1>3, <3>1
    <3>2. CASE p > E /\ p <= E + c
      <4> DEFINE d == p - E
      <4>1. d \in 1 .. c /\ E + d = p
        BY <1>1, <3>2
      <4> HIDE DEF d
      <4>2. T2[E + d] = m[d] /\ m[d] \in Bytes
        BY <4>1, <1>4
      <4> QED
        BY <4>1, <4>2
    <3>3. CASE p > E + c
      BY <1>1, <1>2, <3>3
    <3> QED
      BY <1>1, <3>1, <3>2, <3>3
  <2> QED
    BY <2>1
<1> HIDE DEF T2
<1>9. \A k \in 0 .. n + 1 : ends2[k] <= ends2[n + 1]
  BY <1>1, <1>6
<1>10. ASSUME NEW k \in 1 .. n + 1
       PROVE  /\ len2[k] \in Nat /\ ends2[k] = ends2[k - 1] + len2[k] + 2
              /\ \A i \in 1 .. len2[k] : T2[ends2[k - 1] + i] = s2[k][i] /\ s2[k][i] # CR
              /\ T2[ends2[k - 1] + len2[k] + 1] = CR
  <2>1. CASE k = n + 1
    <3>1. k - 1 = n /\ ends2[k - 1] = E /\ len2[k] = c /\ s2[k] = m
      BY <2>1, <1>6
    <3> QED
      BY <3>1, <2>1, <1>4, <1>5, <1>6
  <2>2. CASE k \in 1 .. n
    <3>1. /\ k - 1 \in 0 .. n /\ ends2[k] = ends[k] /\ ends2[k - 1] = ends[k - 1]
          /\ len2[k] = len[k] /\ s2[k] = s[k] /\ ends[k] <= E /\ ends[k - 1] \in Nat
      BY <2>2, <1>1, <1>6
    <3>2. /\ len[k] \in Nat /\ ends[k] = ends[k - 1] + len[k] + 2
          /\ \A i \in 1 .. len[k] : T[ends[k - 1] + i] = s[k][i] /\ s[k][i] # CR
          /\ T[ends[k - 1] + len[k] + 1] = CR
      BY <2>2 DEF Frame
    <3>3. /\ ends[k - 1] + len[k] + 1 \in Nat /\ ends[k - 1] + len[k] + 1 <= E
          /\ \A i \in 1 .. len[k] : ends[k - 1] + i \in Nat /\ ends[k - 1] + i <= E
      BY <3>1, <3>2, <1>1
    <3> QED
      BY <3>1, <3>2, <3>3, <1>3
  <2> QED
    BY <2>1, <2>2
<1>11. ASSUME NEW p \in 1 .. E + c + 2, T2[p] = CR
       PROVE  p + 1 <= E + c + 2 /\ T2[p + 1] = LF
  <2>1. CASE p <= E
    <3>1. T[p] = CR /\ p \in 1 .. E
      BY <2>1, <1>1, <1>3, <1>11
    <3>2. p + 1 <= E /\ T[p + 1] = LF
      BY <3>1 DEF Frame
    <3> QED
      BY <3>2, <1>1, <1>3
  <2>2. CASE p > E /\ p <= E + c
    <3>1. p - E \in 1 .. c /\ E + (p - E) = p
      BY <1>1, <2>2
    <3> QED
      BY <3>1, <1>4, <1>11
  <2>3. CASE p = E + c + 1
    BY <2>3, <1>1, <1>5
  <2>4. CASE p = E + c + 2
    BY <2>4, <1>2, <1>5, <1>11
  <2>5. p <= E \/ (p > E /\ p <= E + c) \/ p = E + c + 1 \/ p = E + c + 2
    <3>1. E \in Nat
      BY <1>1
    <3> HIDE DEF E
    <3> QED
      BY <3>1
  <2> QED
    BY <2>1, <2>2, <2>3, <2>4, <2>5
<1>12. \A p \in 1 .. ends2[n + 1] :
          T2[p] = CR => p + 1 <= ends2[n + 1] /\ T2[p + 1] = LF
  BY <1>6, <1>11
<1>13. Frame(T2, ends2, n + 1, s2, len2)
  <2> HIDE DEF E
  <2> QED
    BY <1>7, <1>8, <1>9, <1>10, <1>12 DEF Frame
<1>14. Extends(T, T2, E, c, m)
  <2>1. \A p \in 1 .. E : T2[p] = T[p]
    BY <1>1, <1>3
  <2> QED
    BY <2>1, <1>4, <1>5 DEF Extends
<1> QED
  BY <1>1, <1>6, <1>13, <1>14

(* strstr finds the first CRLF of the nb bytes B at i. *)
FirstEnd(B, nb, i) ==
    /\ i \in 1 .. nb - 1 /\ B[i] = CR
    /\ \A j \in 1 .. nb - 1 : B[j] = CR /\ B[j + 1] = LF => i <= j

(* The nx bytes X and the first c bytes of B are the message m of k bytes. *)
Yields(m, k, X, nx, B, c) ==
    /\ k = nx + c
    /\ \A j \in 1 .. nx : X[j] = m[j]
    /\ \A j \in 1 .. c : B[j] = m[nx + j]

(* The first CRLF at or behind byte b, in B, is the end of the next message: *)
(* what lies between is that message.                                       *)
LEMMA LineEnds ==
  ASSUME NEW n \in Nat, NEW s, NEW len, NEW T, NEW ends, Frame(T, ends, n, s, len),
         NEW h \in 0 .. n, NEW b, NEW X, NEW nx \in Nat, Before(T, ends[h], b, X, nx),
         NEW B, NEW nb \in Nat, NEW P, NEW np \in Nat, Behind(T, ends[n], b, B, nb, P, np),
         NEW i, FirstEnd(B, nb, i)
  PROVE  /\ h < n /\ b + i + 1 = ends[h + 1]
         /\ Yields(s[h + 1], len[h + 1], X, nx, B, i - 1)
<1> DEFINE e == ends[h]
           E == ends[n]
           f == ends[h + 1]
           c == len[h + 1]
<1>1. e \in Nat /\ E \in Nat /\ f \in Nat /\ h \in Nat
  BY DEF Frame
<1>2. b \in Nat /\ b = e + nx /\ b + nb + np = E
  BY DEF Before, Behind
<1>3. h < n
  <2>0. i \in 1 .. nb - 1
    BY DEF FirstEnd
  <2> SUFFICES ASSUME h = n PROVE FALSE
    BY <1>1
  <2>1. e = E
    OBVIOUS
  <2> HIDE DEF e, E
  <2> QED
    BY <2>0, <2>1, <1>1, <1>2
<1>4. /\ c \in Nat /\ f = e + c + 2
      /\ \A j \in 1 .. c : T[e + j] = s[h + 1][j] /\ s[h + 1][j] # CR
      /\ T[e + c + 1] = CR
  <2>1. h + 1 \in 1 .. n /\ (h + 1) - 1 = h
    BY <1>1, <1>3
  <2> QED
    BY <2>1 DEF Frame
<1>5. f <= E
  <2>1. h + 1 \in 0 .. n
    BY <1>1, <1>3
  <2> QED
    BY <2>1 DEF Frame
<1>6. \A j \in 1 .. nx : X[j] = T[e + j] /\ X[j] # CR
  BY DEF Before
<1>7. \A j \in 1 .. nb : B[j] = T[b + j]
  BY DEF Behind
<1>8. \A p \in 1 .. E : T[p] = CR => T[p + 1] = LF
  BY DEF Frame
<1>0. /\ i \in 1 .. nb - 1 /\ B[i] = CR
      /\ \A j \in 1 .. nb - 1 : B[j] = CR /\ B[j + 1] = LF => i <= j
  BY DEF FirstEnd
<1> USE <1>0
<1> HIDE DEF e, E, f, c
<1>9. ~(nx + i <= c)
  <2> SUFFICES ASSUME nx + i <= c PROVE FALSE
    OBVIOUS
  <2>1. nx + i \in 1 .. c /\ b + i = e + (nx + i) /\ i \in 1 .. nb
    BY <1>1, <1>2, <1>4
  <2> QED
    BY <2>1, <1>4, <1>7
<1>10. ~(c + 1 <= nx)
  <2> SUFFICES ASSUME c + 1 <= nx PROVE FALSE
    OBVIOUS
  <2>1. c + 1 \in 1 .. nx /\ e + (c + 1) = e + c + 1
    BY <1>1, <1>4
  <2> QED
    BY <2>1, <1>4, <1>6
<1>11. ~(nx < c + 1 /\ c + 1 < nx + i)
  <2> SUFFICES ASSUME nx < c + 1, c + 1 < nx + i PROVE FALSE
    OBVIOUS
  <2> DEFINE j == c + 1 - nx
  <2>1. /\ j \in 1 .. nb - 1 /\ j \in 1 .. nb /\ j + 1 \in 1 .. nb /\ j < i
        /\ b + j = e + c + 1 /\ b + (j + 1) = (e + c + 1) + 1 /\ e + c + 1 \in 1 .. E
    BY <1>1, <1>2, <1>4, <1>5
  <2> HIDE DEF j
  <2>2. T[e + c + 1] = CR /\ T[(e + c + 1) + 1] = LF
    BY <2>1, <1>4, <1>8
  <2>3. B[j] = CR /\ B[j + 1] = LF
    BY <2>1, <2>2, <1>7
  <2>4. i <= j
    BY <2>1, <2>3
  <2> QED
    BY <2>1, <2>4, <1>1
<1>12. c = nx + (i - 1)
  BY <1>4, <1>9, <1>10, <1>11
<1>13. \A j \in 1 .. nx : X[j] = s[h + 1][j]
  <2>1. \A j \in 1 .. nx : j \in 1 .. c
    BY <1>12, <1>4
  <2> QED
    BY <2>1, <1>4, <1>6
<1>14. ASSUME NEW j \in 1 .. i - 1 PROVE B[j] = s[h + 1][nx + j]
  <2>1. j \in 1 .. nb /\ nx + j \in 1 .. c /\ b + j = e + (nx + j)
    BY <1>1, <1>2, <1>12
  <2> QED
    BY <2>1, <1>4, <1>7
<1>15. b + i + 1 = f
  BY <1>1, <1>2, <1>4, <1>12
<1> QED
  BY <1>3, <1>12, <1>13, <1>14, <1>15 DEF Yields, c, f

(* Bytes of the stream without a CRLF and without a CR at their end hold no *)
(* CR.                                                                      *)
LEMMA NoLineEnds ==
  ASSUME NEW n \in Nat, NEW s, NEW len, NEW T, NEW ends, Frame(T, ends, n, s, len),
         NEW b, NEW B, NEW nb \in Nat, NEW P, NEW np \in Nat,
         Behind(T, ends[n], b, B, nb, P, np),
         nb > 0 => B[nb] # CR,
         \A j \in 1 .. nb - 1 : ~(B[j] = CR /\ B[j + 1] = LF)
  PROVE  \A j \in 1 .. nb : B[j] # CR
<1> DEFINE E == ends[n]
<1> SUFFICES ASSUME NEW j \in 1 .. nb, B[j] = CR PROVE FALSE
  OBVIOUS
<1>1. E \in Nat /\ \A p \in 1 .. E : T[p] = CR => T[p + 1] = LF
  BY DEF Frame
<1>2. b \in Nat /\ b + nb + np = E /\ \A k \in 1 .. nb : B[k] = T[b + k]
  BY DEF Behind
<1> HIDE DEF E
<1>3. j # nb
  OBVIOUS
<1>4. /\ j \in 1 .. nb - 1 /\ j + 1 \in 1 .. nb /\ b + j \in 1 .. E
      /\ b + (j + 1) = (b + j) + 1
  BY <1>1, <1>2, <1>3
<1>5. B[j + 1] = LF
  BY <1>1, <1>2, <1>4
<1> QED
  BY <1>4, <1>5
(* Two texts put together, and a part of a text. *)
LEMMA Glue ==
  ASSUME NEW S, NEW a \in Seq(S), NEW b \in Seq(S)
  PROVE  /\ a \o b \in Seq(S) /\ Len(a \o b) = Len(a) + Len(b)
         /\ \A i \in 1 .. Len(a) : (a \o b)[i] = a[i]
         /\ \A i \in 1 .. Len(b) : (a \o b)[Len(a) + i] = b[i]
<1> DEFINE w == a \o b
           p == Len(a)
           q == Len(b)
<1>1. /\ w \in Seq(S) /\ Len(w) = p + q
      /\ \A i \in 1 .. p + q : w[i] = IF i <= p THEN a[i] ELSE b[i - p]
  BY ConcatProperties
<1>0. p \in Nat /\ q \in Nat
  BY LenProperties
<1> HIDE DEF w, p, q
<1>2. \A i \in 1 .. p + q : w[i] = IF i <= p THEN a[i] ELSE b[i - p]
  BY <1>1
<1>3. \A i \in 1 .. p : w[i] = a[i]
  BY <1>2, <1>0
<1>4. ASSUME NEW i \in 1 .. q PROVE w[p + i] = b[i]
  <2>1. p + i \in 1 .. p + q /\ ~(p + i <= p) /\ (p + i) - p = i
    BY <1>0
  <2> QED
    BY <1>2, <2>1
<1> QED
  BY <1>1, <1>3, <1>4 DEF w, p, q

LEMMA Cut ==
  ASSUME NEW S, NEW s \in Seq(S), NEW from \in 1 .. Len(s) + 1,
         NEW to \in 0 .. Len(s), from <= to + 1
  PROVE  /\ SubSeq(s, from, to) \in Seq(S)
         /\ Len(SubSeq(s, from, to)) = to - from + 1
         /\ \A i \in 1 .. to - from + 1 : SubSeq(s, from, to)[i] = s[from + i - 1]
<1>1. Len(s) \in Nat /\ \A i \in 1 .. Len(s) : s[i] \in S
  BY LenProperties, ElementOfSeq
<1> DEFINE k == Len(s)
<1>2. from \in Int /\ to \in Int /\ \A i \in from .. to : i \in 1 .. k
  <2>1. k \in Nat /\ from \in 1 .. k + 1 /\ to \in 0 .. k
    BY <1>1
  <2> HIDE DEF k
  <2> QED
    BY <2>1
<1>3. \A i \in from .. to : s[i] \in S
  BY <1>1, <1>2
<1> DEFINE w == SubSeq(s, from, to)
<1>4. /\ w \in Seq(S) /\ Len(w) = IF from <= to THEN to - from + 1 ELSE 0
      /\ \A i \in 1 .. to - from + 1 : w[i] = s[from + i - 1]
  BY <1>2, <1>3, SubSeqProperties
<1> DEFINE l == Len(w)
<1>5. l = to - from + 1
  <2>1. l = IF from <= to THEN to - from + 1 ELSE 0
    BY <1>4
  <2> HIDE DEF l
  <2> QED
    BY <2>1, <1>2
<1> QED
  BY <1>4, <1>5

-----------------------------------------------------------------------------
Lengths == [k \in 1 .. Len(sent) |-> Len(sent[k])]

(* What the server wrote is a stream T; buffer and pending are what of it is *)
(* behind byte b; line is the next message, or what lies between the last    *)
(* message handled and byte b.                                               *)
At(T, ends, b) ==
    /\ Frame(T, ends, Len(sent), sent, Lengths)
    /\ Behind(T, ends[Len(sent)], b, buffer, Len(buffer), pending, Len(pending))
    /\ IF pc = "process"
       THEN /\ Len(handled) < Len(sent)
            /\ line = sent[Len(handled) + 1] /\ b = ends[Len(handled) + 1]
       ELSE Before(T, ends[Len(handled)], b, line, Len(line))

(* No read ends with a CR, and recv is called when all has been cut. *)
WholeTerminators ==
    /\ pc = "recv" => buffer = <<>>
    /\ buffer # <<>> => buffer[Len(buffer)] # CR

FramedType ==
    /\ BytesType /\ LineFits
    /\ sent \in Seq(Messages) /\ handled \in Seq(Messages)
    /\ pc \in {"recv", "split", "process", "ended"}
    /\ Len(handled) <= Len(sent)

Framed == FramedType /\ WholeTerminators /\ \E T, ends, b : At(T, ends, b)

(* The lengths are numbers. *)
LEMMA Numbers ==
  ASSUME FramedType
  PROVE  /\ Len(sent) \in Nat /\ Len(handled) \in Nat /\ Len(handled) \in 0 .. Len(sent)
         /\ Len(buffer) \in Nat /\ Len(pending) \in Nat /\ Len(line) \in Nat
<1>1. /\ Len(sent) \in Nat /\ Len(handled) \in Nat
      /\ Len(buffer) \in Nat /\ Len(pending) \in Nat /\ Len(line) \in Nat
  BY LenProperties DEF FramedType, BytesType
<1>2. Len(handled) <= Len(sent)
  BY DEF FramedType
<1> QED
  BY <1>1, <1>2

(* What recv has not returned yet grows with the stream. *)
LEMMA BehindGrows ==
  ASSUME NEW T, NEW T2, NEW E \in Nat, NEW c \in Nat, NEW m,
         Extends(T, T2, E, c, m),
         NEW b, NEW B, NEW nb \in Nat, NEW P, NEW np \in Nat, Behind(T, E, b, B, nb, P, np),
         NEW P2, Extends(P, P2, np, c, m)
  PROVE  Behind(T2, E + c + 2, b, B, nb, P2, np + c + 2) /\ b \in Nat /\ b <= E
<1>1. /\ b \in Nat /\ b + nb + np = E
      /\ \A i \in 1 .. nb : B[i] = T[b + i]
      /\ \A i \in 1 .. np : P[i] = T[b + nb + i]
  BY DEF Behind
<1>0. /\ \A p \in 1 .. E : T2[p] = T[p]
      /\ \A i \in 1 .. c : T2[E + i] = m[i]
      /\ T2[E + c + 1] = CR /\ T2[E + c + 2] = LF
      /\ \A p \in 1 .. np : P2[p] = P[p]
      /\ \A i \in 1 .. c : P2[np + i] = m[i]
      /\ P2[np + c + 1] = CR /\ P2[np + c + 2] = LF
  BY DEF Extends
<1>2. \A i \in 1 .. nb : B[i] = T2[b + i]
  <2>1. \A i \in 1 .. nb : b + i \in 1 .. E
    BY <1>1
  <2> QED
    BY <2>1, <1>0, <1>1
<1>3. ASSUME NEW i \in 1 .. np + c + 2 PROVE P2[i] = T2[b + nb + i]
  <2>1. CASE i <= np
    <3>1. i \in 1 .. np /\ b + nb + i \in 1 .. E
      BY <2>1, <1>1, <1>3
    <3> QED
      BY <3>1, <1>0, <1>1
  <2>2. CASE i > np /\ i <= np + c
    <3> DEFINE j == i - np
    <3>1. j \in 1 .. c /\ i = np + j /\ b + nb + i = E + j
      BY <2>2, <1>1, <1>3
    <3> HIDE DEF j
    <3> QED
      BY <3>1, <1>0
  <2>3. CASE i = np + c + 1
    <3>1. b + nb + i = E + c + 1
      BY <2>3, <1>1
    <3> QED
      BY <3>1, <2>3, <1>0
  <2>4. CASE i = np + c + 2
    <3>1. b + nb + i = E + c + 2
      BY <2>4, <1>1
    <3> QED
      BY <3>1, <2>4, <1>0
  <2> QED
    BY <1>3, <2>1, <2>2, <2>3, <2>4
<1>4. b + nb + (np + c + 2) = E + c + 2 /\ b <= E
  BY <1>1
<1> QED
  BY <1>1, <1>2, <1>3, <1>4 DEF Behind

(* A write: the stream grows at its end. *)
LEMMA Written ==
  ASSUME FramedType, NEW m \in Messages, Write(m), NEW T, NEW ends, NEW b, At(T, ends, b)
  PROVE  \E T2, ends2 : At(T2, ends2, b)'
<1> DEFINE n == Len(sent)
           h == Len(handled)
           E == ends[n]
           c == Len(m)
           nb == Len(buffer)
           np == Len(pending)
           nx == Len(line)
<1>1. n \in Nat /\ h \in 0 .. n /\ nb \in Nat /\ np \in Nat /\ nx \in Nat
  BY Numbers
<1>2. /\ c \in Nat /\ m \in Seq(Bytes)
      /\ \A i \in 1 .. c : m[i] \in Bytes /\ m[i] # CR
  BY NoCrInside
<1>3. /\ sent' = Append(sent, m) /\ pending' = pending \o m \o <<CR, LF>>
      /\ buffer' = buffer /\ line' = line /\ handled' = handled /\ pc' = pc
  BY DEF Write
<1>4. /\ Len(sent') = n + 1 /\ sent'[n + 1] = m
      /\ \A k \in 1 .. n : sent'[k] = sent[k]
  BY <1>3, AppendProperties DEF FramedType
<1> DEFINE len == Lengths
           len2 == Lengths'
<1>5. /\ len2[n + 1] = c
      /\ \A k \in 1 .. n : len2[k] = len[k]
  <2>1. /\ len = [k \in 1 .. n |-> Len(sent[k])]
        /\ len2 = [k \in 1 .. n + 1 |-> Len(sent'[k])]
    BY <1>4 DEF Lengths
  <2>2. n + 1 \in 1 .. n + 1 /\ \A k \in 1 .. n : k \in 1 .. n + 1
    BY <1>1
  <2> HIDE DEF n, len, len2
  <2> QED
    BY <2>1, <2>2, <1>4
<1>6. /\ Frame(T, ends, n, sent, len)
      /\ Behind(T, E, b, buffer, nb, pending, np)
      /\ IF pc = "process"
         THEN h < n /\ line = sent[h + 1] /\ b = ends[h + 1]
         ELSE Before(T, ends[h], b, line, nx)
  BY DEF At
<1>7. /\ Len(pending') = np + c + 2
      /\ Extends(pending, pending', np, c, m)
  <2> DEFINE u == pending \o m
             v == <<CR, LF>>
  <2>1. pending \in Seq(Bytes)
    BY DEF FramedType, BytesType
  <2>2. /\ u \in Seq(Bytes) /\ Len(u) = np + c
        /\ \A i \in 1 .. np : u[i] = pending[i]
        /\ \A i \in 1 .. c : u[np + i] = m[i]
    BY <2>1, <1>2, Glue
  <2>3. v \in Seq(Bytes) /\ Len(v) = 2 /\ v[1] = CR /\ v[2] = LF
    BY DEF Bytes
  <2> DEFINE w == u \o v
             nu == Len(u)
  <2>4. /\ Len(w) = nu + Len(v)
        /\ \A i \in 1 .. nu : w[i] = u[i]
        /\ \A i \in 1 .. Len(v) : w[nu + i] = v[i]
    <3>1. u \in Seq(Bytes) /\ v \in Seq(Bytes)
      BY <2>2, <2>3
    <3> HIDE DEF u, v
    <3> QED
      BY <3>1, Glue
  <2>5. pending' = w
    BY <1>3
  <2> DEFINE nw == Len(w)
  <2>6. nw = nu + 2 /\ \A i \in 1 .. 2 : w[nu + i] = v[i]
    BY <2>3, <2>4
  <2> HIDE DEF n, E, c, np, nw, u, v, w, nu
  <2>7. /\ nw = np + c + 2
        /\ w[np + c + 1] = CR /\ w[np + c + 2] = LF
    <3>1. nu = np + c /\ 1 \in 1 .. 2 /\ 2 \in 1 .. 2
      BY <2>2 DEF nu
    <3> QED
      BY <3>1, <2>6, <2>3
  <2>8. /\ \A i \in 1 .. np : w[i] = pending[i]
        /\ \A i \in 1 .. c : w[np + i] = m[i]
    <3>1. nu = np + c
      BY <2>2 DEF nu
    <3>2. /\ \A i \in 1 .. np : i \in 1 .. nu
          /\ \A i \in 1 .. c : np + i \in 1 .. nu
      BY <3>1, <1>1, <1>2
    <3> QED
      BY <3>2, <2>2, <2>4
  <2>9. Extends(pending, w, np, c, m)
    BY <2>7, <2>8 DEF Extends
  <2> QED
    BY <2>5, <2>7, <2>9 DEF nw
<1> HIDE DEF n, h, E, c, nb, np, nx, len, len2
<1>8. PICK T2, ends2 :
        /\ Frame(T2, ends2, n + 1, sent', len2)
        /\ ends[n] \in Nat /\ ends2[n + 1] = ends[n] + c + 2
        /\ \A k \in 0 .. n : ends2[k] = ends[k]
        /\ Extends(T, T2, ends[n], c, m)
  <2>1. \A k \in 1 .. n : sent'[k] = sent[k] /\ len2[k] = len[k]
    BY <1>4, <1>5
  <2>2. Frame(T, ends, n, sent, len) /\ n \in Nat /\ c \in Nat
    BY <1>1, <1>2, <1>6
  <2>3. sent'[n + 1] = m /\ len2[n + 1] = c /\ \A i \in 1 .. c : m[i] \in Bytes /\ m[i] # CR
    BY <1>2, <1>4, <1>5
  <2> QED
    BY <2>1, <2>2, <2>3, FrameGrows
<1>9. /\ E \in Nat /\ E = ends[n]
  BY <1>8 DEF E
<1>10. /\ Behind(T2, E + c + 2, b, buffer, nb, pending', np + c + 2)
       /\ b \in Nat /\ b <= E
  BY <1>1, <1>2, <1>6, <1>7, <1>8, <1>9, BehindGrows, ZenonT(60)
<1>11. CASE pc = "process"
  <2>1. h < n /\ line = sent[h + 1] /\ b = ends[h + 1]
    BY <1>6, <1>11
  <2>2. h + 1 \in 1 .. n /\ h + 1 \in 0 .. n
    BY <2>1, <1>1
  <2>3. h < n + 1 /\ line = sent'[h + 1] /\ b = ends2[h + 1]
    BY <2>1, <2>2, <1>1, <1>4, <1>8
  <2> QED
    BY <2>3, <1>3, <1>4, <1>7, <1>8, <1>9, <1>10, <1>11 DEF At, h, nb, len2
<1>12. CASE pc # "process"
  <2> DEFINE e == ends[h]
  <2>1. b = e + nx /\ \A i \in 1 .. nx : line[i] = T[e + i] /\ line[i] # CR
    BY <1>6, <1>12 DEF Before
  <2>2. e \in Nat
    BY <1>1, <1>6 DEF Frame
  <2>3. e = ends2[h]
    BY <1>1, <1>8
  <2> HIDE DEF e
  <2>4. \A i \in 1 .. nx : e + i \in 1 .. E
    BY <2>1, <2>2, <1>1, <1>9, <1>10
  <2>5. \A i \in 1 .. nx : line[i] = T2[e + i] /\ line[i] # CR
    BY <2>1, <2>4, <1>8, <1>9 DEF Extends
  <2>6. Before(T2, ends2[h], b, line, nx)
    BY <2>1, <2>3, <2>5 DEF Before
  <2> QED
    BY <2>6, <1>3, <1>4, <1>7, <1>8, <1>9, <1>10, <1>12 DEF At, h, nb, nx, len2
<1> QED
  BY <1>11, <1>12

(* The bytes of what recv returned become the ones to be cut. *)
LEMMA Received ==
  ASSUME FramedType, pc = "recv", buffer = <<>>, NEW k \in 1 .. MaxRead, Recv(k),
         NEW T, NEW ends, NEW b, At(T, ends, b)
  PROVE  /\ At(T, ends, b)'
         /\ SplitTerminators = FALSE => WholeTerminators'
<1> DEFINE n == Len(sent)
           h == Len(handled)
           E == ends[n]
           np == Len(pending)
           nx == Len(line)
           B == SubSeq(pending, 1, k)
           P == SubSeq(pending, k + 1, np)
<1>1. np \in Nat /\ k \in Nat /\ 1 <= k /\ k <= np
  BY Numbers, FramingAssumption DEF Recv
<1>2. pending \in Seq(Bytes) /\ Len(buffer) = 0
  BY DEF FramedType, BytesType
<1>3. /\ Frame(T, ends, n, sent, Lengths)
      /\ Behind(T, E, b, buffer, 0, pending, np)
      /\ Before(T, ends[h], b, line, nx)
  BY <1>2 DEF At
<1>4. /\ sent' = sent /\ handled' = handled /\ line' = line /\ pc' = "split"
      /\ buffer' = B /\ pending' = P /\ (SplitTerminators \/ pending[k] # CR)
  BY DEF Recv
<1>5. /\ 1 \in 1 .. np + 1 /\ k \in 0 .. np /\ 1 <= k + 1
      /\ k + 1 \in 1 .. np + 1 /\ np \in 0 .. np /\ k + 1 <= np + 1
  <2> HIDE DEF np
  <2> QED
    BY <1>1
<1> DEFINE nB == Len(B)
           nP == Len(P)
<1>6. /\ nB = k - 1 + 1 /\ \A i \in 1 .. k - 1 + 1 : B[i] = pending[1 + i - 1]
      /\ nP = np - (k + 1) + 1
      /\ \A i \in 1 .. np - (k + 1) + 1 : P[i] = pending[(k + 1) + i - 1]
  BY <1>2, <1>5, Cut
<1>7. b \in Nat /\ b + 0 + np = E /\ \A i \in 1 .. np : pending[i] = T[b + 0 + i]
  BY <1>3 DEF Behind
<1> HIDE DEF np, nB, nP, B, P, E
<1>8. /\ nB = k /\ \A i \in 1 .. k : B[i] = pending[i]
      /\ nP = np - k /\ \A i \in 1 .. np - k : P[i] = pending[k + i]
  <2>1. nB = k /\ nP = np - k
    BY <1>1, <1>6
  <2>2. ASSUME NEW i \in 1 .. k PROVE B[i] = pending[i]
    <3>1. i \in 1 .. k - 1 + 1 /\ 1 + i - 1 = i
      BY <1>1
    <3> QED
      BY <3>1, <1>6
  <2>3. ASSUME NEW i \in 1 .. np - k PROVE P[i] = pending[k + i]
    <3>1. i \in 1 .. np - (k + 1) + 1 /\ (k + 1) + i - 1 = k + i
      BY <1>1
    <3> QED
      BY <3>1, <1>6
  <2> QED
    BY <2>1, <2>2, <2>3
<1>9. Behind(T, E, b, B, nB, P, nP)
  <2>1. b + nB + nP = E
    BY <1>1, <1>7, <1>8
  <2>2. ASSUME NEW i \in 1 .. nB PROVE B[i] = T[b + i]
    <3>1. i \in 1 .. k /\ i \in 1 .. np /\ b + 0 + i = b + i
      BY <1>1, <1>7, <1>8
    <3> QED
      BY <3>1, <1>7, <1>8
  <2>3. ASSUME NEW i \in 1 .. nP PROVE P[i] = T[b + nB + i]
    <3>1. i \in 1 .. np - k /\ k + i \in 1 .. np /\ b + nB + i = b + 0 + (k + i)
      BY <1>1, <1>7, <1>8
    <3> QED
      BY <3>1, <1>7, <1>8
  <2> QED
    BY <1>7, <2>1, <2>2, <2>3 DEF Behind
<1>10. Lengths' = Lengths
  BY <1>4 DEF Lengths
<1>11. At(T, ends, b)'
  BY <1>3, <1>4, <1>9, <1>10 DEF At, nB, nP, E
<1>12. k \in 1 .. k /\ nB = k
  BY <1>1, <1>8
<1>13. SplitTerminators = FALSE => B[nB] # CR
  BY <1>4, <1>8, <1>12
<1> QED
  BY <1>4, <1>11, <1>13 DEF WholeTerminators, nB

(* The first CRLF that strstr finds ends the next message, and line_buffer  *)
(* then holds that message.                                                 *)
LEMMA LineCompleted ==
  ASSUME FramedType, WholeTerminators, CompleteLine, NEW T, NEW ends, NEW b, At(T, ends, b)
  PROVE  (\E b2 : At(T, ends, b2)') /\ WholeTerminators'
<1> DEFINE n == Len(sent)
           h == Len(handled)
           E == ends[n]
           e == ends[h]
           nb == Len(buffer)
           np == Len(pending)
           nx == Len(line)
<1>1. n \in Nat /\ h \in 0 .. n /\ nb \in Nat /\ np \in Nat /\ nx \in Nat
  BY Numbers
<1>2. PICK i \in Terminators(buffer) :
        /\ \A j \in Terminators(buffer) : i <= j
        /\ AppendToLine(SubSeq(buffer, 1, i - 1))
        /\ buffer' = SubSeq(buffer, i + 2, Len(buffer))
  BY DEF CompleteLine, AfterLine
<1> DEFINE L == SubSeq(buffer, 1, i - 1)
           R == SubSeq(buffer, i + 2, nb)
           nL == Len(L)
           nR == Len(R)
<1>3. /\ line' = line \o L /\ buffer' = R /\ pc = "split" /\ pc' = "process"
      /\ sent' = sent /\ pending' = pending /\ handled' = handled
  BY <1>2 DEF CompleteLine, AppendToLine
<1>4. i \in 1 .. nb - 1 /\ FirstEnd(buffer, nb, i)
  BY <1>2 DEF Terminators, FirstEnd
<1>5. /\ Frame(T, ends, n, sent, Lengths)
      /\ Behind(T, E, b, buffer, nb, pending, np)
      /\ Before(T, e, b, line, nx)
  BY <1>3 DEF At
<1>6. buffer \in Seq(Bytes) /\ line \in Seq(Bytes)
  BY DEF FramedType, BytesType
<1>7. /\ 1 \in 1 .. nb + 1 /\ i - 1 \in 0 .. nb /\ 1 <= (i - 1) + 1
      /\ i + 2 \in 1 .. nb + 1 /\ nb \in 0 .. nb /\ i + 2 <= nb + 1
  <2> HIDE DEF nb
  <2> QED
    BY <1>1, <1>4
<1>8. /\ L \in Seq(Bytes) /\ nL = (i - 1) - 1 + 1
      /\ \A j \in 1 .. (i - 1) - 1 + 1 : L[j] = buffer[1 + j - 1]
      /\ R \in Seq(Bytes) /\ nR = nb - (i + 2) + 1
      /\ \A j \in 1 .. nb - (i + 2) + 1 : R[j] = buffer[(i + 2) + j - 1]
  BY <1>6, <1>7, Cut
<1> HIDE DEF nb, np, nx, n, h, e, E, L, R, nL, nR
<1>9. /\ nL = i - 1 /\ \A j \in 1 .. i - 1 : L[j] = buffer[j]
      /\ nR = nb - i - 1 /\ \A j \in 1 .. nb - i - 1 : R[j] = buffer[i + 1 + j]
  <2>1. nL = i - 1 /\ nR = nb - i - 1
    BY <1>1, <1>4, <1>8
  <2>2. ASSUME NEW j \in 1 .. i - 1 PROVE L[j] = buffer[j]
    <3>1. j \in 1 .. (i - 1) - 1 + 1 /\ 1 + j - 1 = j
      BY <1>1, <1>4
    <3> QED
      BY <3>1, <1>8
  <2>3. ASSUME NEW j \in 1 .. nb - i - 1 PROVE R[j] = buffer[i + 1 + j]
    <3>1. j \in 1 .. nb - (i + 2) + 1 /\ (i + 2) + j - 1 = i + 1 + j
      BY <1>1, <1>4
    <3> QED
      BY <3>1, <1>8
  <2> QED
    BY <2>1, <2>2, <2>3
<1>10. /\ h < n /\ Lengths[h + 1] = nx + (i - 1)
       /\ \A j \in 1 .. nx : line[j] = sent[h + 1][j]
       /\ \A j \in 1 .. i - 1 : buffer[j] = sent[h + 1][nx + j]
       /\ b + i + 1 = ends[h + 1]
  <2>1. Behind(T, ends[n], b, buffer, nb, pending, np) /\ Before(T, ends[h], b, line, nx)
    BY <1>5 DEF e, E
  <2>2. Frame(T, ends, n, sent, Lengths)
    BY <1>5
  <2>3. /\ h < n /\ b + i + 1 = ends[h + 1]
        /\ Yields(sent[h + 1], Lengths[h + 1], line, nx, buffer, i - 1)
    BY <2>1, <2>2, <1>1, <1>4, LineEnds
  <2> QED
    BY <2>3 DEF Yields
<1>11. line' = sent[h + 1]
  <2> DEFINE c == Len(sent[h + 1])
  <2>1. h + 1 \in 1 .. n
    BY <1>1, <1>10
  <2>2. sent[h + 1] \in Messages
    BY <2>1, ElementOfSeq DEF FramedType, n
  <2>3. sent[h + 1] \in Seq(Bytes)
    BY <2>2, NoCrInside
  <2>4. c = nx + (i - 1)
    BY <2>1, <1>10 DEF Lengths, n
  <2> DEFINE w == line \o L
             nw == Len(w)
  <2>5. /\ w \in Seq(Bytes) /\ nw = nx + nL
        /\ \A j \in 1 .. nx : w[j] = line[j]
        /\ \A j \in 1 .. nL : w[nx + j] = L[j]
    <3>1. line \in Seq(Bytes) /\ L \in Seq(Bytes)
      BY <1>6, <1>8
    <3> QED
      BY <3>1, Glue DEF nx, nL
  <2> HIDE DEF w, nw, c
  <2>6. nw = c
    BY <2>4, <2>5, <1>9
  <2>7. ASSUME NEW j \in 1 .. nw PROVE w[j] = sent[h + 1][j]
    <3>1. CASE j <= nx
      <4>1. j \in 1 .. nx
        BY <3>1, <2>7
      <4> QED
        BY <4>1, <2>5, <1>10
    <3>2. CASE j > nx
      <4> DEFINE d == j - nx
      <4>1. d \in 1 .. i - 1 /\ j = nx + d
        BY <3>2, <2>4, <2>6, <1>1, <1>4
      <4> HIDE DEF d
      <4> QED
        BY <4>1, <2>5, <1>9, <1>10
    <3> QED
      BY <3>1, <3>2, <1>1
  <2>8. w = sent[h + 1]
    BY <2>3, <2>5, <2>6, <2>7, SeqEqual DEF nw, c
  <2> QED
    BY <2>8, <1>3 DEF w
<1>12. Behind(T, E, b + i + 1, R, nR, pending, np)
  <2>1. /\ b \in Nat /\ b + nb + np = E
        /\ \A j \in 1 .. nb : buffer[j] = T[b + j]
        /\ \A j \in 1 .. np : pending[j] = T[b + nb + j]
    BY <1>5 DEF Behind
  <2>2. b + i + 1 \in Nat /\ (b + i + 1) + nR = b + nb
    BY <2>1, <1>1, <1>4, <1>9
  <2>3. ASSUME NEW j \in 1 .. nR PROVE R[j] = T[(b + i + 1) + j]
    <3>1. j \in 1 .. nb - i - 1 /\ i + 1 + j \in 1 .. nb /\ b + (i + 1 + j) = (b + i + 1) + j
      BY <2>1, <1>1, <1>4, <1>9
    <3> QED
      BY <3>1, <2>1, <1>9
  <2> QED
    BY <2>1, <2>2, <2>3 DEF Behind
<1>13. Lengths' = Lengths
  BY <1>3 DEF Lengths
<1>14. At(T, ends, b + i + 1)'
  BY <1>3, <1>5, <1>10, <1>11, <1>12, <1>13 DEF At, E, nR, np, n, h
<1>15. WholeTerminators'
  <2>1. nR = 0 \/ nR \in 1 .. nb - i - 1
    BY <1>1, <1>4, <1>9
  <2>2. CASE nR = 0
    <3>1. R = <<>>
      BY <2>2, <1>8, EmptySeq DEF nR
    <3> QED
      BY <3>1, <1>3 DEF WholeTerminators
  <2>3. CASE nR \in 1 .. nb - i - 1
    <3>1. i + 1 + nR = nb
      BY <2>3, <1>1, <1>4, <1>9
    <3>2. R[nR] = buffer[nb]
      BY <2>3, <3>1, <1>9
    <3>3. buffer # <<>>
      BY <1>1, <1>4, <1>7 DEF nb
    <3>4. R[nR] # CR
      BY <3>2, <3>3 DEF WholeTerminators, nb
    <3> QED
      BY <3>4, <1>3 DEF WholeTerminators, nR
  <2> QED
    BY <2>1, <2>2, <2>3
<1> QED
  BY <1>14, <1>15

(* What is left of the read is the beginning of the next message. *)
LEMMA RestSaved ==
  ASSUME FramedType, WholeTerminators, SaveRest, NEW T, NEW ends, NEW b, At(T, ends, b)
  PROVE  (\E b2 : At(T, ends, b2)') /\ WholeTerminators'
<1> DEFINE n == Len(sent)
           h == Len(handled)
           E == ends[n]
           e == ends[h]
           nb == Len(buffer)
           np == Len(pending)
           nx == Len(line)
<1>1. n \in Nat /\ h \in 0 .. n /\ nb \in Nat /\ np \in Nat /\ nx \in Nat
  BY Numbers
<1>2. /\ sent' = sent /\ pending' = pending /\ handled' = handled /\ buffer' = <<>>
      /\ pc = "split" /\ pc' = "recv" /\ Terminators(buffer) = {}
      /\ line' = IF buffer = <<>> THEN line ELSE line \o buffer
  BY DEF SaveRest, AppendToLine
<1>3. /\ Frame(T, ends, n, sent, Lengths)
      /\ Behind(T, E, b, buffer, nb, pending, np)
      /\ Before(T, e, b, line, nx)
  BY <1>2 DEF At
<1>4. buffer \in Seq(Bytes) /\ line \in Seq(Bytes)
  BY DEF FramedType, BytesType
<1> DEFINE w == line \o buffer
           nw == Len(w)
<1>5. /\ nw = nx + nb
      /\ \A j \in 1 .. nx : w[j] = line[j]
      /\ \A j \in 1 .. nb : w[nx + j] = buffer[j]
  BY <1>4, Glue
<1>6. \A j \in 1 .. nb - 1 : ~(buffer[j] = CR /\ buffer[j + 1] = LF)
  BY <1>2 DEF Terminators
<1>7. nb > 0 => buffer[nb] # CR
  BY <1>4, EmptySeq DEF WholeTerminators
<1>8. buffer = <<>> => nb = 0
  OBVIOUS
<1>9. Len(buffer') = 0 /\ Lengths' = Lengths
  BY <1>2 DEF Lengths
<1> HIDE DEF n, h, nb, np, nx, w, nw
<1>10. \A j \in 1 .. nb : buffer[j] # CR
  BY <1>1, <1>3, <1>6, <1>7, NoLineEnds, ZenonT(60)
<1> HIDE DEF e, E
<1>11. /\ b \in Nat /\ b + nb + np = E
       /\ \A j \in 1 .. nb : buffer[j] = T[b + j]
       /\ \A j \in 1 .. np : pending[j] = T[b + nb + j]
       /\ b = e + nx /\ \A j \in 1 .. nx : line[j] = T[e + j] /\ line[j] # CR
  BY <1>3 DEF Behind, Before
<1>12. e \in Nat
  BY <1>1, <1>3 DEF Frame, e
<1>13. Behind(T, E, b + nb, <<>>, 0, pending, np)
  <2>1. b + nb \in Nat /\ (b + nb) + 0 + np = E /\ (b + nb) + 0 = b + nb
    BY <1>1, <1>11
  <2> QED
    BY <2>1, <1>11 DEF Behind
<1>14. Before(T, e, b + nb, line', Len(line'))
  <2>1. CASE buffer = <<>>
    <3>1. line' = line /\ b + nb = b
      BY <2>1, <1>2, <1>8, <1>11
    <3> QED
      BY <3>1, <1>3 DEF nx
  <2>2. CASE buffer # <<>>
    <3>1. line' = w
      BY <2>2, <1>2 DEF w
    <3>2. b + nb = e + nw
      BY <1>1, <1>5, <1>11, <1>12
    <3>3. ASSUME NEW j \in 1 .. nw PROVE w[j] = T[e + j] /\ w[j] # CR
      <4>1. CASE j <= nx
        <5>1. j \in 1 .. nx
          BY <4>1, <3>3
        <5> QED
          BY <5>1, <1>5, <1>11
      <4>2. CASE j > nx
        <5> DEFINE d == j - nx
        <5>1. d \in 1 .. nb /\ j = nx + d /\ e + j = b + d
          BY <4>2, <3>3, <1>1, <1>5, <1>11, <1>12
        <5> HIDE DEF d
        <5> QED
          BY <5>1, <1>5, <1>10, <1>11
      <4> QED
        BY <4>1, <4>2, <1>1
    <3> QED
      BY <3>1, <3>2, <3>3 DEF Before, nw
  <2> QED
    BY <2>1, <2>2
<1>15. PICK b2 : b2 = b + nb
  OBVIOUS
<1>16. At(T, ends, b2)'
  <2>1. /\ sent' = sent /\ pending' = pending /\ handled' = handled
        /\ buffer' = <<>> /\ pc' = "recv"
    BY <1>2
  <2>2. Behind(T, E, b2, buffer', Len(buffer'), pending', Len(pending'))
    BY <2>1, <1>9, <1>13, <1>15 DEF np
  <2> QED
    BY <2>1, <2>2, <1>3, <1>9, <1>14, <1>15 DEF At, n, h, e, E
<1>17. WholeTerminators'
  BY <1>2 DEF WholeTerminators
<1> QED
  BY <1>16, <1>17

(* The message that line_buffer holds is the next one, and is handled. *)
LEMMA MessageProcessed ==
  ASSUME FramedType, WholeTerminators, Process, NEW T, NEW ends, NEW b, At(T, ends, b)
  PROVE  /\ At(T, ends, b)' /\ WholeTerminators' /\ Stream!Handle
         /\ handled' \in Seq(Messages) /\ Len(handled') <= Len(sent)
<1> DEFINE n == Len(sent)
           h == Len(handled)
<1>1. n \in Nat /\ h \in 0 .. n
  BY Numbers
<1>2. /\ Frame(T, ends, n, sent, Lengths)
      /\ Behind(T, ends[n], b, buffer, Len(buffer), pending, Len(pending))
      /\ h < n /\ line = sent[h + 1] /\ b = ends[h + 1]
  BY DEF At, Process
<1>3. h + 1 \in 1 .. n /\ h + 1 <= n /\ h + 1 \in Nat
  BY <1>1, <1>2
<1>4. line \in Messages
  BY <1>2, <1>3, ElementOfSeq DEF FramedType
<1>5. /\ handled' = Append(handled, line) /\ line' = <<>> /\ Len(line') = 0
      /\ sent' = sent /\ buffer' = buffer /\ pending' = pending
      /\ pc = "process" /\ pc' = "split"
  BY DEF Process, Reset
<1>6. handled' \in Seq(Messages) /\ Len(handled') = h + 1
  BY <1>4, <1>5, AppendProperties DEF FramedType
<1>7. ends[h + 1] \in Nat
  BY <1>2, <1>3 DEF Frame
<1>8. Before(T, ends[h + 1], b, <<>>, 0)
  BY <1>2, <1>7 DEF Before
<1>9. Lengths' = Lengths
  BY <1>5 DEF Lengths
<1>10. At(T, ends, b)'
  BY <1>2, <1>5, <1>6, <1>8, <1>9 DEF At
<1>11. WholeTerminators' /\ Stream!Handle
  BY <1>2, <1>5 DEF WholeTerminators, Stream!Handle
<1> QED
  BY <1>3, <1>6, <1>10, <1>11

-----------------------------------------------------------------------------
(* At the start the stream is empty. *)
LEMMA FramedInit == Init => Framed
<1> SUFFICES ASSUME Init PROVE Framed
  OBVIOUS
<1> DEFINE T == [p \in Nat |-> LF]
           ends == [k \in Nat |-> 0]
<1>1. /\ sent = <<>> /\ pending = <<>> /\ buffer = <<>> /\ line = <<>>
      /\ handled = <<>> /\ capacity = 0 /\ pc = "recv"
  BY DEF Init
<1>2. Len(sent) = 0 /\ Len(pending) = 0 /\ Len(buffer) = 0 /\ Len(line) = 0 /\ Len(handled) = 0
  BY <1>1
<1>3. FramedType
  BY <1>1, <1>2, EmptySeq DEF FramedType, BytesType, LineFits
<1>4. WholeTerminators
  BY <1>1 DEF WholeTerminators
<1>5. T \in [Nat -> Bytes] /\ ends \in [Nat -> Nat] /\ ends[0] = 0
  BY DEF Bytes
<1> HIDE DEF T, ends
<1>6. Frame(T, ends, 0, sent, Lengths)
  BY <1>5 DEF Frame
<1>7. Behind(T, 0, 0, buffer, 0, pending, 0) /\ Before(T, 0, 0, line, 0)
  BY DEF Behind, Before
<1>8. At(T, ends, 0)
  BY <1>1, <1>2, <1>5, <1>6, <1>7 DEF At
<1> QED
  BY <1>3, <1>4, <1>8 DEF Framed

(* Every step keeps the description of the stream, and is a step of the     *)
(* abstract stream.                                                         *)
LEMMA FramedStep ==
  ASSUME SplitTerminators = FALSE, Framed, [Next]_vars
  PROVE  Framed' /\ [Stream!Next]_<<sent, handled>>
<1>0. FramedType /\ WholeTerminators
  BY DEF Framed
<1>1. PICK T, ends, b : At(T, ends, b)
  BY DEF Framed
<1>2. BytesType' /\ LineFits'
  BY <1>0, LineStep DEF FramedType
<1>3. Len(sent) \in Nat /\ Len(handled) \in Nat /\ Len(handled) <= Len(sent)
  BY <1>0, Numbers DEF FramedType
<1>4. ASSUME NEW m \in Messages, Write(m)
      PROVE  Framed' /\ Stream!Write(m)
  <2>1. \E T2, ends2 : At(T2, ends2, b)'
    BY <1>0, <1>1, <1>4, Written
  <2>2. sent' = Append(sent, m) /\ UNCHANGED <<buffer, handled, pc>>
    BY <1>4 DEF Write
  <2>3. sent' \in Seq(Messages) /\ Len(sent') = Len(sent) + 1
    BY <1>0, <2>2, AppendProperties DEF FramedType
  <2>4. Len(handled') <= Len(sent')
    BY <1>3, <2>2, <2>3
  <2>5. FramedType' /\ WholeTerminators'
    BY <1>0, <1>2, <2>2, <2>3, <2>4 DEF FramedType, WholeTerminators
  <2> QED
    BY <2>1, <2>2, <2>5 DEF Framed, Stream!Write
<1>5. ASSUME NEW k \in 1 .. MaxRead, Recv(k)
      PROVE  Framed' /\ UNCHANGED <<sent, handled>>
  <2>1. /\ pc = "recv" /\ pc' = "split" /\ UNCHANGED <<sent, handled>>
        /\ buffer = <<>>
    BY <1>0, <1>5 DEF Recv, WholeTerminators
  <2>2. At(T, ends, b)' /\ WholeTerminators'
    BY <1>0, <1>1, <1>5, <2>1, Received
  <2> QED
    BY <1>0, <1>2, <2>1, <2>2 DEF Framed, FramedType
<1>6. CASE CompleteLine
  <2>1. (\E b2 : At(T, ends, b2)') /\ WholeTerminators'
    BY <1>0, <1>1, <1>6, LineCompleted
  <2>2. pc' = "process" /\ UNCHANGED <<sent, handled>>
    BY <1>6 DEF CompleteLine
  <2> QED
    BY <1>0, <1>2, <2>1, <2>2 DEF Framed, FramedType
<1>7. CASE Process
  <2>1. /\ At(T, ends, b)' /\ WholeTerminators' /\ Stream!Handle
        /\ handled' \in Seq(Messages) /\ Len(handled') <= Len(sent)
    BY <1>0, <1>1, <1>7, MessageProcessed
  <2>2. pc' = "split" /\ sent' = sent
    BY <1>7 DEF Process
  <2> QED
    BY <1>0, <1>2, <2>1, <2>2 DEF Framed, FramedType, Stream!Next
<1>8. CASE SaveRest
  <2>1. (\E b2 : At(T, ends, b2)') /\ WholeTerminators'
    BY <1>0, <1>1, <1>8, RestSaved
  <2>2. pc' = "recv" /\ UNCHANGED <<sent, handled>>
    BY <1>8 DEF SaveRest
  <2> QED
    BY <1>0, <1>2, <2>1, <2>2 DEF Framed, FramedType
<1>9. CASE End \/ Ended \/ UNCHANGED vars
  <2>1. /\ UNCHANGED <<sent, pending, buffer, line, capacity, handled>>
        /\ pc' = pc \/ (pc = "recv" /\ pc' = "ended")
    BY <1>9 DEF End, Ended, vars
  <2>2. At(T, ends, b)' /\ WholeTerminators'
    BY <1>0, <1>1, <2>1 DEF At, WholeTerminators, Lengths
  <2>3. FramedType'
    BY <1>0, <1>2, <2>1 DEF FramedType
  <2> QED
    BY <2>1, <2>2, <2>3 DEF Framed
<1> QED
  BY <1>4, <1>5, <1>6, <1>7, <1>8, <1>9 DEF Next, Listener, Stream!Next

(* The listener's variables hold what their declarations say; above all,     *)
(* what it hands to process_tcp_message is always a whole message of the     *)
(* server, as long as no recv returns a CR without its LF.                   *)
THEOREM FramingTypes ==
  ASSUME SplitTerminators = FALSE
  PROVE  Spec => []TypeOK
<1>1. Framed => TypeOK
  BY DEF Framed, FramedType, BytesType, TypeOK
<1>2. Init => Framed
  BY FramedInit
<1>3. Framed /\ [Next]_vars => Framed'
  BY FramedStep
<1> QED
  BY <1>1, <1>2, <1>3, PTL DEF Spec

(* However recv cuts the stream, short of splitting a CRLF, tcp_listener     *)
(* hands on the server's messages whole, in order, and none twice: cutting   *)
(* at CRLF, the line buffer and the saved rest implement a stream of         *)
(* messages.  With a CRLF split they do not (see the run tcp_split_crlf).    *)
THEOREM FramingImplementsStream ==
  ASSUME SplitTerminators = FALSE
  PROVE  Spec => ImplementsMessageStream
<1>1. Init => Framed
  BY FramedInit
<1>2. Init => Stream!Init
  BY DEF Init, Stream!Init
<1>3. Framed /\ [Next]_vars => Framed' /\ [Stream!Next]_<<sent, handled>>
  BY FramedStep
<1> QED
  BY <1>1, <1>2, <1>3, PTL DEF Spec, ImplementsMessageStream, Stream!Spec

-----------------------------------------------------------------------------
(* Symbols are numbers, and no keyword is a character. *)
LEMMA Symbols ==
  /\ Character \subseteq Nat /\ SP \in Nat
  /\ {MSG, ERR, BYE, REPLY, FROM, IS, OK, NOK} \subseteq Nat
  /\ \A x, y \in {MSG, ERR, BYE, REPLY} : x # FROM /\ x # SP
  /\ MSG # ERR /\ MSG # BYE /\ MSG # REPLY /\ ERR # BYE /\ ERR # REPLY /\ BYE # REPLY
  /\ FROM # SP /\ IS # SP
  /\ {REPLY, IS, OK, NOK} \cap Blank = {} /\ SP \in Blank
BY DEF Character, SP, CR, LF, MSG, ERR, BYE, REPLY, FROM, IS, OK, NOK, Blank

(* The beginning of a text. *)
LEMMA PrefixIs ==
  ASSUME NEW s \in Seq(Nat), NEW u \in Seq(Nat)
  PROVE  IsPrefix(u, s) <=> Len(u) <= Len(s) /\ \A k \in 1 .. Len(u) : s[k] = u[k]
<1>1. Len(u) \in Nat /\ Len(s) \in Nat
  BY LenProperties
<1> QED
  BY <1>1 DEF IsPrefix
-----------------------------------------------------------------------------
(* The symbols of a MSG, ERR or BYE: their keywords, the name, the rest. *)
Named(t, k, name, n, rest, r) ==
    /\ t \in Seq(Nat) /\ Len(t) = 4 + n + r
    /\ Piece(t, 0, <<k, SP, FROM, SP>>, 4) /\ Piece(t, 4, name, n) /\ Piece(t, 4 + n, rest, r)

LEMMA NameStands ==
  ASSUME NEW k \in {MSG, ERR, BYE}, NEW name \in Seq(Nat), NEW rest \in Seq(Nat)
  PROVE  /\ Len(name) \in Nat /\ Len(rest) \in Nat
         /\ Named(<<k, SP, FROM, SP>> \o name \o rest, k, name, Len(name), rest, Len(rest))
<1> DEFINE h == <<k, SP, FROM, SP>>
           n == Len(name)
           hn == h \o name
           r == Len(rest)
           t == hn \o rest
<1>1. h \in Seq(Nat) /\ Len(h) = 4
  BY Symbols
<1> HIDE DEF h
<1>2. /\ hn \in Seq(Nat) /\ n \in Nat /\ Len(hn) = 4 + n
      /\ Piece(hn, 0, h, 4) /\ Piece(hn, 4, name, n)
  BY <1>1, Joined
<1> HIDE DEF hn
<1>3. /\ t \in Seq(Nat) /\ r \in Nat /\ Len(t) = 4 + n + r
      /\ Piece(t, 0, hn, 4 + n) /\ Piece(t, 4 + n, rest, r)
  <2>1. /\ t \in Seq(Nat) /\ r \in Nat /\ Len(t) = Len(hn) + r
        /\ Piece(t, 0, hn, Len(hn)) /\ Piece(t, Len(hn), rest, r)
    BY <1>2, Joined
  <2> HIDE DEF n, r, t
  <2> QED
    BY <2>1, <1>2
<1> HIDE DEF n, r, t
<1>4. Piece(t, 0 + 0, h, 4) /\ Piece(t, 0 + 4, name, n)
  <2>1. 0 + 4 <= 4 + n /\ 4 + n <= 4 + n /\ 4 + n \in Nat
    BY <1>2
  <2> QED
    BY <1>2, <1>3, <2>1, PieceOfPiece
<1>5. 0 + 0 = 0 /\ 0 + 4 = 4
  OBVIOUS
<1> QED
  BY <1>2, <1>3, <1>4, <1>5 DEF h, n, hn, r, t, Named

(* Where the readers of MSG, ERR and BYE look for the name. *)
LEMMA NameFound ==
  ASSUME NEW k \in {MSG, ERR, BYE}, NEW t, NEW name, NEW n \in Nat, NEW rest, NEW r \in Nat,
         Named(t, k, name, n, rest, r)
  PROVE  /\ t[1] = k /\ t[2] = SP /\ t[3] = FROM /\ t[4] = SP
         /\ HasFrom(t) /\ From(t) = 5
<1> DEFINE u == <<FROM, SP>>
           h == <<k, SP, FROM, SP>>
<1>0. FROM \in Nat /\ SP \in Nat /\ k # FROM /\ SP # FROM
  BY Symbols
<1>1. u \in Seq(Nat) /\ u # <<>> /\ Len(u) = 2 /\ u[1] = FROM /\ u[2] = SP
  BY <1>0
<1>2. t[1] = k /\ t[2] = SP /\ t[3] = FROM /\ t[4] = SP
  <2>1. h[1] = k /\ h[2] = SP /\ h[3] = FROM /\ h[4] = SP
    OBVIOUS
  <2> HIDE DEF h
  <2>2. \A i \in 1 .. 4 : t[0 + i] = h[i]
    BY DEF Named, Piece, h
  <2>3. 0 + 1 = 1 /\ 0 + 2 = 2 /\ 0 + 3 = 3 /\ 0 + 4 = 4 /\ {1, 2, 3, 4} \subseteq 1 .. 4
    OBVIOUS
  <2> QED
    BY <2>1, <2>2, <2>3
<1> HIDE DEF u, h
<1>3. \A i \in 1 .. Len(u) : t[3 + i - 1] = u[i]
  <2> SUFFICES ASSUME NEW i \in 1 .. 2 PROVE t[3 + i - 1] = u[i]
    BY <1>1
  <2>1. i = 1 \/ i = 2
    OBVIOUS
  <2>2. 3 + 1 - 1 = 3 /\ 3 + 2 - 1 = 4
    OBVIOUS
  <2> QED
    BY <1>1, <1>2, <2>1, <2>2
<1>4. \A j \in 1 .. 3 - 1 : t[j] # u[1]
  <2> SUFFICES ASSUME NEW j \in 1 .. 3 - 1 PROVE t[j] # FROM
    BY <1>1
  <2>1. j = 1 \/ j = 2
    OBVIOUS
  <2> QED
    BY <1>0, <1>2, <2>1
<1>5. Occurrences(t, u, 1) # {} /\ First(Occurrences(t, u, 1)) = 3
  <2>1. t \in Seq(Nat) /\ 3 + Len(u) <= Len(t) + 1 /\ 1 <= 3
    BY <1>1 DEF Named
  <2>2. FirstAt(t, u, 1, 3)
    BY <1>3, <1>4, <2>1 DEF FirstAt
  <2>3. 1 \in Nat \ {0} /\ 3 \in Nat
    OBVIOUS
  <2> QED
    BY <1>1, <2>1, <2>2, <2>3, FoundFirst
<1>6. 3 + 2 = 5
  OBVIOUS
<1> QED
  BY <1>2, <1>5, <1>6 DEF HasFrom, From, u

(* The name of a BYE is what follows the keywords. *)
LEMMA NameLast ==
  ASSUME NEW k \in {MSG, ERR, BYE}, NEW t, NEW name \in Seq(Nat), NEW rest,
         Named(t, k, name, Len(name), rest, 0)
  PROVE  SubSeq(t, From(t), Len(t)) = name
<1>1. Len(name) \in Nat /\ 0 \in Nat
  BY LenProperties
<1>2. From(t) = 5
  BY <1>1, NameFound
<1>3. t \in Seq(Nat) /\ Len(t) = 4 + Len(name) /\ Piece(t, 4, name, Len(name))
  BY <1>1 DEF Named
<1>4. SubSeq(t, 4 + 1, 4 + Len(name)) = name
  <2>1. 4 \in Nat /\ 4 + Len(name) <= Len(t)
    BY <1>1, <1>3
  <2> QED
    BY <1>3, <2>1, PieceIsPart
<1> QED
  BY <1>2, <1>3, <1>4

(* A name of a single word, and a separator behind it. *)
Separated(t, k, name, n, rest, r) ==
    /\ k \in {MSG, ERR, BYE} /\ n \in Nat /\ r \in Nat /\ r >= 3
    /\ Named(t, k, name, n, rest, r)
    /\ \A i \in 1 .. n : name[i] # SP
    /\ Piece(rest, 0, Spaced(IS), 3)

(* The first separator of a MSG or ERR is the one behind the name. *)
LEMMA SeparatorFound ==
  ASSUME NEW t, NEW k, NEW name, NEW n, NEW rest, NEW r, Separated(t, k, name, n, rest, r)
  PROVE  Separators(t) # {} /\ Separator(t) = 5 + n
<1>0. /\ k \in {MSG, ERR, BYE} /\ n \in Nat /\ r \in Nat /\ r >= 3
      /\ Named(t, k, name, n, rest, r)
      /\ \A i \in 1 .. n : name[i] # SP
      /\ Piece(rest, 0, Spaced(IS), 3)
  BY DEF Separated
<1> USE <1>0
<1> DEFINE u == Spaced(IS)
<1>1. From(t) = 5
  BY NameFound
<1>2. u \in Seq(Nat) /\ u # <<>> /\ Len(u) = 3 /\ u[1] = SP
  BY Symbols DEF Spaced
<1> HIDE DEF u
<1>3. Piece(t, 4 + n, u, 3)
  <2>1. 4 + n \in Nat /\ 0 \in Nat /\ 3 \in Nat /\ 0 + 3 <= r /\ (4 + n) + 0 = 4 + n
    OBVIOUS
  <2>2. Piece(t, (4 + n) + 0, u, 3)
    BY <2>1, PieceOfPiece DEF Named, u
  <2> QED
    BY <2>1, <2>2
<1>4. \A j \in 1 .. Len(u) : t[(5 + n) + j - 1] = u[j]
  <2>1. \A j \in 1 .. 3 : (5 + n) + j - 1 = 4 + n + j /\ t[4 + n + j] = u[j]
    BY <1>3 DEF Piece
  <2> QED
    BY <1>2, <2>1
<1>5. ASSUME NEW j \in 5 .. (5 + n) - 1 PROVE t[j] # u[1]
  <2>1. j - 4 \in 1 .. n /\ 4 + (j - 4) = j
    OBVIOUS
  <2>2. t[4 + (j - 4)] = name[j - 4]
    BY <2>1 DEF Named, Piece
  <2> QED
    BY <1>2, <2>1, <2>2
<1>6. FirstAt(t, u, 5, 5 + n)
  <2>1. 5 <= 5 + n /\ (5 + n) + Len(u) <= Len(t) + 1
    BY <1>2 DEF Named
  <2> QED
    BY <1>4, <1>5, <2>1 DEF FirstAt
<1>7. t \in Seq(Nat) /\ 5 \in Nat \ {0} /\ 5 + n \in Nat
  BY DEF Named
<1>8. Occurrences(t, u, 5) # {} /\ First(Occurrences(t, u, 5)) = 5 + n
  BY <1>2, <1>6, <1>7, FoundFirst
<1> QED
  BY <1>1, <1>8 DEF Separators, Separator, u

(* A name of the grammar fits. *)
LEMMA NameFits ==
  ASSUME NEW name \in Name
  PROVE  /\ name \in Seq(Nat) /\ Len(name) \in Nat
         /\ \A i \in 1 .. Len(name) : name[i] # SP
         /\ strncpy(name, MAX_DISPLAY_NAME_LEN) = name
<1>1. name \in Seq(Character \ {SP}) /\ Len(name) <= MAX_DISPLAY_NAME_LEN
  BY DEF Name
<1>2. Len(name) \in Nat /\ \A i \in 1 .. Len(name) : name[i] \in Character \ {SP}
  BY <1>1, LenProperties, ElementOfSeq
<1>3. name \in Seq(Nat)
  <2>1. Character \ {SP} \subseteq Nat
    BY Symbols
  <2> QED
    BY <1>1, <2>1, SeqMonotonic
<1>4. strncpy(name, MAX_DISPLAY_NAME_LEN) = name
  <2> DEFINE n == Len(name)
  <2>1. (IF n < MAX_DISPLAY_NAME_LEN THEN n ELSE MAX_DISPLAY_NAME_LEN) = n
    BY <1>1, <1>2, MaximumsAssumption
  <2>2. SubSeq(name, 1, n) = name
    BY <1>3, WholePart
  <2> QED
    BY <2>1, <2>2 DEF strncpy
<1> QED
  BY <1>2, <1>3, <1>4

(* What NameAndContent reads of a MSG or ERR is what was written. *)
LEMMA NameAndContentRead ==
  ASSUME NEW k \in {MSG, ERR, BYE}, NEW name \in Name, NEW content \in Seq(Nat), NEW type
  PROVE  NameAndContent(type, <<k, SP, FROM, SP>> \o name \o (Spaced(IS) \o content))
             = [type |-> type, name |-> name, content |-> content]
<1> DEFINE rest == Spaced(IS) \o content
           t == <<k, SP, FROM, SP>> \o name \o rest
           n == Len(name)
           r == Len(rest)
           c == Len(content)
<1>1. /\ name \in Seq(Nat) /\ n \in Nat /\ strncpy(name, MAX_DISPLAY_NAME_LEN) = name
      /\ \A i \in 1 .. n : name[i] # SP
  BY NameFits
<1>2. Spaced(IS) \in Seq(Nat) /\ Len(Spaced(IS)) = 3
  BY Symbols DEF Spaced
<1>3. /\ rest \in Seq(Nat) /\ c \in Nat /\ r = 3 + c
      /\ Piece(rest, 0, Spaced(IS), 3) /\ Piece(rest, 3, content, c)
  BY <1>2, Joined
<1> HIDE DEF rest
<1>4. Named(t, k, name, n, rest, r) /\ r \in Nat
  BY <1>1, <1>3, NameStands
<1> HIDE DEF t
<1>5. HasFrom(t) /\ From(t) = 5
  BY <1>1, <1>4, NameFound
<1>6. Separators(t) # {} /\ Separator(t) = 5 + n
  <2>1. r >= 3
    BY <1>3
  <2> HIDE DEF n, r, c
  <2>2. \A i \in 1 .. n : name[i] # SP
    BY <1>1
  <2>3. Piece(rest, 0, Spaced(IS), 3)
    BY <1>3
  <2>4. n \in Nat /\ r \in Nat
    BY <1>1, <1>4
  <2>5. Named(t, k, name, n, rest, r)
    BY <1>4
  <2>6. Separated(t, k, name, n, rest, r)
    BY <2>1, <2>2, <2>3, <2>4, <2>5 DEF Separated
  <2> QED
    BY <2>6, SeparatorFound, ZenonT(30)
<1>7. t \in Seq(Nat) /\ Len(t) = 4 + n + r /\ Piece(t, 4, name, n) /\ Piece(t, 4 + n, rest, r)
  BY <1>4 DEF Named
<1>8. SubSeq(t, 5, 4 + n) = name
  <2>1. 4 + n <= Len(t) /\ 4 \in Nat
    BY <1>1, <1>4, <1>7
  <2>2. SubSeq(t, 4 + 1, 4 + Len(name)) = name
    BY <1>1, <1>7, <2>1, PieceIsPart
  <2> QED
    BY <2>2
<1>9. SubSeq(t, 8 + n, Len(t)) = content
  <2>1. 3 + c <= r /\ 4 + n \in Nat /\ 3 \in Nat
    BY <1>1, <1>3
  <2>2. Piece(t, (4 + n) + 3, content, c)
    <3> HIDE DEF n, r, c
    <3> QED
      BY <1>3, <1>4, <1>7, <2>1, PieceOfPiece, SMTT(30)
  <2>3. (4 + n) + 3 \in Nat /\ (4 + n) + 3 + Len(content) <= Len(t)
    <3> DEFINE l == Len(t)
    <3>1. l = 4 + n + r /\ c = Len(content) /\ n \in Nat /\ c \in Nat /\ r \in Nat
      BY <1>1, <1>4, <1>7
    <3> HIDE DEF n, r, c, l
    <3>2. (4 + n) + 3 \in Nat /\ (4 + n) + 3 + c <= l
      BY <2>1, <3>1
    <3> QED
      BY <3>1, <3>2 DEF l
  <2>4. SubSeq(t, ((4 + n) + 3) + 1, ((4 + n) + 3) + Len(content)) = content
    BY <1>7, <2>2, <2>3, PieceIsPart
  <2>5. ((4 + n) + 3) + 1 = 8 + n /\ ((4 + n) + 3) + Len(content) = Len(t)
    BY <1>1, <1>3, <1>7
  <2> QED
    BY <2>4, <2>5
<1>10. (5 + n) - 1 = 4 + n /\ (5 + n) + 3 = 8 + n
  BY <1>1
<1> HIDE DEF n
<1> QED
  BY <1>1, <1>5, <1>6, <1>8, <1>9, <1>10 DEF NameAndContent, t, rest
-----------------------------------------------------------------------------
(* sscanf stops where no blank stands. *)
LEMMA SkipsNone ==
  ASSUME NEW w \in Seq(Nat), w # <<>>, w[1] \notin Blank
  PROVE  SkipBlanks(w) = w
<1> DEFINE n == Len(w)
           P == {i \in 1 .. n : w[i] \notin Blank} \cup {n + 1}
<1>1. n \in Nat \ {0}
  BY EmptySeq, LenProperties
<1>2. P \subseteq Int /\ 1 \in P /\ \A y \in P : 1 <= y
  BY <1>1
<1>3. First(P) = 1
  BY <1>2, FirstIs
<1>4. SubSeq(w, 1, n) = w
  BY WholePart
<1> QED
  BY <1>3, <1>4 DEF SkipBlanks

(* It passes a blank. *)
LEMMA SkipsOne ==
  ASSUME NEW w \in Seq(Nat), w # <<>>, w[1] \in Blank
  PROVE  SkipBlanks(w) = SkipBlanks(Tail(w))
<1> DEFINE v == Tail(w)
           m == Len(v)
           n == Len(w)
           Q == {i \in 1 .. m : v[i] \notin Blank} \cup {m + 1}
           P == {i \in 1 .. n : w[i] \notin Blank} \cup {n + 1}
           x == First(Q)
<1>1. v \in Seq(Nat) /\ m \in Nat /\ n = m + 1 /\ \A i \in 1 .. m : v[i] = w[i + 1]
  BY HeadTailProperties, LenProperties
<1> HIDE DEF v, m, n
<1>2. Q \subseteq Nat /\ m + 1 \in Q
  BY <1>1
<1>3. x \in Q /\ \A y \in Q : x <= y
  BY <1>2, FirstExists
<1>4. x \in 1 .. m + 1 /\ (x \in 1 .. m => v[x] \notin Blank)
  BY <1>1, <1>3
<1>5. \A i \in 1 .. m : v[i] \notin Blank => x <= i
  BY <1>3
<1> HIDE DEF Q, x
<1>6. x + 1 \in P /\ P \subseteq Int
  BY <1>1, <1>4
<1>7. ASSUME NEW y \in P PROVE x + 1 <= y
  <2>1. CASE y = n + 1
    BY <2>1, <1>1, <1>4
  <2>2. CASE y \in 1 .. n /\ w[y] \notin Blank
    <3>1. y # 1
      BY <2>2
    <3>2. y - 1 \in 1 .. m /\ (y - 1) + 1 = y
      BY <2>2, <3>1, <1>1
    <3>3. v[y - 1] \notin Blank
      BY <2>2, <3>2, <1>1
    <3> QED
      BY <3>2, <3>3, <1>4, <1>5
  <2> QED
    BY <2>1, <2>2
<1>8. First(P) = x + 1
  BY <1>6, <1>7, FirstIs
<1>9. SubSeq(w, x + 1, n) = SubSeq(v, x, m)
  <2> DEFINE a == SubSeq(w, x + 1, n)
             b == SubSeq(v, x, m)
  <2>1. /\ x + 1 \in Nat \ {0} /\ n \in Nat /\ x + 1 <= n + 1 /\ n <= Len(w)
        /\ n + 1 - (x + 1) = m + 1 - x
    BY <1>1, <1>4 DEF n
  <2>2. /\ a \in Seq(Nat) /\ Len(a) = m + 1 - x
        /\ \A k \in 1 .. m + 1 - x : a[k] = w[(x + 1) + k - 1]
    <3>1. /\ a \in Seq(Nat) /\ Len(a) = n + 1 - (x + 1)
          /\ \A k \in 1 .. n + 1 - (x + 1) : a[k] = w[(x + 1) + k - 1]
      BY <2>1, Part
    <3> QED
      BY <2>1, <3>1
  <2>3. x \in Nat \ {0} /\ x <= m + 1 /\ m <= Len(v)
    BY <1>1, <1>4 DEF m
  <2>4. /\ b \in Seq(Nat) /\ Len(b) = m + 1 - x
        /\ \A k \in 1 .. m + 1 - x : b[k] = v[x + k - 1]
    BY <1>1, <2>3, Part
  <2>5. ASSUME NEW k \in 1 .. m + 1 - x PROVE v[x + k - 1] = w[(x + 1) + k - 1]
    <3>1. x + k - 1 \in 1 .. m /\ (x + k - 1) + 1 = (x + 1) + k - 1
      BY <1>1, <1>4
    <3>2. v[x + k - 1] = w[(x + k - 1) + 1]
      BY <1>1, <3>1
    <3> QED
      BY <3>1, <3>2
  <2> HIDE DEF a, b
  <2>6. Len(a) = Len(b) /\ \A k \in 1 .. Len(a) : a[k] = b[k]
    BY <2>2, <2>4, <2>5
  <2>7. a = b
    BY <2>2, <2>4, <2>6, SameText
  <2> QED
    BY <2>7 DEF a, b
<1> QED
  BY <1>8, <1>9 DEF SkipBlanks, P, Q, x, n, m, v

-----------------------------------------------------------------------------
(* What is behind the first a symbols of a text. *)
RestOf(t, a) == SubSeq(t, a + 1, Len(t))

LEMMA Rests ==
  ASSUME NEW t \in Seq(Nat), NEW a \in Nat, a < Len(t)
  PROVE  /\ RestOf(t, a) \in Seq(Nat) /\ RestOf(t, a) # <<>>
         /\ RestOf(t, a)[1] = t[a + 1] /\ Head(RestOf(t, a)) = t[a + 1]
         /\ Tail(RestOf(t, a)) = RestOf(t, a + 1)
<1> DEFINE r == RestOf(t, a)
<1>1. /\ Len(t) \in Nat /\ a + 1 \in Nat \ {0} /\ a + 1 <= Len(t) + 1 /\ Len(t) <= Len(t)
      /\ a + 1 \in 1 .. Len(t) /\ Len(t) \in a + 1 .. Len(t)
  BY LenProperties
<1>2. /\ r \in Seq(Nat) /\ Len(r) = Len(t) + 1 - (a + 1)
      /\ \A k \in 1 .. Len(t) + 1 - (a + 1) : r[k] = t[(a + 1) + k - 1]
  BY <1>1, Part DEF RestOf
<1>3. 1 \in 1 .. Len(t) + 1 - (a + 1) /\ (a + 1) + 1 - 1 = a + 1
  BY <1>1
<1>4. r[1] = t[a + 1]
  BY <1>2, <1>3
<1>5. Head(r) = t[a + 1] /\ Tail(r) = RestOf(t, a + 1)
  BY <1>1, HeadTailOfSubSeq DEF RestOf
<1>6. r # <<>>
  <2>1. Len(r) # 0
    BY <1>1, <1>2
  <2> QED
    BY <2>1, EmptySeq
<1> QED
  BY <1>2, <1>4, <1>5, <1>6

(* What the reader of REPLY makes of a reply. *)
LEMMA ReplyRead ==
  ASSUME NEW result \in {OK, NOK}, NEW content \in Seq(Nat)
  PROVE  process_tcp_reply_message(<<REPLY, SP, result, SP, IS, SP>> \o content)
             = LET kept == FirstLine(SkipBlanks(content))
               IN  IF kept = <<>> THEN Malformed("REPLY")
                   ELSE [type |-> "REPLY", result |-> result, content |-> kept]
<1> DEFINE h == <<REPLY, SP, result, SP, IS, SP>>
           t == h \o content
           c == Len(content)
           rest == SkipBlanks(Tail(t))
           text == SkipBlanks(Tail(rest))
           kept == FirstLine(SkipBlanks(content))
<1>2. /\ {REPLY, SP, IS, result} \subseteq Nat
      /\ result \notin Blank /\ IS \notin Blank /\ SP \in Blank
  BY Symbols
<1>3. h \in Seq(Nat) /\ Len(h) = 6
  BY <1>2
<1>4. h[2] = SP /\ h[3] = result /\ h[4] = SP /\ h[5] = IS /\ h[6] = SP
  OBVIOUS
<1> HIDE DEF h
<1>5. /\ t \in Seq(Nat) /\ c \in Nat /\ Len(t) = 6 + c
      /\ Piece(t, 0, h, 6) /\ Piece(t, 6, content, c)
  BY <1>3, Joined
<1> HIDE DEF t
<1>6. t[2] = SP /\ t[3] = result /\ t[4] = SP /\ t[5] = IS /\ t[6] = SP
  <2>1. \A i \in 1 .. 6 : t[0 + i] = h[i]
    BY <1>5 DEF Piece
  <2>2. /\ 0 + 2 = 2 /\ 0 + 3 = 3 /\ 0 + 4 = 4 /\ 0 + 5 = 5 /\ 0 + 6 = 6
        /\ {2, 3, 4, 5, 6} \subseteq 1 .. 6
    OBVIOUS
  <2> QED
    BY <1>4, <2>1, <2>2
<1> DEFINE Is(a, b) ==
             /\ RestOf(t, a) \in Seq(Nat) /\ RestOf(t, a) # <<>>
             /\ RestOf(t, a)[1] = t[b] /\ Head(RestOf(t, a)) = t[b]
             /\ Tail(RestOf(t, a)) = RestOf(t, b)
<1>7. Is(0, 1) /\ Is(1, 2) /\ Is(2, 3) /\ Is(3, 4) /\ Is(4, 5) /\ Is(5, 6)
  <2>1. ASSUME NEW a \in 0 .. 5 PROVE Is(a, a + 1)
    <3>1. a \in Nat /\ a < Len(t)
      BY <1>5
    <3> QED
      BY <1>5, <3>1, Rests
  <2>2. /\ {0, 1, 2, 3, 4, 5} \subseteq 0 .. 5
        /\ 0 + 1 = 1 /\ 1 + 1 = 2 /\ 2 + 1 = 3 /\ 3 + 1 = 4 /\ 4 + 1 = 5 /\ 5 + 1 = 6
    OBVIOUS
  <2> HIDE DEF Is
  <2> QED
    BY <2>1, <2>2
<1>8. RestOf(t, 0) = t
  <2>1. 0 + 1 = 1
    OBVIOUS
  <2> QED
    BY <1>5, <2>1, WholePart DEF RestOf
<1>9. RestOf(t, 6) = content
  <2>1. 6 \in Nat /\ 6 + Len(content) <= Len(t) /\ 6 + Len(content) = Len(t)
    BY <1>5
  <2> QED
    BY <1>5, <2>1, PieceIsPart DEF RestOf
<1>10. rest = RestOf(t, 2)
  <2>1. Tail(t) = RestOf(t, 1) /\ Tail(RestOf(t, 1)) = RestOf(t, 2)
    BY <1>7, <1>8
  <2>2. RestOf(t, 1) \in Seq(Nat) /\ RestOf(t, 1) # <<>> /\ RestOf(t, 1)[1] = SP
    BY <1>6, <1>7
  <2>3. SkipBlanks(RestOf(t, 1)) = SkipBlanks(RestOf(t, 2))
    BY <1>2, <2>1, <2>2, SkipsOne
  <2>4. RestOf(t, 2) \in Seq(Nat) /\ RestOf(t, 2) # <<>> /\ RestOf(t, 2)[1] = result
    BY <1>6, <1>7
  <2> QED
    BY <1>2, <2>1, <2>3, <2>4, SkipsNone
<1>11. rest # <<>> /\ Head(rest) = result /\ Tail(rest) = RestOf(t, 3)
  BY <1>6, <1>7, <1>10
<1> HIDE DEF rest
<1>12. text = RestOf(t, 4)
  <2>1. Tail(RestOf(t, 3)) = RestOf(t, 4)
    BY <1>7
  <2>2. RestOf(t, 3) \in Seq(Nat) /\ RestOf(t, 3) # <<>> /\ RestOf(t, 3)[1] = SP
    BY <1>6, <1>7
  <2>3. SkipBlanks(RestOf(t, 3)) = SkipBlanks(RestOf(t, 4))
    BY <1>2, <2>1, <2>2, SkipsOne
  <2>4. RestOf(t, 4) \in Seq(Nat) /\ RestOf(t, 4) # <<>> /\ RestOf(t, 4)[1] = IS
    BY <1>6, <1>7
  <2> QED
    BY <1>2, <1>11, <2>3, <2>4, SkipsNone
<1>13. text # <<>> /\ Head(text) = IS /\ Tail(text) = RestOf(t, 5)
  BY <1>6, <1>7, <1>12
<1> HIDE DEF text
<1>14. SkipBlanks(Tail(text)) = SkipBlanks(content)
  <2>1. Tail(RestOf(t, 5)) = content
    BY <1>7, <1>9
  <2>2. RestOf(t, 5) \in Seq(Nat) /\ RestOf(t, 5) # <<>> /\ RestOf(t, 5)[1] = SP
    BY <1>6, <1>7
  <2> QED
    BY <1>2, <1>13, <2>1, <2>2, SkipsOne
<1>15. process_tcp_reply_message(t)
           = IF kept = <<>> THEN Malformed("REPLY")
             ELSE [type |-> "REPLY", result |-> result, content |-> kept]
  BY <1>11, <1>13, <1>14 DEF process_tcp_reply_message, rest, text
<1> QED
  BY <1>15 DEF t, h

-----------------------------------------------------------------------------
(* strncmp tells the types apart by their first keyword. *)
LEMMA OtherKeyword ==
  ASSUME NEW t \in Seq(Nat), NEW u \in Seq(Nat), u # <<>>, t[1] # u[1]
  PROVE  ~IsPrefix(u, t)
<1>1. Len(u) \in Nat \ {0}
  BY EmptySeq, LenProperties
<1>2. 1 \in 1 .. Len(u)
  BY <1>1
<1> QED
  BY <1>2, PrefixIs

(* The beginnings process_tcp_message looks for. *)
LEMMA Beginnings ==
  /\ <<REPLY, SP>> \in Seq(Nat) /\ <<REPLY, SP>> # <<>> /\ <<REPLY, SP>>[1] = REPLY
  /\ Len(<<REPLY, SP>>) = 2
  /\ \A k \in {MSG, ERR, BYE} :
       /\ <<k, SP, FROM, SP>> \in Seq(Nat) /\ <<k, SP, FROM, SP>> # <<>>
       /\ <<k, SP, FROM, SP>>[1] = k /\ Len(<<k, SP, FROM, SP>>) = 4
<1>1. {MSG, ERR, BYE, REPLY, FROM, SP} \subseteq Nat
  BY Symbols
<1> QED
  BY <1>1

(* A MSG, ERR or BYE is read by the function for its type. *)
LEMMA NamedBranch ==
  ASSUME NEW k \in {MSG, ERR, BYE}, NEW t, NEW name, NEW n \in Nat, NEW rest, NEW r \in Nat,
         Named(t, k, name, n, rest, r)
  PROVE  process_tcp_message(t) = IF k = MSG THEN process_tcp_msg_message(t)
                                  ELSE IF k = ERR THEN process_tcp_err_message(t)
                                  ELSE process_tcp_bye_message(t)
<1>1. t \in Seq(Nat) /\ Len(t) = 4 + n + r /\ Piece(t, 0, <<k, SP, FROM, SP>>, 4) /\ t[1] = k
  BY NameFound DEF Named
<1>2. ~IsPrefix(<<REPLY, SP>>, t)
  <2>1. t[1] # <<REPLY, SP>>[1]
    BY <1>1, Symbols, Beginnings
  <2> QED
    BY <1>1, <2>1, OtherKeyword, Beginnings
<1>3. IsPrefix(<<k, SP, FROM, SP>>, t)
  <2> DEFINE u == <<k, SP, FROM, SP>>
  <2>1. u \in Seq(Nat) /\ Len(u) = 4
    BY Beginnings
  <2> HIDE DEF u
  <2>2. \A i \in 1 .. 4 : t[i] = u[i]
    <3>1. \A i \in 1 .. 4 : t[0 + i] = u[i]
      BY <1>1 DEF Piece, u
    <3>2. \A i \in 1 .. 4 : 0 + i = i
      OBVIOUS
    <3> QED
      BY <3>1, <3>2
  <2>3. 4 <= Len(t)
    BY <1>1
  <2>4. IsPrefix(u, t)
    BY <1>1, <2>1, <2>2, <2>3, PrefixIs
  <2> QED
    BY <2>4 DEF u
<1>4. \A x \in {MSG, ERR, BYE} : x # k => ~IsPrefix(<<x, SP, FROM, SP>>, t)
  <2> SUFFICES ASSUME NEW x \in {MSG, ERR, BYE}, x # k PROVE ~IsPrefix(<<x, SP, FROM, SP>>, t)
    OBVIOUS
  <2>1. t[1] # <<x, SP, FROM, SP>>[1]
    BY <1>1, Beginnings
  <2> QED
    BY <1>1, <2>1, OtherKeyword, Beginnings
<1>5. MSG # ERR /\ MSG # BYE /\ ERR # BYE
  BY Symbols
<1> QED
  BY <1>2, <1>3, <1>4, <1>5 DEF process_tcp_message

(* A REPLY is read as one. *)
LEMMA ReplyBranch ==
  ASSUME NEW result \in {OK, NOK}, NEW content \in Seq(Nat)
  PROVE  process_tcp_message(<<REPLY, SP, result, SP, IS, SP>> \o content)
             = process_tcp_reply_message(<<REPLY, SP, result, SP, IS, SP>> \o content)
<1> DEFINE h == <<REPLY, SP, result, SP, IS, SP>>
           t == h \o content
           u == <<REPLY, SP>>
           c == Len(content)
<1>1. h \in Seq(Nat) /\ Len(h) = 6
  BY Symbols
<1>2. h[1] = u[1] /\ h[2] = u[2]
  OBVIOUS
<1>3. u \in Seq(Nat) /\ Len(u) = 2
  BY Beginnings
<1> HIDE DEF h, u
<1>4. t \in Seq(Nat) /\ c \in Nat /\ Len(t) = 6 + c /\ Piece(t, 0, h, 6)
  BY <1>1, Joined
<1> HIDE DEF t, c
<1>5. \A i \in 1 .. 2 : t[i] = u[i]
  <2>1. \A i \in 1 .. 6 : t[0 + i] = h[i]
    BY <1>4 DEF Piece
  <2>2. 1 \in 1 .. 6 /\ 2 \in 1 .. 6 /\ 0 + 1 = 1 /\ 0 + 2 = 2
    OBVIOUS
  <2>3. t[1] = u[1] /\ t[2] = u[2]
    BY <1>2, <2>1, <2>2
  <2>4. \A i \in 1 .. 2 : i = 1 \/ i = 2
    OBVIOUS
  <2> QED
    BY <2>3, <2>4
<1>6. 2 <= Len(t)
  BY <1>4
<1>7. IsPrefix(u, t)
  BY <1>3, <1>4, <1>5, <1>6, PrefixIs
<1> QED
  BY <1>7 DEF process_tcp_message, t, h, u

(* Every message of the grammar is read as Understood says. *)
LEMMA MeantRead ==
  ASSUME NEW m \in Grammar
  PROVE  process_tcp_message(Text(m)) = Understood(m)
<1>0. \A s \in Seq(Symbol) : s \in Seq(Nat)
  <2>1. Symbol \subseteq Nat
    BY Symbols DEF Symbol, AUTH, NOK
  <2> QED
    BY <2>1, SeqMonotonic
<1>1. CASE m \in [type : {"REPLY"}, result : {OK, NOK}, content : Seq(Symbol)]
  <2>1. m.type = "REPLY" /\ m.result \in {OK, NOK} /\ m.content \in Seq(Nat)
    BY <1>0, <1>1
  <2>2. Text(m) = <<REPLY, SP, m.result, SP, IS, SP>> \o m.content
    BY <2>1 DEF Text
  <2> DEFINE kept == FirstLine(SkipBlanks(m.content))
  <2>3. process_tcp_message(Text(m))
            = IF kept = <<>> THEN Malformed("REPLY")
              ELSE [type |-> "REPLY", result |-> m.result, content |-> kept]
    BY <2>1, <2>2, ReplyBranch, ReplyRead
  <2> HIDE DEF kept
  <2>4. [m EXCEPT !.content = kept] = [type |-> "REPLY", result |-> m.result, content |-> kept]
    BY <1>1
  <2> QED
    BY <2>1, <2>3, <2>4 DEF Understood, kept
<1>2. CASE m \in [type : {"MSG", "ERR"}, name : Name, content : Seq(Symbol)]
  <2>1. /\ m.type \in {"MSG", "ERR"} /\ m.name \in Name /\ m.content \in Seq(Nat)
        /\ m = [type |-> m.type, name |-> m.name, content |-> m.content]
    BY <1>0, <1>2
  <2> DEFINE k == IF m.type = "MSG" THEN MSG ELSE ERR
             rest == Spaced(IS) \o m.content
             t == <<k, SP, FROM, SP>> \o m.name \o rest
  <2>2. k \in {MSG, ERR, BYE}
    OBVIOUS
  <2>3. m.name \in Seq(Nat) /\ Spaced(IS) \in Seq(Nat) /\ <<k, SP, FROM, SP>> \in Seq(Nat)
    BY <2>1, <2>2, NameFits, Symbols, Beginnings DEF Spaced
  <2> HIDE DEF k
  <2>4. rest \in Seq(Nat) /\ <<k, SP, FROM, SP>> \o m.name \in Seq(Nat)
    BY <2>1, <2>3, Joined
  <2>5. Text(m) = t
    <3>1. Text(m) = <<k, SP, FROM, SP>> \o m.name \o Spaced(IS) \o m.content
      BY <2>1 DEF Text, k
    <3> DEFINE p == <<k, SP, FROM, SP>> \o m.name
    <3>2. p \in Seq(Nat) /\ Spaced(IS) \in Seq(Nat) /\ m.content \in Seq(Nat)
      BY <2>1, <2>3, <2>4
    <3> HIDE DEF p
    <3>3. (p \o Spaced(IS)) \o m.content = p \o (Spaced(IS) \o m.content)
      BY <3>2, Regroup
    <3> QED
      BY <3>1, <3>3 DEF p
  <2>6. \A type : NameAndContent(type, t)
                      = [type |-> type, name |-> m.name, content |-> m.content]
    BY <2>1, <2>2, NameAndContentRead
  <2> HIDE DEF rest
  <2>7. /\ Len(m.name) \in Nat /\ Len(rest) \in Nat
        /\ Named(t, k, m.name, Len(m.name), rest, Len(rest))
    BY <2>2, <2>3, <2>4, NameStands
  <2> HIDE DEF t
  <2>8. process_tcp_message(t) = IF k = MSG THEN process_tcp_msg_message(t)
                                 ELSE IF k = ERR THEN process_tcp_err_message(t)
                                 ELSE process_tcp_bye_message(t)
    BY <2>2, <2>7, NamedBranch
  <2>9. (m.type = "MSG" /\ k = MSG) \/ (m.type = "ERR" /\ k = ERR /\ k # MSG)
    BY <2>1, Symbols DEF k
  <2>10. process_tcp_message(t) = [type |-> m.type, name |-> m.name, content |-> m.content]
    BY <2>6, <2>8, <2>9 DEF process_tcp_msg_message, process_tcp_err_message
  <2> QED
    BY <2>1, <2>5, <2>10 DEF Understood
<1>3. CASE m \in [type : {"BYE"}, name : Name]
  <2>1. /\ m.type = "BYE" /\ m.name \in Name /\ m = [type |-> m.type, name |-> m.name]
    BY <1>3
  <2> DEFINE h == <<BYE, SP, FROM, SP>> \o m.name
  <2>2. m.name \in Seq(Nat) /\ <<>> \in Seq(Nat) /\ <<BYE, SP, FROM, SP>> \in Seq(Nat)
    BY <2>1, NameFits, EmptySeq, Beginnings
  <2>3. h \in Seq(Nat)
    BY <2>2, Joined
  <2>4. Text(m) = h /\ h \o <<>> = h
    BY <2>1, <2>3, ConcatEmptySeq DEF Text
  <2>5. /\ Len(m.name) \in Nat /\ Len(<<>>) = 0
        /\ Named(h \o <<>>, BYE, m.name, Len(m.name), <<>>, Len(<<>>))
    BY <2>2, NameStands, EmptySeq
  <2> HIDE DEF h
  <2>6. Named(h, BYE, m.name, Len(m.name), <<>>, 0)
    BY <2>4, <2>5
  <2>7. SubSeq(h, From(h), Len(h)) = m.name
    BY <2>2, <2>6, NameLast
  <2>8. HasFrom(h)
    BY <2>5, <2>6, NameFound
  <2>9. process_tcp_message(h) = process_tcp_bye_message(h)
    <3>1. BYE # MSG /\ BYE # ERR /\ BYE \in {MSG, ERR, BYE} /\ 0 \in Nat
      BY Symbols
    <3> QED
      BY <2>5, <2>6, <3>1, NamedBranch
  <2>10. process_tcp_message(h) = [type |-> m.type, name |-> m.name]
    BY <2>1, <2>7, <2>8, <2>9 DEF process_tcp_bye_message
  <2> QED
    BY <2>1, <2>4, <2>10 DEF Understood
<1> QED
  BY <1>1, <1>2, <1>3 DEF Grammar

-----------------------------------------------------------------------------
(* The listener handles the messages in the order they were sent. *)
InOrder == \A k \in 1 .. Len(handled) : handled[k] = sent[k]

LEMMA OrderKept ==
  ASSUME sent \in Seq(Messages), handled \in Seq(Messages), Len(handled) <= Len(sent), InOrder,
         [Stream!Next]_<<sent, handled>>
  PROVE  InOrder'
<1>1. Len(sent) \in Nat /\ Len(handled) \in Nat
  BY LenProperties
<1>2. CASE UNCHANGED <<sent, handled>>
  BY <1>2 DEF InOrder
<1>3. ASSUME NEW m \in Messages, Stream!Write(m) PROVE InOrder'
  <2>1. sent' = Append(sent, m) /\ handled' = handled
    BY <1>3 DEF Stream!Write
  <2>2. \A k \in 1 .. Len(sent) : sent'[k] = sent[k]
    BY <2>1, AppendProperties
  <2>3. \A k \in 1 .. Len(handled) : k \in 1 .. Len(sent)
    BY <1>1
  <2> QED
    BY <2>1, <2>2, <2>3 DEF InOrder
<1>4. CASE Stream!Handle
  <2>1. /\ Len(handled) < Len(sent) /\ sent' = sent
        /\ handled' = Append(handled, sent[Len(handled) + 1])
    BY <1>4 DEF Stream!Handle
  <2>2. /\ Len(handled') = Len(handled) + 1
        /\ handled'[Len(handled) + 1] = sent[Len(handled) + 1]
        /\ \A k \in 1 .. Len(handled) : handled'[k] = handled[k]
    <3>1. Len(handled) + 1 \in 1 .. Len(sent)
      BY <1>1, <2>1
    <3>2. sent[Len(handled) + 1] \in Messages
      BY <3>1, ElementOfSeq
    <3> QED
      BY <2>1, <3>2, AppendProperties
  <2>3. \A k \in 1 .. Len(handled) + 1 : k \in 1 .. Len(handled) \/ k = Len(handled) + 1
    BY <1>1
  <2> QED
    BY <2>1, <2>2, <2>3 DEF InOrder
<1> QED
  BY <1>2, <1>3, <1>4 DEF Stream!Next

(* What is handled, and handled in order, is read as it was meant. *)
LEMMA InOrderIsRead ==
  ASSUME sent \in Seq(Messages), handled \in Seq(Messages), Len(handled) <= Len(sent), InOrder
  PROVE  ReadAsWritten
<1> SUFFICES ASSUME NEW k \in 1 .. Len(handled)
             PROVE  \E m \in Meant :
                      Text(m) = sent[k] /\ process_tcp_message(handled[k]) = Understood(m)
  BY DEF ReadAsWritten
<1>1. handled[k] = sent[k]
  BY DEF InOrder
<1>2. handled[k] \in Messages
  BY ElementOfSeq
<1>3. PICK m \in Meant : Text(m) = handled[k]
  BY <1>2, MeantAssumption
<1>4. m \in Grammar
  BY MeantAssumption
<1>5. process_tcp_message(Text(m)) = Understood(m)
  BY <1>4, MeantRead
<1> QED
  BY <1>1, <1>3, <1>5

(* Whatever messages of the grammar the server writes, and however recv cuts *)
(* the stream short of splitting a CRLF, the k-th message shown has the name,*)
(* the result and the content of the k-th one written: a content that reads  *)
(* like the grammar does not move the end of the name, and nothing of a      *)
(* neighbouring message gets into it (tcp_listener, process_tcp_message).    *)
THEOREM ReadsWhatWasMeant ==
  ASSUME SplitTerminators = FALSE
  PROVE  Spec => []ReadAsWritten
<1>1. Init => Framed /\ InOrder
  BY FramedInit DEF Init, InOrder
<1>2. Framed /\ InOrder /\ [Next]_vars => (Framed /\ InOrder)'
  <2> SUFFICES ASSUME Framed, InOrder, [Next]_vars PROVE (Framed /\ InOrder)'
    OBVIOUS
  <2>1. Framed' /\ [Stream!Next]_<<sent, handled>>
    BY FramedStep
  <2>2. sent \in Seq(Messages) /\ handled \in Seq(Messages) /\ Len(handled) <= Len(sent)
    BY DEF Framed, FramedType
  <2> QED
    BY <2>1, <2>2, OrderKept
<1>3. Framed /\ InOrder => ReadAsWritten
  BY InOrderIsRead DEF Framed, FramedType
<1> QED
  BY <1>1, <1>2, <1>3, PTL DEF Spec
=============================================================================
