---------------------------- MODULE ProgramProofs ----------------------------
(***************************************************************************)
(* Program for every command line, every text on stdin and all limits: what *)
(* the settings are, what is sent, and that what is typed is sent.          *)
(***************************************************************************)
EXTENDS Program, CStringsProofs, FiniteSetTheorems

(* A nonempty set of numbers has a least one. *)
LEMMA Least ==
  ASSUME NEW S \in SUBSET Nat, S # {}
  PROVE  \E i \in S : \A j \in S : i <= j
<1> DEFINE R == OpToRel(<, Nat)
<1>1. IsWellFoundedOn(R, Nat)
  BY NatLessThanWellFounded
<1>2. \A x, y \in Nat : y < x => <<y, x>> \in R
  BY DEF OpToRel
<1> HIDE DEF R
<1>3. PICK x \in S : \A y \in S : ~(<<y, x>> \in R)
  BY <1>1, WFMin
<1>4. \A y \in S : y \in Nat /\ ~(y < x)
  BY <1>2, <1>3
<1> QED
  BY <1>3, <1>4

UpTo(S, i) == {j \in S : j <= i}

(* A finite set of numbers has a k-th one.  If there were a least k for     *)
(* which it has none, the least number above the one before would be it.    *)
LEMMA Ranked ==
  ASSUME NEW S \in SUBSET Nat, IsFiniteSet(S), NEW k \in 1 .. Cardinality(S)
  PROVE  \E i \in S : Cardinality(UpTo(S, i)) = k
<1> DEFINE c == Cardinality(S)
           Missing == {n \in 1 .. c : \A i \in S : Cardinality(UpTo(S, i)) # n}
<1>1. c \in Nat
  BY FS_CardinalityType
<1> SUFFICES ASSUME Missing # {} PROVE FALSE
  OBVIOUS
<1>2. PICK n \in Missing : \A j \in Missing : n <= j
  <2>1. Missing \in SUBSET Nat
    BY <1>1
  <2> HIDE DEF Missing
  <2> QED
    BY <2>1, Least
<1>3. /\ n \in Nat /\ 1 <= n /\ n <= c
      /\ \A i \in S : Cardinality(UpTo(S, i)) # n
  BY <1>1, <1>2
<1>4. PICK A \in SUBSET S : /\ Cardinality(A) = n - 1 /\ IsFiniteSet(A)
                            /\ \A a \in A, s \in S \ A : a < s
  <2>1. CASE n = 1
    <3>1. {} \in SUBSET S /\ Cardinality({}) = n - 1 /\ IsFiniteSet({})
      BY <2>1, FS_EmptySet
    <3> QED
      BY <3>1
  <2>2. CASE n # 1
    <3>1. n - 1 \in 1 .. c /\ ~(n <= n - 1)
      BY <2>2, <1>1, <1>3
    <3>2. n - 1 \notin Missing
      BY <3>1, <1>2
    <3>3. PICK i \in S : Cardinality(UpTo(S, i)) = n - 1
      BY <3>1, <3>2
    <3>4. UpTo(S, i) \in SUBSET S /\ IsFiniteSet(UpTo(S, i))
      BY FS_Subset DEF UpTo
    <3>5. \A a \in UpTo(S, i), s \in S \ UpTo(S, i) : a < s
      BY DEF UpTo
    <3> QED
      BY <3>3, <3>4, <3>5
  <2> QED
    BY <2>1, <2>2
<1>5. S \ A # {}
  <2> SUFFICES ASSUME S \ A = {} PROVE FALSE
    OBVIOUS
  <2>1. A = S
    OBVIOUS
  <2>2. c = n - 1
    BY <2>1, <1>4
  <2> HIDE DEF c
  <2> QED
    BY <2>2, <1>1, <1>3
<1>6. PICK m \in S \ A : \A j \in S \ A : m <= j
  <2>1. S \ A \in SUBSET Nat
    OBVIOUS
  <2> QED
    BY <1>5, <2>1, Least
<1>7. UpTo(S, m) = A \cup {m}
  <2>1. ASSUME NEW j \in S, j <= m PROVE j \in A \cup {m}
    BY <1>6, <2>1
  <2>2. \A a \in A : a \in S /\ a <= m
    BY <1>4, <1>6
  <2> QED
    BY <2>1, <2>2, <1>6 DEF UpTo
<1>8. Cardinality(A \cup {m}) = Cardinality(A) + 1
  BY <1>4, <1>6, FS_AddElement
<1>9. Cardinality(UpTo(S, m)) = n
  BY <1>3, <1>4, <1>7, <1>8
<1> QED
  BY <1>3, <1>6, <1>9

-----------------------------------------------------------------------------
LEMMA CountOfWords ==
  ASSUME typed \in Seq(Character)
  PROVE  /\ WordCount \in Nat /\ IsFiniteSet(Starts(typed))
         /\ Starts(typed) \in SUBSET (1 .. Len(typed)) /\ Starts(typed) \in SUBSET Nat
<1> DEFINE n == Len(typed)
           S == Starts(typed)
<1>1. n \in Nat
  BY LenProperties
<1>2. S \in SUBSET (1 .. n)
  BY DEF Starts
<1>3. IsFiniteSet(1 .. n)
  BY <1>1, FS_Interval
<1> HIDE DEF n, S
<1>4. IsFiniteSet(S) /\ S \in SUBSET Nat
  <2>1. IsFiniteSet(S)
    BY <1>2, <1>3, FS_Subset
  <2> QED
    BY <2>1, <1>1, <1>2
<1>5. WordCount \in Nat
  BY <1>4, FS_CardinalityType DEF WordCount, S
<1> QED
  BY <1>2, <1>4, <1>5 DEF S, n

(* The characters of a line are characters, and so are those of its words:  *)
(* strtok finds as many words as start in it.                               *)
LEMMA WordIsText ==
  ASSUME typed \in Seq(Character), NEW k \in 1 .. WordCount
  PROVE  /\ StartOf(k) \in Nat \ {0} /\ Word(k) \in Seq(Character)
<1> DEFINE n == Len(typed)
           S == Starts(typed)
<1>1. n \in Nat /\ \A i \in 1 .. n : typed[i] \in Character
  BY LenProperties, ElementOfSeq
<1>2. S \in SUBSET (1 .. n)
  BY DEF Starts
<1>3. S \in SUBSET Nat /\ IsFiniteSet(S)
  BY CountOfWords
<1>4. \E i \in S : Cardinality({j \in S : j <= i}) = k
  <2>1. k \in 1 .. Cardinality(S)
    BY DEF WordCount
  <2> HIDE DEF S
  <2> QED
    BY <2>1, <1>3, Ranked DEF UpTo
<1>5. StartOf(k) \in S
  BY <1>4 DEF StartOf
<1> DEFINE i == StartOf(k)
           E == {j \in i .. n : j = n \/ typed[j + 1] = SP}
<1>6. i \in 1 .. n
  BY <1>2, <1>5
<1> HIDE DEF n, S
<1>7. PICK e \in E : \A j \in E : e <= j
  <2>1. i \in Nat
    BY <1>1, <1>6
  <2> HIDE DEF i
  <2>2. E \in SUBSET Nat /\ n \in E
    BY <1>1, <1>6, <2>1
  <2> HIDE DEF E
  <2> QED
    BY <2>2, Least
<1>8. First(E) \in E
  BY <1>7 DEF First
<1>9. First(E) \in i .. n
  BY <1>8
<1>10. Word(k) = SubSeq(typed, i, First(E))
  BY DEF Word, WordAt, n
<1> HIDE DEF i, E
<1>11. /\ i \in Int /\ First(E) \in Int /\ \A j \in i .. First(E) : j \in 1 .. n
  BY <1>1, <1>6, <1>9
<1>12. \A j \in i .. First(E) : typed[j] \in Character
  BY <1>1, <1>11
<1>13. Word(k) \in Seq(Character)
  BY <1>10, <1>11, <1>12, SubSeqProperties
<1>14. i \in Nat \ {0}
  BY <1>1, <1>6
<1> QED
  BY <1>13, <1>14 DEF i

(* What strncpy leaves of a text is its beginning. *)
LEMMA strncpyIsPrefix ==
  ASSUME NEW s \in Seq(Character), NEW n \in Nat
  PROVE  /\ strncpy(s, n) \in Seq(Character) /\ IsPrefix(strncpy(s, n), s)
         /\ Len(strncpy(s, n)) = IF Len(s) < n THEN Len(s) ELSE n
         /\ Len(s) <= n => strncpy(s, n) = s
<1> DEFINE l == Len(s)
           m == IF l < n THEN l ELSE n
           w == SubSeq(s, 1, m)
           k == Len(w)
<1>1. l \in Nat /\ \A i \in 1 .. l : s[i] \in Character
  BY LenProperties, ElementOfSeq
<1>2. m \in 0 .. l /\ m \in Nat /\ m \in Int /\ (l <= n => m = l)
  BY <1>1
<1>3. \A i \in 1 .. m : i \in 1 .. l
  BY <1>1, <1>2
<1> HIDE DEF l, m
<1>4. \A i \in 1 .. m : s[i] \in Character
  BY <1>1, <1>3
<1>5. /\ w \in Seq(Character) /\ k = IF 1 <= m THEN m - 1 + 1 ELSE 0
  BY <1>2, <1>4, SubSeqProperties
<1>6. w = strncpy(s, n)
  BY DEF strncpy, m, l
<1>7. l <= n => w = s
  BY <1>2, SubSeqFull DEF l
<1>8. SubSeq(w, 1, m) = w
  <2>1. Len(w) = m
    <3> HIDE DEF w
    <3>1. k = IF 1 <= m THEN m - 1 + 1 ELSE 0
      BY <1>5
    <3> HIDE DEF k
    <3>2. k = m
      BY <3>1, <1>2
    <3> QED
      BY <3>2 DEF k
  <2> HIDE DEF w
  <2> QED
    BY <1>5, <2>1, SubSeqFull
<1> HIDE DEF w
<1>9. k = m
  <2>1. k = IF 1 <= m THEN m - 1 + 1 ELSE 0
    BY <1>5
  <2> HIDE DEF k
  <2> QED
    BY <2>1, <1>2
<1>10. IsPrefix(w, s)
  <2>1. k <= l
    <3> HIDE DEF k
    <3> QED
      BY <1>1, <1>2, <1>9
  <2> QED
    BY <2>1, <1>8, <1>9 DEF IsPrefix, w, l
<1> QED
  BY <1>5, <1>6, <1>7, <1>9, <1>10 DEF k, l, m

(* What the checks of validation.c let through: what the grammar admits,    *)
(* and a dot in a username or a channel.                                    *)
LEMMA ChecksAreTheGrammar ==
  ASSUME NEW s
  PROVE  /\ validate_id(s) => DottedId(s)
         /\ validate_secret(s) => ValidSecret(s)
         /\ validate_display_name(s) <=> ValidName(s)
         /\ /\ s \in Seq(Character) /\ Len(s) <= MAX_MESSAGE_CONTENT_LEN
            /\ validate_message_content(s)
            => ValidContent(s)
<1>1. /\ isalnum \cup {UNDERSCORE, HYPHEN, DOT} = Alphanumeric \cup {45, 46, 95}
      /\ isalnum \cup {UNDERSCORE, HYPHEN} = Alphanumeric \cup {45, 95}
      /\ {LF} \cup (32 .. 126) = {10} \cup (32 .. 126)
  BY DEF isalnum, UNDERSCORE, HYPHEN, DOT, Alphanumeric, LF
<1>2. validate_id(s) => DottedId(s)
  BY <1>1 DEF validate_id, DottedId, OneOf, EveryCharacter
<1>3. validate_secret(s) => ValidSecret(s)
  BY <1>1 DEF validate_secret, ValidSecret, OneOf, EveryCharacter
<1>4. validate_display_name(s) <=> ValidName(s)
  BY DEF validate_display_name, ValidName, OneOf, EveryCharacter
<1>5. ASSUME s \in Seq(Character), Len(s) <= MAX_MESSAGE_CONTENT_LEN,
             validate_message_content(s)
      PROVE  ValidContent(s)
  <2> DEFINE l == Len(s)
  <2>1. s # <<>> /\ \A i \in 1 .. l : s[i] \in {10} \cup (32 .. 126)
    BY <1>1, <1>5 DEF validate_message_content, EveryCharacter
  <2>2. l \in Nat \ {0} /\ l <= MAX_MESSAGE_CONTENT_LEN
    BY <1>5, <2>1, EmptySeq
  <2> HIDE DEF l
  <2>3. l \in 1 .. MAX_MESSAGE_CONTENT_LEN
    BY <2>2, MaximumsAssumption
  <2> QED
    BY <2>1, <2>3 DEF ValidContent, OneOf, l
<1> QED
  BY <1>2, <1>3, <1>4, <1>5

-----------------------------------------------------------------------------
(* The line at hand, before its message is made. *)
LineInHand ==
    /\ typed \in Seq(Character) /\ unprocessed_line \in Seq(Character)
    /\ pc = "dispatch" => /\ out = Nothing /\ typed # <<>> /\ line \in Nat
                          /\ unprocessed_line = Unprocessed(typed)

(* The name in force is valid; so the next message can use it unchecked, as *)
(* BYE does.                                                                *)
NameIsValid == validate_display_name(display_name)

SessionInv == TypeOK /\ LineInHand /\ NameIsValid

(* The timeout survives the NUL behind the longest name as a number. *)
LEMMA NameTypes ==
  ASSUME SessionInv, NEW name, SetName(name) \/ KeepName, validate_display_name(name)
  PROVE  /\ udp_timeout' \in 0 .. UINT16_MAX
         /\ Len(display_name') \in 1 .. MAX_DISPLAY_NAME_LEN /\ NameIsValid'
<1>1. udp_timeout \in 0 .. UINT16_MAX
  BY DEF SessionInv, TypeOK
<1>2. UINT16_MAX \in Nat
  BY DEF UINT16_MAX
<1>3. udp_timeout - (udp_timeout % 256) \in 0 .. UINT16_MAX
  BY <1>1, <1>2
<1>4. udp_timeout' \in {udp_timeout, udp_timeout - (udp_timeout % 256)}
  BY DEF SetName, KeepName
<1>5. validate_display_name(display_name')
  BY DEF SessionInv, NameIsValid, SetName, KeepName
<1> QED
  BY <1>1, <1>3, <1>4, <1>5 DEF NameIsValid, validate_display_name

(* parse_args leaves numbers of 16 and of 8 bits. *)
LEMMA ParsedTypes ==
  ASSUME SessionInv, Parse
  PROVE  SessionInv'
<1>1. /\ UNCHANGED <<line, len, typed, unprocessed_line, at_end, state, display_name,
                      awaiting, out, wire>>
      /\ pc' \in {pc, "ended"} /\ pc = "args"
  BY DEF Parse, input, session, sending, parse_args, NoMatch, Protocol, Host, Port, Timeout,
         Retransmissions, Refused, Proceed, Matches, Parsing
<1>2. /\ use_tcp_protocol' \in {use_tcp_protocol, 0, 1}
      /\ udp_timeout' = udp_timeout
         \/ \E t \in DOMAIN Numbers : udp_timeout' = uint16_t(Numbers[t])
      /\ udp_retransmissions' = udp_retransmissions
         \/ \E t \in DOMAIN Numbers : udp_retransmissions' = uint8_t(Numbers[t])
  BY DEF Parse, parse_args, NoMatch, Protocol, Host, Port, Timeout, Retransmissions,
         Refused, settings
<1>3. ASSUME NEW n \in Int PROVE uint16_t(n) \in 0 .. UINT16_MAX /\ uint8_t(n) \in 0 .. UINT8_MAX
  <2>1. UINT16_MAX \in Nat /\ UINT8_MAX \in Nat
    BY DEF UINT16_MAX, UINT8_MAX
  <2> QED
    BY <2>1 DEF uint16_t, uint8_t
<1>4. \A t \in DOMAIN Numbers : Numbers[t] \in Int
  BY ArgumentsAssumption
<1>5. /\ udp_timeout' \in 0 .. UINT16_MAX /\ udp_retransmissions' \in 0 .. UINT8_MAX
      /\ use_tcp_protocol' \in {-1, 0, 1}
  BY <1>2, <1>3, <1>4 DEF SessionInv, TypeOK
<1>6. TypeOK'
  BY <1>1, <1>5 DEF SessionInv, TypeOK
<1> QED
  BY <1>1, <1>6 DEF SessionInv, LineInHand, NameIsValid

(* getline and main: a line is a text without its newline, and what is kept *)
(* of it for cmd_msg leaves room for a NUL.                                 *)
LEMMA TextOfLine ==
  ASSUME NEW l \in Lines
  PROVE  /\ (IF l.newline THEN l.text ELSE Front(l.text)) \in Seq(Character)
         /\ Needed(l) \in Nat /\ l.newline \in BOOLEAN
<1>1. /\ l.text \in Seq(Character) /\ l.newline \in BOOLEAN
      /\ l.newline \/ l.text # <<>>
  BY ProgramAssumption
<1> DEFINE n == Len(l.text)
<1>2. n \in Nat /\ \A i \in 1 .. n : l.text[i] \in Character
  BY <1>1, LenProperties, ElementOfSeq
<1>3. Front(l.text) \in Seq(Character)
  <2>1. Front(l.text) = SubSeq(l.text, 1, n - 1)
    BY DEF Front
  <2> HIDE DEF n
  <2>2. /\ 1 \in Int /\ n - 1 \in Int
        /\ \A i \in 1 .. n - 1 : i \in 1 .. n
    BY <1>2
  <2>3. \A i \in 1 .. n - 1 : l.text[i] \in Character
    BY <1>2, <2>2
  <2> QED
    BY <2>1, <2>2, <2>3, SubSeqProperties
<1>4. Needed(l) \in Nat
  <2>1. Needed(l) = n + (IF l.newline THEN 1 ELSE 0) + 1
    BY DEF Needed
  <2> HIDE DEF n
  <2> QED
    BY <2>1, <1>1, <1>2
<1> QED
  BY <1>1, <1>3, <1>4

LEMMA UnprocessedFits ==
  ASSUME NEW s \in Seq(Character)
  PROVE  /\ Unprocessed(s) \in Seq(Character) /\ IsPrefix(Unprocessed(s), s)
         /\ Len(Unprocessed(s)) < MAX_MESSAGE_CONTENT_LEN
         /\ Len(s) < MAX_MESSAGE_CONTENT_LEN => Unprocessed(s) = s
         /\ Len(Unprocessed(s)) = IF Len(s) < MAX_MESSAGE_CONTENT_LEN - 1 THEN Len(s)
                                  ELSE MAX_MESSAGE_CONTENT_LEN - 1
<1> DEFINE M == MAX_MESSAGE_CONTENT_LEN
           u == Unprocessed(s)
           nu == Len(u)
           ns == Len(s)
<1>1. M \in Nat \ {0} /\ M - 1 \in Nat
  BY MaximumsAssumption
<1>2. u = strncpy(s, M - 1)
  BY DEF Unprocessed
<1>3. /\ u \in Seq(Character) /\ IsPrefix(u, s)
      /\ nu = IF ns < M - 1 THEN ns ELSE M - 1
      /\ ns <= M - 1 => u = s
  <2> HIDE DEF u, M
  <2> QED
    BY <1>1, <1>2, strncpyIsPrefix
<1>4. ns \in Nat
  BY LenProperties
<1>5. nu < M /\ (ns < M => ns <= M - 1)
  <2>1. nu = IF ns < M - 1 THEN ns ELSE M - 1
    BY <1>3
  <2> HIDE DEF nu, ns, M
  <2> QED
    BY <2>1, <1>1, <1>4
<1> QED
  BY <1>3, <1>5

LEMMA GetLineTypes ==
  ASSUME SessionInv, NEW l \in Lines, GetLine(l)
  PROVE  SessionInv'
<1> DEFINE s == IF l.newline THEN l.text ELSE Front(l.text)
<1>1. s \in Seq(Character) /\ Needed(l) \in Nat /\ l.newline \in BOOLEAN
  BY TextOfLine
<1>2. /\ pc = "read" /\ typed' = s /\ at_end' = ~l.newline /\ out' = Nothing
      /\ IF s = <<>> THEN UNCHANGED <<unprocessed_line, pc>>
         ELSE unprocessed_line' = Unprocessed(s) /\ pc' = "dispatch"
      /\ UNCHANGED <<use_tcp_protocol, udp_timeout, udp_retransmissions, state,
                     display_name, awaiting>>
  BY DEF GetLine, settings, session
<1>3. line' \in Nat /\ len' \in Nat
  <2>1. line \in {NO_LINE} \cup Nat /\ len \in Nat
    BY DEF SessionInv, TypeOK
  <2>2. ASSUME NEW size \in Nat PROVE Enough(size, l) \in Nat
    BY <1>1 DEF Enough
  <2>3. FIRST_BLOCK \in Nat
    BY ProgramAssumption
  <2>4. \/ line' = 0 /\ len' = Enough(FIRST_BLOCK, l)
        \/ line # NO_LINE /\ line' = line /\ len' = len
        \/ line = 0 /\ line' = line /\ len' = Enough(len, l)
    BY DEF GetLine, Allocate, Reuse, Reallocate
  <2> QED
    BY <2>1, <2>2, <2>3, <2>4
<1> HIDE DEF s
<1>4. /\ Unprocessed(s) \in Seq(Character)
      /\ Len(Unprocessed(s)) < MAX_MESSAGE_CONTENT_LEN
  BY <1>1, UnprocessedFits
<1>5. /\ unprocessed_line' \in Seq(Character)
      /\ Len(unprocessed_line') < MAX_MESSAGE_CONTENT_LEN
      /\ pc' \in {"read", "dispatch"}
  BY <1>2, <1>4 DEF SessionInv, LineInHand, TypeOK
<1>6. TypeOK'
  BY <1>1, <1>2, <1>3, <1>5 DEF SessionInv, TypeOK
<1>7. LineInHand'
  BY <1>1, <1>2, <1>3, <1>5 DEF LineInHand
<1> QED
  BY <1>2, <1>6, <1>7 DEF SessionInv, NameIsValid

(* line = strtok(NULL, " ") is NULL or a place in getline's block. *)
LEMMA TakeWordsTypes ==
  ASSUME SessionInv, pc = "dispatch", NEW n \in 1 .. 3, TakeWords(n)
  PROVE  /\ line' \in {NO_LINE} \cup Nat
         /\ UNCHANGED <<len, typed, unprocessed_line, at_end>>
<1>1. typed \in Seq(Character) /\ line \in Nat
  BY DEF SessionInv, LineInHand
<1>2. WordCount \in Nat
  BY <1>1, CountOfWords
<1>3. CASE WordCount > n
  <2>1. n + 1 \in 1 .. WordCount
    BY <1>2, <1>3
  <2>2. StartOf(n + 1) \in Nat \ {0}
    BY <1>1, <2>1, WordIsText
  <2>3. line' = line + StartOf(n + 1) - 1
    BY <1>3 DEF TakeWords
  <2>4. line' \in Nat
    <3>1. \A a \in Nat, b \in Nat \ {0} : a + b - 1 \in Nat
      OBVIOUS
    <3> QED
      BY <1>1, <2>2, <2>3, <3>1
  <2> QED
    BY <2>4 DEF TakeWords
<1>4. CASE ~(WordCount > n)
  BY <1>4 DEF TakeWords
<1> QED
  BY <1>3, <1>4

(* A parameter is the beginning of a word. *)
LEMMA ParameterOfWord ==
  ASSUME SessionInv, NEW k \in 1 .. WordCount, NEW n \in Nat
  PROVE  IsPrefix(strncpy(Word(k), n), Word(k))
<1>1. Word(k) \in Seq(Character)
  BY WordIsText DEF SessionInv, LineInHand
<1> QED
  BY <1>1, strncpyIsPrefix

LEMMA SameWords ==
  ASSUME typed' = typed
  PROVE  /\ Word(2)' = Word(2) /\ Word(3)' = Word(3) /\ Word(4)' = Word(4)
BY DEF Word, StartOf

SentInv == ConformingMessages /\ SentFromThisLine

LEMMA NothingSent ==
  ASSUME out' = Nothing
  PROVE  SentInv'
BY DEF SentInv, ConformingMessages, SentFromThisLine, Nothing

LEMMA SentStays ==
  ASSUME SentInv, UNCHANGED <<out, typed, display_name>>
  PROVE  SentInv'
BY SameWords DEF SentInv, ConformingMessages, SentFromThisLine

(* Two steps that leave the line: to the next one, or to the end. *)
LEMMA AfterDispatch ==
  ASSUME SessionInv, pc' \in {"read", "ended", "crashed"},
         line' \in {NO_LINE} \cup Nat, state' \in {"START", "AUTH", "OPEN", "JOIN"},
         awaiting' \in BOOLEAN, udp_timeout' \in 0 .. UINT16_MAX,
         Len(display_name') \in 1 .. MAX_DISPLAY_NAME_LEN, NameIsValid',
         UNCHANGED <<use_tcp_protocol, udp_retransmissions, len, typed, unprocessed_line, at_end>>
  PROVE  SessionInv'
<1>1. TypeOK'
  BY DEF SessionInv, TypeOK
<1>2. LineInHand'
  BY DEF SessionInv, LineInHand
<1> QED
  BY <1>1, <1>2 DEF SessionInv

LEMMA RenameStep ==
  ASSUME SessionInv, cmd_rename
  PROVE  SessionInv' /\ SentInv'
<1>1. /\ pc = "dispatch" /\ TakeWords(1) /\ pc' = "read" /\ UNCHANGED <<out, wire>>
      /\ UNCHANGED <<use_tcp_protocol, udp_retransmissions, state, awaiting>>
  BY DEF cmd_rename, Selected, SendNothing, sending
<1>2. \E name : validate_display_name(name) /\ (SetName(name) \/ KeepName)
  <2>1. validate_display_name(display_name)
    BY DEF SessionInv, NameIsValid
  <2> QED
    BY <2>1 DEF cmd_rename
<1>3. /\ udp_timeout' \in 0 .. UINT16_MAX
      /\ Len(display_name') \in 1 .. MAX_DISPLAY_NAME_LEN /\ NameIsValid'
  BY <1>2, NameTypes
<1>4. /\ line' \in {NO_LINE} \cup Nat
      /\ UNCHANGED <<len, typed, unprocessed_line, at_end>>
  BY <1>1, TakeWordsTypes
<1>5. SessionInv'
  BY <1>1, <1>3, <1>4, AfterDispatch DEF SessionInv, TypeOK
<1>6. out' = Nothing
  BY <1>1 DEF SessionInv, LineInHand
<1> QED
  BY <1>5, <1>6, NothingSent

LEMMA AuthStep ==
  ASSUME SessionInv, cmd_auth
  PROVE  SessionInv' /\ SentInv'
<1> DEFINE username == strncpy(Word(2), MAX_USERNAME_LEN)
           secret == strncpy(Word(3), MAX_SECRET_LEN)
           name == strncpy(Word(4), MAX_DISPLAY_NAME_LEN)
           valid == /\ WordCount > 3 /\ validate_id(username)
                    /\ validate_secret(secret) /\ validate_display_name(name)
<1>1. /\ pc = "dispatch" /\ TakeWords(3) /\ state' = "AUTH"
      /\ UNCHANGED <<use_tcp_protocol, udp_retransmissions>>
  BY DEF cmd_auth, Selected
<1>2. \/ /\ valid /\ SetName(name) /\ awaiting' = TRUE /\ pc' \in {"read", "ended"}
         /\ out' = [type |-> "AUTH", fields |-> <<username, name, secret>>]
      \/ KeepName /\ pc' = "read" /\ UNCHANGED <<out, awaiting>>
  BY DEF cmd_auth, Send, SendNothing, sending
<1> HIDE DEF username, secret, name
<1>3. \E n : validate_display_name(n) /\ (SetName(n) \/ KeepName)
  BY <1>2 DEF SessionInv, NameIsValid
<1>4. /\ udp_timeout' \in 0 .. UINT16_MAX
      /\ Len(display_name') \in 1 .. MAX_DISPLAY_NAME_LEN /\ NameIsValid'
  BY <1>3, NameTypes
<1>5. /\ line' \in {NO_LINE} \cup Nat
      /\ UNCHANGED <<len, typed, unprocessed_line, at_end>>
  BY <1>1, TakeWordsTypes
<1>6. awaiting' \in BOOLEAN /\ pc' \in {"read", "ended"}
  BY <1>2 DEF SessionInv, TypeOK
<1>7. SessionInv'
  BY <1>1, <1>4, <1>5, <1>6, AfterDispatch
<1>8. CASE UNCHANGED out
  <2>1. out' = Nothing
    BY <1>1, <1>8 DEF SessionInv, LineInHand
  <2> QED
    BY <1>7, <2>1, NothingSent
<1>9. CASE /\ valid /\ SetName(name)
           /\ out' = [type |-> "AUTH", fields |-> <<username, name, secret>>]
  <2>1. /\ out'.type = "AUTH" /\ out'.fields[1] = username
        /\ out'.fields[2] = name /\ out'.fields[3] = secret /\ display_name' = name
    BY <1>9 DEF SetName
  <2>2. DottedId(username) /\ ValidName(name) /\ ValidSecret(secret)
    BY <1>9, ChecksAreTheGrammar
  <2>3. ConformingMessages'
    BY <2>1, <2>2 DEF ConformingMessages
  <2>4. /\ 2 \in 1 .. WordCount /\ 3 \in 1 .. WordCount /\ 4 \in 1 .. WordCount
    BY <1>9, CountOfWords DEF SessionInv, LineInHand
  <2>5. MAX_USERNAME_LEN \in Nat /\ MAX_SECRET_LEN \in Nat /\ MAX_DISPLAY_NAME_LEN \in Nat
    BY MaximumsAssumption
  <2>6. /\ IsPrefix(username, Word(2)) /\ IsPrefix(secret, Word(3)) /\ IsPrefix(name, Word(4))
    BY <2>4, <2>5, ParameterOfWord DEF username, secret, name
  <2>7. /\ Word(2)' = Word(2) /\ Word(3)' = Word(3) /\ Word(4)' = Word(4)
    BY <1>5, SameWords
  <2>8. SentFromThisLine'
    BY <2>1, <2>6, <2>7 DEF SentFromThisLine
  <2> QED
    BY <1>7, <2>3, <2>8 DEF SentInv
<1> QED
  BY <1>2, <1>8, <1>9

LEMMA JoinStep ==
  ASSUME SessionInv, cmd_join
  PROVE  SessionInv' /\ SentInv'
<1> DEFINE channel == strncpy(Word(2), MAX_USERNAME_LEN)
           valid == /\ WordCount > 1 /\ validate_id(channel)
                    /\ validate_display_name(display_name)
<1>1. /\ pc = "dispatch" /\ TakeWords(1)
      /\ UNCHANGED <<use_tcp_protocol, udp_timeout, udp_retransmissions, display_name>>
  BY DEF cmd_join, Selected, settings
<1>2. \/ /\ valid /\ awaiting' = TRUE /\ pc' \in {"read", "ended"} /\ state' = "JOIN"
         /\ out' = [type |-> "JOIN", fields |-> <<channel, display_name>>]
      \/ pc' = "read" /\ UNCHANGED <<out, awaiting, state>>
  BY DEF cmd_join, Send, SendNothing, sending
<1> HIDE DEF channel
<1>3. /\ udp_timeout' \in 0 .. UINT16_MAX
      /\ Len(display_name') \in 1 .. MAX_DISPLAY_NAME_LEN /\ NameIsValid'
  BY <1>1 DEF SessionInv, TypeOK, NameIsValid
<1>4. /\ line' \in {NO_LINE} \cup Nat
      /\ UNCHANGED <<len, typed, unprocessed_line, at_end>>
  BY <1>1, TakeWordsTypes
<1>5. /\ awaiting' \in BOOLEAN /\ pc' \in {"read", "ended"}
      /\ state' \in {"START", "AUTH", "OPEN", "JOIN"}
  BY <1>2 DEF SessionInv, TypeOK
<1>6. SessionInv'
  BY <1>1, <1>3, <1>4, <1>5, AfterDispatch
<1>7. CASE UNCHANGED out
  <2>1. out' = Nothing
    BY <1>1, <1>7 DEF SessionInv, LineInHand
  <2> QED
    BY <1>6, <2>1, NothingSent
<1>8. CASE valid /\ out' = [type |-> "JOIN", fields |-> <<channel, display_name>>]
  <2>1. /\ out'.type = "JOIN" /\ out'.fields[1] = channel /\ out'.fields[2] = display_name'
    BY <1>1, <1>8
  <2>2. DottedId(channel) /\ ValidName(display_name')
    BY <1>1, <1>8, ChecksAreTheGrammar
  <2>3. ConformingMessages'
    BY <2>1, <2>2 DEF ConformingMessages
  <2>4. 2 \in 1 .. WordCount
    BY <1>8, CountOfWords DEF SessionInv, LineInHand
  <2>5. MAX_USERNAME_LEN \in Nat
    BY MaximumsAssumption
  <2>6. IsPrefix(channel, Word(2))
    BY <2>4, <2>5, ParameterOfWord DEF channel
  <2>7. Word(2)' = Word(2)
    BY <1>4, SameWords
  <2>8. SentFromThisLine'
    BY <2>1, <2>6, <2>7 DEF SentFromThisLine
  <2> QED
    BY <1>6, <2>3, <2>8 DEF SentInv
<1> QED
  BY <1>2, <1>7, <1>8

(* The line that cmd_msg has is the one just read; it is never cut again.   *)
LEMMA LineAsMessage ==
  ASSUME SessionInv, pc = "dispatch"
  PROVE  /\ Message = unprocessed_line /\ unprocessed_line \in Seq(Character)
         /\ Len(unprocessed_line) <= MAX_MESSAGE_CONTENT_LEN
         /\ IsPrefix(unprocessed_line, typed)
         /\ Len(typed) < MAX_MESSAGE_CONTENT_LEN => unprocessed_line = typed
<1>1. /\ typed \in Seq(Character) /\ unprocessed_line = Unprocessed(typed)
      /\ unprocessed_line \in Seq(Character)
  BY DEF SessionInv, LineInHand
<1>2. /\ Len(unprocessed_line) < MAX_MESSAGE_CONTENT_LEN
      /\ IsPrefix(unprocessed_line, typed)
      /\ Len(typed) < MAX_MESSAGE_CONTENT_LEN => unprocessed_line = typed
  BY <1>1, UnprocessedFits
<1>3. Len(unprocessed_line) \in Nat
  BY <1>1, LenProperties
<1>4. /\ ~(Len(unprocessed_line) > MAX_MESSAGE_CONTENT_LEN)
      /\ Len(unprocessed_line) <= MAX_MESSAGE_CONTENT_LEN
  <2> DEFINE n == Len(unprocessed_line)
  <2>1. n \in Nat /\ n < MAX_MESSAGE_CONTENT_LEN /\ MAX_MESSAGE_CONTENT_LEN \in Nat
    BY <1>2, <1>3, MaximumsAssumption
  <2> HIDE DEF n
  <2>2. ~(n > MAX_MESSAGE_CONTENT_LEN) /\ n <= MAX_MESSAGE_CONTENT_LEN
    BY <2>1
  <2> QED
    BY <2>2 DEF n
<1> QED
  BY <1>1, <1>2, <1>4 DEF Message

LEMMA MsgStep ==
  ASSUME SessionInv, cmd_msg
  PROVE  SessionInv' /\ SentInv'
<1>1. /\ pc = "dispatch"
      /\ UNCHANGED <<use_tcp_protocol, udp_timeout, udp_retransmissions, line, len, typed,
                     unprocessed_line, at_end, state, display_name, awaiting>>
  BY DEF cmd_msg, Selected, settings, input, session
<1>2. \/ /\ validate_display_name(display_name)
         /\ validate_message_content(unprocessed_line)
         /\ pc' \in {"read", "ended"}
         /\ out' = [type |-> "MSG", fields |-> <<display_name, Message>>]
      \/ pc' = "read" /\ UNCHANGED out
  BY DEF cmd_msg, Send, SendNothing, sending
<1>3. SessionInv'
  <2>1. /\ line' \in {NO_LINE} \cup Nat /\ state' \in {"START", "AUTH", "OPEN", "JOIN"}
        /\ awaiting' \in BOOLEAN /\ udp_timeout' \in 0 .. UINT16_MAX
        /\ Len(display_name') \in 1 .. MAX_DISPLAY_NAME_LEN /\ NameIsValid'
        /\ pc' \in {"read", "ended", "crashed"}
    BY <1>1, <1>2 DEF SessionInv, TypeOK, NameIsValid
  <2> QED
    BY <1>1, <2>1, AfterDispatch
<1>4. CASE UNCHANGED out
  <2>1. out' = Nothing
    BY <1>1, <1>4 DEF SessionInv, LineInHand
  <2> QED
    BY <1>3, <2>1, NothingSent
<1>5. CASE /\ validate_display_name(display_name)
           /\ validate_message_content(unprocessed_line)
           /\ out' = [type |-> "MSG", fields |-> <<display_name, Message>>]
  <2>1. /\ Message = unprocessed_line /\ unprocessed_line \in Seq(Character)
        /\ Len(unprocessed_line) <= MAX_MESSAGE_CONTENT_LEN
        /\ IsPrefix(unprocessed_line, typed)
        /\ Len(typed) < MAX_MESSAGE_CONTENT_LEN => unprocessed_line = typed
    BY <1>1, LineAsMessage
  <2>2. /\ out'.type = "MSG" /\ out'.fields[1] = display_name
        /\ out'.fields[2] = unprocessed_line
    BY <1>5, <2>1
  <2>3. ValidName(display_name) /\ ValidContent(unprocessed_line)
    BY <1>5, <2>1, ChecksAreTheGrammar
  <2>4. ConformingMessages'
    BY <2>2, <2>3 DEF ConformingMessages
  <2>5. SentFromThisLine'
    BY <1>1, <2>1, <2>2 DEF SentFromThisLine
  <2> QED
    BY <1>3, <2>4, <2>5 DEF SentInv
<1> QED
  BY <1>2, <1>4, <1>5

(* The steps that send nothing, a BYE, and the answer of the server. *)
LEMMA OtherSteps ==
  ASSUME SessionInv, SentInv,
         \/ Start \/ ReadError \/ BlankLine \/ Refuse \/ cmd_help \/ Ended \/ UNCHANGED pvars
         \/ \E l \in Lines : GetLineCrashes(l)
  PROVE  SessionInv' /\ SentInv'
<1>1. /\ UNCHANGED <<use_tcp_protocol, udp_timeout, udp_retransmissions, line, len, typed,
                     unprocessed_line, at_end, state, display_name, awaiting, out>>
      /\ pc' \in {pc, "read", "ended", "crashed"}
  BY DEF Start, ReadError, BlankLine, Refuse, cmd_help, Ended, pvars, GetLineCrashes,
         settings, input, session, sending
<1>2. TypeOK'
  BY <1>1 DEF SessionInv, TypeOK
<1>3. LineInHand' /\ NameIsValid'
  BY <1>1 DEF SessionInv, LineInHand, NameIsValid
<1>4. SentInv'
  BY <1>1, SentStays
<1> QED
  BY <1>2, <1>3, <1>4 DEF SessionInv

LEMMA QuitStep ==
  ASSUME SessionInv, graceful_quit
  PROVE  SessionInv' /\ SentInv'
<1>1. /\ UNCHANGED <<use_tcp_protocol, udp_timeout, udp_retransmissions, line, len, typed,
                     unprocessed_line, at_end, state, display_name, awaiting>>
      /\ pc' = "ended" /\ out' = [type |-> "BYE", fields |-> <<display_name>>]
  BY DEF graceful_quit, settings, input, session
<1>2. TypeOK'
  BY <1>1 DEF SessionInv, TypeOK
<1>3. LineInHand' /\ NameIsValid'
  BY <1>1 DEF SessionInv, LineInHand, NameIsValid
<1>4. out'.type = "BYE" /\ out'.fields[1] = display_name
  BY <1>1
<1>5. ValidName(display_name)
  BY ChecksAreTheGrammar DEF SessionInv, NameIsValid
<1>6. SentInv'
  BY <1>4, <1>5 DEF SentInv, ConformingMessages, SentFromThisLine
<1> QED
  BY <1>2, <1>3, <1>6 DEF SessionInv

LEMMA ReplyStep ==
  ASSUME SessionInv, SentInv, NEW ok \in BOOLEAN, Reply(ok)
  PROVE  SessionInv' /\ SentInv'
<1>1. /\ UNCHANGED <<use_tcp_protocol, udp_timeout, udp_retransmissions, line, len, typed,
                     unprocessed_line, at_end, display_name, out, pc>>
      /\ state' \in {state, "OPEN"} /\ awaiting' = FALSE
  BY DEF Reply, settings, input, sending
<1>2. TypeOK'
  BY <1>1 DEF SessionInv, TypeOK
<1>3. LineInHand' /\ NameIsValid'
  BY <1>1 DEF SessionInv, LineInHand, NameIsValid
<1>4. SentInv'
  BY <1>1, SentStays
<1> QED
  BY <1>2, <1>3, <1>4 DEF SessionInv

LEMMA SessionInit == Init => SessionInv /\ SentInv
<1> SUFFICES ASSUME Init PROVE SessionInv /\ SentInv
  OBVIOUS
<1>1. /\ use_tcp_protocol = -1 /\ udp_timeout = 250 /\ udp_retransmissions = 3
      /\ pc = "args" /\ state = "START" /\ display_name = DEFAULT_DISPLAY_NAME
      /\ awaiting = FALSE /\ line = NO_LINE /\ len = 0 /\ typed = <<>>
      /\ unprocessed_line = <<>> /\ at_end = FALSE /\ out = Nothing
  BY DEF Init, ArgumentsInit
<1>2. validate_display_name(display_name)
  BY <1>1, ProgramAssumption
<1>3. Len(display_name) \in 1 .. MAX_DISPLAY_NAME_LEN
  BY <1>2 DEF validate_display_name
<1>4. Len(unprocessed_line) < MAX_MESSAGE_CONTENT_LEN
  BY <1>1, MaximumsAssumption
<1>5. 250 \in 0 .. UINT16_MAX /\ 3 \in 0 .. UINT8_MAX
  BY DEF UINT16_MAX, UINT8_MAX
<1>6. TypeOK
  BY <1>1, <1>3, <1>4, <1>5 DEF TypeOK
<1>7. LineInHand /\ NameIsValid
  BY <1>1, <1>2, EmptySeq DEF LineInHand, NameIsValid
<1>8. SentInv
  BY <1>1 DEF SentInv, ConformingMessages, SentFromThisLine, Nothing
<1> QED
  BY <1>6, <1>7, <1>8 DEF SessionInv

LEMMA SessionStep ==
  ASSUME SessionInv, SentInv, [Next]_pvars
  PROVE  SessionInv' /\ SentInv'
<1>1. CASE Parse
  <2>1. UNCHANGED <<typed, display_name, out>>
    BY <1>1 DEF Parse, input, session, sending
  <2> QED
    BY <1>1, <2>1, ParsedTypes, SentStays
<1>2. ASSUME NEW l \in Lines, GetLine(l) PROVE SessionInv' /\ SentInv'
  <2>1. out' = Nothing
    BY <1>2 DEF GetLine
  <2> QED
    BY <1>2, <2>1, GetLineTypes, NothingSent
<1>3. ASSUME NEW ok \in BOOLEAN, Reply(ok) PROVE SessionInv' /\ SentInv'
  BY <1>3, ReplyStep
<1>4. CASE cmd_rename
  BY <1>4, RenameStep
<1>5. CASE cmd_auth
  BY <1>5, AuthStep
<1>6. CASE cmd_join
  BY <1>6, JoinStep
<1>7. CASE cmd_msg
  BY <1>7, MsgStep
<1>8. CASE graceful_quit
  BY <1>8, QuitStep
<1>9. CASE \/ Start \/ ReadError \/ BlankLine \/ Refuse \/ cmd_help \/ Ended \/ UNCHANGED pvars
           \/ \E l \in Lines : GetLineCrashes(l)
  BY <1>9, OtherSteps
<1> QED
  BY <1>1, <1>2, <1>3, <1>4, <1>5, <1>6, <1>7, <1>8, <1>9 DEF Next, Dispatch

-----------------------------------------------------------------------------
(* main's variables keep their types, for lines and words of any length:    *)
(* the name in force is never longer than its array, the timeout a 16-bit   *)
(* number even after strcpy has written behind the name, and                *)
(* unprocessed_line always has room for its NUL.                            *)
THEOREM ProgramTypes == Spec => []TypeOK
<1>1. SessionInv /\ SentInv => TypeOK
  BY DEF SessionInv
<1> QED
  BY <1>1, SessionInit, SessionStep, PTL DEF Spec

(* No message, whatever is typed and in whatever order, has a parameter     *)
(* outside the grammar, but for a dot in a username or a channel; the name  *)
(* that MSG, JOIN and BYE take over from an earlier line is valid since it  *)
(* was checked then (NameIsValid).                                          *)
THEOREM OnlyConformingMessages == Spec => []ConformingMessages
<1>1. SentInv => ConformingMessages
  BY DEF SentInv
<1> QED
  BY <1>1, SessionInit, SessionStep, PTL DEF Spec

(* What is sent comes from the line just read, of any length, and the name  *)
(* in force: nothing of an earlier line is left in unprocessed_line.        *)
THEOREM NothingOfEarlierLines == Spec => []SentFromThisLine
<1>1. SentInv => SentFromThisLine
  BY DEF SentInv
<1> QED
  BY <1>1, SessionInit, SessionStep, PTL DEF Spec

(* A line without a command is a message, to be sent in state OPEN alone. *)
LEMMA OnlyOpenSendsMessages ==
  ASSUME TypeOK
  PROVE  "msg" \in Accepted[state] <=> state = "OPEN"
BY DEF TypeOK, Accepted, state_start_logic, state_auth_logic, state_open_logic, state_join_logic

LEMMA PrintableIsContent ==
  ASSUME SessionInv, pc = "dispatch", MAX_MESSAGE_CONTENT_LEN > 1,
         \A i \in 1 .. Len(typed) : typed[i] \in 32 .. 126
  PROVE  validate_message_content(unprocessed_line)
<1> DEFINE n == Len(typed)
           M == MAX_MESSAGE_CONTENT_LEN
           m == IF n < M - 1 THEN n ELSE M - 1
           u == unprocessed_line
           k == Len(u)
<1>1. typed \in Seq(Character) /\ typed # <<>> /\ u = Unprocessed(typed)
  BY DEF SessionInv, LineInHand
<1>2. n \in Nat \ {0} /\ M \in Nat /\ M > 1
  BY <1>1, EmptySeq, MaximumsAssumption
<1>3. u = SubSeq(typed, 1, m)
  BY <1>1 DEF Unprocessed, strncpy
<1>4. k = m /\ u \in Seq(Character)
  BY <1>1, UnprocessedFits
<1> HIDE DEF n, M
<1>5. m \in 1 .. n /\ m \in Int
  BY <1>2
<1> HIDE DEF m
<1>6. \A i \in 1 .. m : i \in 1 .. n
  BY <1>2, <1>5
<1>7. \A i \in 1 .. m : typed[i] \in Character
  BY <1>1, <1>6, ElementOfSeq DEF n
<1>8. \A i \in 1 .. m - 1 + 1 : u[i] = typed[1 + i - 1]
  BY <1>3, <1>5, <1>7, SubSeqProperties
<1> HIDE DEF u, k
<1>9. \A i \in 1 .. k : u[i] \in 32 .. 126
  <2>1. \A i \in 1 .. k : i \in 1 .. m - 1 + 1 /\ 1 + i - 1 = i /\ i \in 1 .. n
    BY <1>4, <1>5, <1>6
  <2> QED
    BY <2>1, <1>8 DEF n
<1>10. u # <<>>
  <2>1. k # 0
    BY <1>4, <1>5
  <2> QED
    BY <2>1, EmptySeq DEF k
<1> QED
  BY <1>9, <1>10 DEF validate_message_content, EveryCharacter, u, k

LEMMA ChatLineStep ==
  ASSUME MAX_MESSAGE_CONTENT_LEN > 1, SessionInv, [Next]_pvars,
         pc = "dispatch", pc' # "dispatch", out'.type # "BYE", WordCount > 0,
         \A c \in Commands : CommandWords[c] # Word(1),
         \A i \in 1 .. Len(typed) : typed[i] \in 32 .. 126
  PROVE  out'.type = "MSG" <=> state = "OPEN"
<1>1. Command = "msg"
  BY DEF Command
<1>2. "msg" \in Accepted[state] <=> state = "OPEN"
  BY OnlyOpenSendsMessages DEF SessionInv
<1>3. Refuse \/ cmd_msg
  <2>1. ~Parse /\ ~Start /\ ~ReadError /\ ~UNCHANGED pvars /\ ~Ended /\ ~graceful_quit
    BY DEF Parse, parse_args, NoMatch, Protocol, Host, Port, Timeout, Retransmissions, Refused,
           Matches, Parsing, Start, Parsed, ReadError, pvars, Ended, graceful_quit
  <2>2. \A l \in Lines : ~GetLine(l) /\ ~GetLineCrashes(l)
    BY DEF GetLine, GetLineCrashes
  <2>3. \A ok \in BOOLEAN : ~Reply(ok)
    BY DEF Reply
  <2>4. ~BlankLine /\ ~cmd_help /\ ~cmd_rename /\ ~cmd_auth /\ ~cmd_join
    BY <1>1 DEF BlankLine, cmd_help, cmd_rename, cmd_auth, cmd_join, Selected
  <2> QED
    BY <2>1, <2>2, <2>3, <2>4 DEF Next, Dispatch
<1>4. CASE Refuse
  <2>1. out' = Nothing
    BY <1>4 DEF Refuse, sending, SessionInv, LineInHand
  <2>2. state # "OPEN"
    BY <1>1, <1>2, <1>4 DEF Refuse
  <2> QED
    BY <2>1, <2>2 DEF Nothing
<1>5. CASE cmd_msg
  <2>1. state = "OPEN"
    BY <1>2, <1>5 DEF cmd_msg, Selected
  <2>2. validate_display_name(display_name) /\ validate_message_content(unprocessed_line)
    BY PrintableIsContent DEF SessionInv, NameIsValid
  <2>3. out'.type = "MSG"
    BY <1>5, <2>2 DEF cmd_msg, Send
  <2> QED
    BY <2>1, <2>3
<1> QED
  BY <1>3, <1>4, <1>5

(* A line that is no command and holds only characters of the grammar is    *)
(* sent if the session is open when it is dispatched, and not otherwise,    *)
(* for lines of any length.  A limit of one character would leave no room   *)
(* for any message beside its NUL, hence the hypothesis.                    *)
THEOREM ChatLinesAreSent ==
  ASSUME MAX_MESSAGE_CONTENT_LEN > 1
  PROVE  Spec => EveryChatLineIsSent
<1> DEFINE Step == /\ pc = "dispatch" /\ pc' # "dispatch" /\ out'.type # "BYE" /\ WordCount > 0
                   /\ \A c \in Commands : CommandWords[c] # Word(1)
                   /\ \A i \in 1 .. Len(typed) : typed[i] \in 32 .. 126
                   => (out'.type = "MSG" <=> state = "OPEN")
<1>1. SessionInv /\ [Next]_pvars => [Step]_pvars
  BY ChatLineStep
<1> QED
  BY <1>1, SessionInit, SessionStep, PTL DEF Spec, EveryChatLineIsSent

-----------------------------------------------------------------------------
(* The positions before n where a flag is given, and the value it has by    *)
(* then; the settings as parse_args has them when it has read that far.     *)
Before(flag, n) == {k \in FlagPositions : argv[k] = flag /\ k < n}
LastOf(P) == CHOOSE k \in P : \A j \in P : j <= k
GivenBefore(flag, default, n) ==
    IF Before(flag, n) = {} THEN default ELSE argv[LastOf(Before(flag, n)) + 1]

SettingsBefore(n) ==
    /\ use_tcp_protocol = IF GivenBefore("-t", NULL, n) = "tcp" THEN 1
                          ELSE IF GivenBefore("-t", NULL, n) = "udp" THEN 0 ELSE -1
    /\ hostname = GivenBefore("-s", NULL, n) /\ port = GivenBefore("-p", "4567", n)
    /\ udp_timeout = uint16_t(Numbers[GivenBefore("-d", "250", n)])
    /\ udp_retransmissions = uint8_t(Numbers[GivenBefore("-r", "3", n)])

(* parse_args reads the flags one by one: at a flag, those before the one   *)
(* it is compared with next did not match; at a value, none will.           *)
ScanInv ==
    pc = "args" /\ WellFormed =>
        /\ argi \in Nat \ {0} /\ test \in 1 .. 6
        /\ SettingsBefore(argi)
        /\ argi % 2 = 1 /\ argi <= Len(argv) =>
             \A t \in 1 .. test - 1 : argv[argi] # Flags[t]

(* A flag read now is the last one given; the others stay as they were. *)
LEMMA OneFlagMore ==
  ASSUME NEW n \in FlagPositions, NEW flag, NEW default
  PROVE  GivenBefore(flag, default, n + 1) =
             IF argv[n] = flag THEN argv[n + 1] ELSE GivenBefore(flag, default, n)
<1> DEFINE P == Before(flag, n)
           Q == Before(flag, n + 1)
<1>1. FlagPositions \subseteq Int /\ n \in Int
  BY DEF FlagPositions
<1>2. CASE argv[n] = flag
  <2>1. n \in Q /\ \A j \in Q : j \in Int /\ j <= n
    BY <1>1, <1>2 DEF Before
  <2> HIDE DEF Q
  <2>2. \A k \in Q : (\A j \in Q : j <= k) => k = n
    BY <2>1, <1>1
  <2>3. LastOf(Q) = n
    BY <2>1, <2>2 DEF LastOf
  <2> QED
    BY <2>1, <2>3, <1>2 DEF GivenBefore, Q
<1>3. CASE argv[n] # flag
  <2>0. \A k \in FlagPositions : argv[k] = flag => (k < n + 1 <=> k < n)
    BY <1>1, <1>3
  <2>1. Q = P
    BY <2>0 DEF Before
  <2> QED
    BY <2>1, <1>3 DEF GivenBefore
<1> QED
  BY <1>2, <1>3

(* A value is no flag. *)
LEMMA NoFlagMore ==
  ASSUME NEW n \in Nat, n \notin FlagPositions, NEW flag, NEW default
  PROVE  GivenBefore(flag, default, n + 1) = GivenBefore(flag, default, n)
<1>1. FlagPositions \subseteq Int
  BY DEF FlagPositions
<1>0. \A k \in FlagPositions : k < n + 1 <=> k < n
  BY <1>1
<1>2. Before(flag, n + 1) = Before(flag, n)
  BY <1>0 DEF Before
<1> QED
  BY <1>2 DEF GivenBefore

(* At the end all has been read. *)
LEMMA AllGiven ==
  ASSUME argv \in Seq(STRING), NEW n \in Nat, n > Len(argv), NEW flag, NEW default
  PROVE  GivenBefore(flag, default, n) = Given(flag, default)
<1> DEFINE l == Len(argv)
<1>1. l \in Nat
  BY LenProperties
<1>2. \A k \in FlagPositions : k \in 1 .. l
  BY DEF FlagPositions
<1> HIDE DEF l
<1>3. \A k \in FlagPositions : k < n
  <2>1. n > l
    BY DEF l
  <2> QED
    BY <2>1, <1>1, <1>2
<1>4. Before(flag, n) = {k \in FlagPositions : argv[k] = flag}
  BY <1>3 DEF Before
<1> QED
  BY <1>4 DEF GivenBefore, Given, LastOf

LEMMA SameGiven ==
  ASSUME argv' = argv, NEW flag, NEW default, NEW n
  PROVE  GivenBefore(flag, default, n)' = GivenBefore(flag, default, n)
BY DEF GivenBefore, Before, FlagPositions

(* Each comparison keeps the settings in step with what has been read. *)
LEMMA ScanStep ==
  ASSUME ScanInv, argv \in Seq(STRING), parse_args
  PROVE  ScanInv'
<1> SUFFICES ASSUME pc' = "args", WellFormed' PROVE ScanInv'
  BY DEF ScanInv
<1>1. /\ pc = "args" /\ argv' = argv /\ argi <= Len(argv)
  BY DEF parse_args, NoMatch, Protocol, Host, Port, Timeout, Retransmissions, Refused, Matches,
         Parsing, Proceed
<1>2. WellFormed
  BY <1>1 DEF WellFormed, FlagPositions
<1>3. PICK n : n = argi
  OBVIOUS
<1>4. /\ n \in Nat \ {0} /\ test \in 1 .. 6 /\ SettingsBefore(n)
      /\ n % 2 = 1 => \A t \in 1 .. test - 1 : argv[n] # Flags[t]
  BY <1>1, <1>2, <1>3 DEF ScanInv
<1>5. ~Refused
  BY <1>1 DEF Refused
<1>6. n \in FlagPositions <=> n % 2 = 1
  <2> DEFINE l == Len(argv)
  <2>1. l \in Nat /\ n <= l
    BY <1>1, <1>3, LenProperties
  <2> HIDE DEF l
  <2>2. n \in 1 .. l
    BY <2>1, <1>4
  <2> QED
    BY <2>2 DEF FlagPositions, l
<1>7. n \in FlagPositions => argv[n] \in {"-t", "-s", "-p", "-d", "-r"}
  BY <1>2 DEF WellFormed
<1>8. n \notin FlagPositions => \A t \in 1 .. 6 : argv[n] # Flags[t]
  <2> SUFFICES ASSUME n \notin FlagPositions PROVE \A t \in 1 .. 6 : argv[n] # Flags[t]
    OBVIOUS
  <2> DEFINE l == Len(argv)
             k == n - 1
  <2>1. l \in Nat /\ n <= l
    BY <1>1, <1>3, LenProperties
  <2> HIDE DEF l
  <2>2. k \in 1 .. l /\ k % 2 = 1 /\ k + 1 = n
    BY <2>1, <1>4, <1>6
  <2> HIDE DEF k
  <2>3. k \in FlagPositions
    BY <2>2 DEF FlagPositions, l
  <2>4. \A f \in 1 .. Len(Flags) : argv[k + 1] # Flags[f]
    BY <1>2, <2>3 DEF WellFormed
  <2>5. Len(Flags) = 6
    BY DEF Flags
  <2> QED
    BY <2>2, <2>4, <2>5
<1>9. n \in FlagPositions => (n + 1) % 2 = 0
  BY <1>4, <1>6
<1>10. n \notin FlagPositions => (n + 1) % 2 = 1
  BY <1>4, <1>6
<1>11. /\ Flags[1] = "-t" /\ Flags[2] = "-s" /\ Flags[3] = "-p" /\ Flags[4] = "-d"
       /\ Flags[5] = "-r" /\ Flags[6] = "-h" /\ Len(Flags) = 6
  BY DEF Flags
<1>12. SettingsBefore(n + 1)' <=>
         /\ use_tcp_protocol' = IF GivenBefore("-t", NULL, n + 1) = "tcp" THEN 1
                                ELSE IF GivenBefore("-t", NULL, n + 1) = "udp" THEN 0 ELSE -1
         /\ hostname' = GivenBefore("-s", NULL, n + 1)
         /\ port' = GivenBefore("-p", "4567", n + 1)
         /\ udp_timeout' = uint16_t(Numbers[GivenBefore("-d", "250", n + 1)])
         /\ udp_retransmissions' = uint8_t(Numbers[GivenBefore("-r", "3", n + 1)])
  BY <1>1, SameGiven DEF SettingsBefore
<1>13. ASSUME n \in FlagPositions, SettingsBefore(n + 1)', argi' = n + 1, test' \in 1 .. 6
       PROVE  ScanInv'
  <2>1. argi' % 2 # 1 /\ argi' \in Nat \ {0}
    BY <1>4, <1>9, <1>13
  <2>2. SettingsBefore(argi)'
    BY <1>13 DEF SettingsBefore
  <2> QED
    BY <2>1, <2>2, <1>13 DEF ScanInv
<1>14. CASE NoMatch
  <2>1. /\ argv[n] # Flags[test]
        /\ test' = IF test < 6 THEN test + 1 ELSE 1
        /\ argi' = IF test < 6 THEN n ELSE n + 1
        /\ UNCHANGED settings
    BY <1>14, <1>3, <1>11 DEF NoMatch, Proceed
  <2>2. CASE test < 6
    <3>1. test' = test + 1 /\ test' \in 1 .. 6 /\ argi' = n
      BY <2>1, <2>2, <1>4
    <3>2. SettingsBefore(n)' <=> SettingsBefore(n)
      BY <2>1, <1>1, SameGiven DEF SettingsBefore, settings
    <3>3. SettingsBefore(argi)'
      BY <3>1, <3>2, <1>4 DEF SettingsBefore
    <3>4. n % 2 = 1 => \A t \in 1 .. test' - 1 : argv[n] # Flags[t]
      <4>1. \A t \in 1 .. test' - 1 : t \in 1 .. test - 1 \/ t = test
        BY <3>1, <1>4
      <4> QED
        BY <4>1, <2>1, <1>4
    <3> QED
      BY <3>1, <3>3, <3>4, <1>1, <1>4 DEF ScanInv
  <2>3. CASE ~(test < 6)
    <3>1. test = 6 /\ test' = 1 /\ argi' = n + 1
      BY <2>1, <2>3, <1>4
    <3>2. n \notin FlagPositions
      <4> SUFFICES ASSUME n \in FlagPositions PROVE FALSE
        OBVIOUS
      <4>1. \A t \in 1 .. 5 : argv[n] # Flags[t]
        BY <3>1, <1>4, <1>6
      <4> QED
        BY <4>1, <1>7, <1>11
    <3>3. SettingsBefore(n + 1)'
      BY <2>1, <3>2, <1>4, <1>12, NoFlagMore DEF SettingsBefore, settings
    <3>4. SettingsBefore(argi)'
      BY <3>1, <3>3 DEF SettingsBefore
    <3>5. argi' \in Nat \ {0} /\ test' \in 1 .. 6 /\ \A t \in 1 .. test' - 1 : FALSE
      BY <3>1, <1>4
    <3> QED
      BY <3>4, <3>5 DEF ScanInv
  <2> QED
    BY <2>2, <2>3
<1>15. CASE Protocol
  <2>1. argv[n] = "-t" /\ Value = argv[n + 1] /\ argi' = n + 1 /\ test' \in 1 .. 6
    BY <1>15, <1>3, <1>4, <1>11 DEF Protocol, Matches, Parsing, Proceed, Value
  <2>2. n \in FlagPositions
    <3>1. \E t \in 1 .. 6 : argv[n] = Flags[t]
      BY <2>1, <1>11
    <3> QED
      BY <3>1, <1>8
  <2>3. SettingsBefore(n + 1)'
    BY <1>15, <1>4, <1>12, <2>1, <2>2, OneFlagMore DEF Protocol, SettingsBefore
  <2> QED
    BY <1>13, <2>1, <2>2, <2>3
<1>16. CASE Host
  <2>1. argv[n] = "-s" /\ Value = argv[n + 1] /\ argi' = n + 1 /\ test' \in 1 .. 6
    BY <1>16, <1>3, <1>4, <1>11 DEF Host, Matches, Parsing, Proceed, Value
  <2>2. n \in FlagPositions
    <3>1. \E t \in 1 .. 6 : argv[n] = Flags[t]
      BY <2>1, <1>11
    <3> QED
      BY <3>1, <1>8
  <2>3. SettingsBefore(n + 1)'
    BY <1>16, <1>4, <1>12, <2>1, <2>2, OneFlagMore DEF Host, SettingsBefore
  <2> QED
    BY <1>13, <2>1, <2>2, <2>3
<1>17. CASE Port
  <2>1. argv[n] = "-p" /\ Value = argv[n + 1] /\ argi' = n + 1 /\ test' \in 1 .. 6
    BY <1>17, <1>3, <1>4, <1>11 DEF Port, Matches, Parsing, Proceed, Value
  <2>2. n \in FlagPositions
    <3>1. \E t \in 1 .. 6 : argv[n] = Flags[t]
      BY <2>1, <1>11
    <3> QED
      BY <3>1, <1>8
  <2>3. SettingsBefore(n + 1)'
    BY <1>17, <1>4, <1>12, <2>1, <2>2, OneFlagMore DEF Port, SettingsBefore
  <2> QED
    BY <1>13, <2>1, <2>2, <2>3
<1>18. CASE Timeout
  <2>1. argv[n] = "-d" /\ Value = argv[n + 1] /\ argi' = n + 1 /\ test' \in 1 .. 6
    BY <1>18, <1>3, <1>4, <1>11 DEF Timeout, Matches, Parsing, Proceed, Value
  <2>2. n \in FlagPositions
    <3>1. \E t \in 1 .. 6 : argv[n] = Flags[t]
      BY <2>1, <1>11
    <3> QED
      BY <3>1, <1>8
  <2>3. SettingsBefore(n + 1)'
    BY <1>18, <1>4, <1>12, <2>1, <2>2, OneFlagMore DEF Timeout, SettingsBefore
  <2> QED
    BY <1>13, <2>1, <2>2, <2>3
<1>19. CASE Retransmissions
  <2>1. argv[n] = "-r" /\ Value = argv[n + 1] /\ argi' = n + 1 /\ test' \in 1 .. 6
    BY <1>19, <1>3, <1>4, <1>11 DEF Retransmissions, Matches, Parsing, Proceed, Value
  <2>2. n \in FlagPositions
    <3>1. \E t \in 1 .. 6 : argv[n] = Flags[t]
      BY <2>1, <1>11
    <3> QED
      BY <3>1, <1>8
  <2>3. SettingsBefore(n + 1)'
    BY <1>19, <1>4, <1>12, <2>1, <2>2, OneFlagMore DEF Retransmissions, SettingsBefore
  <2> QED
    BY <1>13, <2>1, <2>2, <2>3
<1> QED
  BY <1>5, <1>14, <1>15, <1>16, <1>17, <1>18, <1>19 DEF parse_args

LEMMA ScanInit == Init => ScanInv /\ argv \in Seq(STRING)
<1> SUFFICES ASSUME Init PROVE ScanInv /\ argv \in Seq(STRING)
  OBVIOUS
<1>1. /\ argv \in CommandLines /\ argi = 1 /\ test = 1 /\ use_tcp_protocol = -1 /\ hostname = NULL
      /\ port = "4567" /\ udp_timeout = 250 /\ udp_retransmissions = 3
  BY DEF Init, ArgumentsInit
<1>2. argv \in Seq(STRING)
  BY <1>1, ArgumentsAssumption
<1>3. \A flag : Before(flag, 1) = {}
  BY DEF Before, FlagPositions
<1>4. \A flag, default : GivenBefore(flag, default, 1) = default
  BY <1>3 DEF GivenBefore
<1>5. uint16_t(Numbers["250"]) = 250 /\ uint8_t(Numbers["3"]) = 3
  BY ArgumentsAssumption DEF uint16_t, uint8_t, UINT16_MAX, UINT8_MAX
<1>6. NULL # "tcp" /\ NULL # "udp"
  BY DEF NULL
<1>7. SettingsBefore(argi)
  BY <1>1, <1>4, <1>5, <1>6 DEF SettingsBefore
<1>8. argi \in Nat \ {0} /\ test \in 1 .. 6 /\ \A t \in 1 .. test - 1 : FALSE
  BY <1>1
<1> QED
  BY <1>2, <1>7, <1>8 DEF ScanInv

LEMMA ScanNext ==
  ASSUME ScanInv, argv \in Seq(STRING), [Next]_pvars
  PROVE  ScanInv' /\ argv' \in Seq(STRING)
<1>1. CASE parse_args
  <2>1. argv' = argv
    BY <1>1 DEF parse_args, NoMatch, Protocol, Host, Port, Timeout, Retransmissions, Refused,
                Proceed
  <2> QED
    BY <1>1, <2>1, ScanStep
<1>2. CASE ~parse_args
  <2>1. /\ argv' = argv
        /\ pc' = "args" => pc = "args" /\ UNCHANGED <<argi, test>> /\ UNCHANGED settings
    BY <1>2 DEF Next, Dispatch, Parse, Start, ReadError, BlankLine, Refuse, cmd_help, cmd_rename,
                cmd_auth, cmd_join, cmd_msg, Selected, Send, SendNothing, graceful_quit, Ended, pvars,
                position, settings, GetLine, GetLineCrashes, Reply
  <2>2. CASE pc' = "args"
    <3>1. WellFormed' <=> WellFormed
      BY <2>1 DEF WellFormed, FlagPositions
    <3>2. PICK n : n = argi
      OBVIOUS
    <3>3. SettingsBefore(n)' <=> SettingsBefore(n)
      BY <2>1, <2>2, SameGiven DEF SettingsBefore, settings
    <3>4. SettingsBefore(argi)' <=> SettingsBefore(argi)
      BY <2>1, <2>2, <3>2, <3>3 DEF SettingsBefore
    <3> QED
      BY <2>1, <2>2, <3>1, <3>4 DEF ScanInv
  <2>3. CASE pc' # "args"
    BY <2>1, <2>3 DEF ScanInv
  <2> QED
    BY <2>2, <2>3, <2>1
<1> QED
  BY <1>1, <1>2

(* For every well-formed command line, of any length and in any order, the   *)
(* settings are those given last, or the defaults: comparing a flag's value  *)
(* with the flags behind it in the list never takes it for a flag, and no    *)
(* flag is passed over.                                                      *)
THEOREM SettingsFollowCommandLine == Spec => []SettingsAsGiven
<1>1. ScanInv /\ argv \in Seq(STRING) => SettingsAsGiven
  <2> SUFFICES ASSUME ScanInv, argv \in Seq(STRING), Parsed, WellFormed
               PROVE  SettingsAsGiven
    BY DEF SettingsAsGiven
  <2>1. argi \in Nat /\ argi > Len(argv) /\ SettingsBefore(argi)
    <3>1. pc = "args" /\ argi > Len(argv)
      BY DEF Parsed
    <3> QED
      BY <3>1 DEF ScanInv
  <2>2. \A flag, default : GivenBefore(flag, default, argi) = Given(flag, default)
    <3> TAKE flag, default
    <3>1. PICK n : n = argi
      OBVIOUS
    <3>2. n \in Nat /\ n > Len(argv)
      BY <2>1, <3>1
    <3> QED
      BY <3>1, <3>2, AllGiven
  <2> QED
    BY <2>1, <2>2 DEF SettingsAsGiven, SettingsBefore, uint16_t, uint8_t
<1>2. Init => ScanInv /\ argv \in Seq(STRING)
  BY ScanInit
<1>3. ScanInv /\ argv \in Seq(STRING) /\ [Next]_pvars => (ScanInv /\ argv \in Seq(STRING))'
  BY ScanNext
<1> QED
  BY <1>1, <1>2, <1>3, PTL DEF Spec

-----------------------------------------------------------------------------
(* A server that reads between two keywords finds what stands there. *)
LEMMA FieldBetween ==
  ASSUME NEW t, NEW S \in SUBSET Nat, NEW p \in Seq(S), NEW f, NEW i, Key(f, i, S),
         NEW v \in Seq(Nat), NEW T \in SUBSET Nat, (p \o f) \o v \in Seq(T),
         NEW l, NEW j, Key(l, j, T), Begins(t, ((p \o f) \o v) \o l)
  PROVE  Between(t, f, l) = v
<1> DEFINE w == (p \o f) \o v
<1>1. w \in Seq(T) /\ Begins(t, w \o l)
  OBVIOUS
<1>2. /\ Len(w) \in Nat /\ w \in Seq(Nat) /\ First(Occurrences(t, l, 1)) = Len(w) + 1
  BY <1>1, FoundBehind
<1>3. f \in Seq(Nat) /\ l \in Seq(Nat) /\ t \in Seq(Nat)
  BY DEF Key, Begins
<1>4. p \in Seq(Nat)
  BY SeqOfSubset
<1>5. /\ p \o f \in Seq(Nat) /\ Len(p) \in Nat /\ Len(f) \in Nat
      /\ Len(p \o f) = Len(p) + Len(f)
  BY <1>3, <1>4, Joined
<1>6. Begins(w \o l, w) /\ Begins(w, p \o f)
  BY <1>2, <1>3, <1>5, BeginsJoined
<1>7. Begins(t, w) /\ Begins(t, p \o f)
  BY <1>1, <1>6, BeginsTransitive
<1>8. First(Occurrences(t, f, 1)) = Len(p) + 1
  BY <1>7, FoundBehind
<1>9. /\ Len(w) = Len(p \o f) + Len(v) /\ Piece(w, Len(p \o f), v, Len(v)) /\ Len(v) \in Nat
  BY <1>5, Joined
<1>10. Len(w) <= Len(t) /\ Piece(t, 0, w, Len(w))
  BY <1>7 DEF Begins
<1> DEFINE a == Len(p \o f)
           b == Len(v)
           c == Len(w)
           x == Len(p)
           y == Len(f)
<1> HIDE DEF w
<1>11. Piece(t, 0 + a, v, b)
  <2> HIDE DEF a, b, c
  <2>1. 0 \in Nat /\ a \in Nat /\ b \in Nat /\ c \in Nat /\ a + b <= c
    BY <1>2, <1>5, <1>9 DEF a, b, c
  <2> QED
    BY <2>1, <1>9, <1>10, PieceOfPiece DEF a, b, c
<1> HIDE DEF a, b, c, x, y
<1>12. a \in Nat /\ b \in Nat /\ c = a + b /\ 0 + a = a /\ x \in Nat /\ y \in Nat /\ a = x + y
  BY <1>5, <1>9 DEF a, b, c, x, y
<1>13. SubSeq(t, a + 1, a + b) = v
  <2>1. a + b <= Len(t)
    BY <1>10, <1>12 DEF c
  <2> QED
    BY <1>3, <1>11, <1>12, <2>1, PieceIsPart DEF b
<1>14. x + 1 + y = a + 1 /\ c + 1 - 1 = a + b
  BY <1>12
<1>15. Between(t, f, l) = SubSeq(t, x + 1 + y, c + 1 - 1)
  <2>1. First(Occurrences(t, f, 1)) = x + 1 /\ First(Occurrences(t, l, 1)) = c + 1
    BY <1>2, <1>8 DEF x, c
  <2> DEFINE A == First(Occurrences(t, f, 1))
             B == First(Occurrences(t, l, 1))
  <2>2. Between(t, f, l) = SubSeq(t, A + y, B - 1)
    BY DEF Between, y
  <2> HIDE DEF A, B
  <2>3. A = x + 1 /\ B = c + 1
    BY <2>1 DEF A, B
  <2>4. A + y = x + 1 + y /\ B - 1 = c + 1 - 1
    BY <2>3, <1>12
  <2> QED
    BY <2>2, <2>4, Zenon
<1> QED
  BY <1>13, <1>14, <1>15

LEMMA TerminatedText ==
  ASSUME NEW v \in Seq(Character)
  PROVE  /\ v \in Seq(Nat) /\ Terminated(v) \in Seq(Nat) /\ Len(v) \in Nat
         /\ Len(Terminated(v)) = Len(v) + 1 /\ Terminated(v)[Len(v) + 1] = 0
         /\ \A i \in 1 .. Len(v) : Terminated(v)[i] = v[i] /\ v[i] # 0
<1> DEFINE n == Len(v)
           w == Terminated(v)
<1>1. Character \in SUBSET Nat
  BY DEF Character
<1>2. v \in Seq(Nat) /\ n \in Nat /\ \A i \in 1 .. n : v[i] \in Character
  BY <1>1, SeqOfSubset, LenProperties, ElementOfSeq
<1>3. NUL \in Nat /\ NUL = 0 /\ w = Append(v, NUL)
  BY DEF NUL, Terminated
<1>4. /\ w \in Seq(Nat) /\ Len(w) = n + 1 /\ \A i \in 1 .. n : w[i] = v[i]
      /\ w[n + 1] = NUL
  BY <1>2, <1>3, AppendProperties
<1>5. \A c \in Character : c # 0
  BY DEF Character
<1> QED
  BY <1>2, <1>3, <1>4, <1>5

(* A server finds a text up to the NUL behind it. *)
LEMMA TextFound ==
  ASSUME NEW d, NEW p \in Seq(Nat), NEW v \in Seq(Character), Begins(d, p \o Terminated(v))
  PROVE  /\ p \o Terminated(v) \in Seq(Nat)
         /\ EndOfText(d, Len(p) + 1) + 1 = Len(p \o Terminated(v)) + 1
         /\ TextAt(d, Len(p) + 1) = v
<1> DEFINE z == Terminated(v)
           w == p \o z
           a == Len(p)
           n == Len(v)
           m == Len(d)
<1>1. /\ v \in Seq(Nat) /\ z \in Seq(Nat) /\ n \in Nat /\ Len(z) = n + 1 /\ z[n + 1] = 0
      /\ \A i \in 1 .. n : z[i] = v[i] /\ v[i] # 0
  BY TerminatedText
<1>2. /\ w \in Seq(Nat) /\ a \in Nat /\ Len(w) = a + Len(z) /\ Piece(w, a, z, Len(z))
  BY <1>1, Joined
<1>3. d \in Seq(Nat) /\ Len(w) <= m /\ Piece(d, 0, w, Len(w))
  BY DEF Begins
<1>4. m \in Nat
  BY <1>3, LenProperties
<1> HIDE DEF z, w, a, n, m
<1>5. Piece(d, 0 + a, z, n + 1)
  <2> DEFINE b == Len(w)
             c == Len(z)
  <2>1. 0 \in Nat /\ b \in Nat /\ c \in Nat /\ a + c <= b /\ c = n + 1
    BY <1>1, <1>2
  <2> HIDE DEF b, c
  <2>2. Piece(d, 0, w, b) /\ Piece(w, a, z, c)
    BY <1>2, <1>3 DEF b, c
  <2>3. Piece(d, 0 + a, z, c)
    BY <2>1, <2>2, <1>2, PieceOfPiece
  <2> QED
    BY <2>1, <2>3
<1>6. \A i \in 1 .. n + 1 : d[a + i] = z[i]
  BY <1>2, <1>5 DEF Piece
<1>7. Len(w) = a + n + 1 /\ a + n + 1 <= m
  BY <1>1, <1>2, <1>3
<1> DEFINE f == a + 1
           e == a + n + 1
           u == <<0>>
<1>8. u \in Seq(Nat) /\ u # <<>> /\ Len(u) = 1 /\ u[1] = 0
  OBVIOUS
<1>9. \A j \in f .. e - 1 : d[j] # 0
  <2> SUFFICES ASSUME NEW j \in f .. e - 1 PROVE d[j] # 0
    OBVIOUS
  <2>1. j - a \in 1 .. n /\ j - a \in 1 .. n + 1 /\ a + (j - a) = j
    BY <1>1, <1>2
  <2> QED
    BY <1>1, <1>6, <2>1
<1>10. d[e] = 0
  <2>1. n + 1 \in 1 .. n + 1 /\ a + (n + 1) = e
    BY <1>1, <1>2
  <2> QED
    BY <1>1, <1>6, <2>1
<1>11. /\ f \in Nat \ {0} /\ e \in Nat /\ f <= e /\ e + 1 <= m + 1 /\ e + 1 - 1 = e
       /\ \A k \in 1 .. 1 : k = 1
  BY <1>1, <1>2, <1>4, <1>7
<1> HIDE DEF f, e, u
<1>12. FirstAt(d, u, f, e)
  BY <1>8, <1>9, <1>10, <1>11 DEF FirstAt, m
<1>13. EndOfText(d, f) = e
  BY <1>3, <1>8, <1>11, <1>12, FoundFirst DEF EndOfText, u
<1>14. SubSeq(d, a + 1, a + n) = v
  <2>1. Piece(d, a, v, n)
    <3> SUFFICES ASSUME NEW i \in 1 .. n PROVE d[a + i] = v[i]
      BY DEF Piece
    <3>1. i \in 1 .. n + 1
      BY <1>1
    <3> QED
      BY <3>1, <1>1, <1>6
  <2>2. a + n <= m
    BY <1>1, <1>2, <1>4, <1>7
  <2> QED
    BY <1>1, <1>2, <1>3, <2>1, <2>2, PieceIsPart DEF n, m
<1>15. a + n = e - 1
  BY <1>1, <1>2 DEF e
<1>16. TextAt(d, f) = v
  BY <1>13, <1>14, <1>15 DEF TextAt, f
<1>17. e = Len(w)
  BY <1>7 DEF e
<1> QED
  BY <1>2, <1>13, <1>16, <1>17 DEF f, a, w, z

(* The type and the ID in front. *)
LEMMA HeaderFound ==
  ASSUME NEW type \in {"AUTH", "JOIN", "MSG", "BYE"}, NEW id \in MessageIds
  PROVE  /\ Header(type, id) \in Seq(Nat) /\ Len(Header(type, id)) = 3
         /\ \A d : Begins(d, Header(type, id)) =>
              d[1] = TypeCode[type] /\ 256 * d[2] + d[3] = id
<1> DEFINE c == MSG_TYPE_VAL[type]
           h == htons(id)
           x == <<c>>
           w == x \o h
<1>1. c \in Nat /\ c = TypeCode[type]
  BY DEF MSG_TYPE_VAL, TypeCode
<1>2. id \in Nat
  <2>1. UINT16_MAX \in Nat
    BY DEF UINT16_MAX
  <2>2. id \in 0 .. UINT16_MAX
    BY ProgramAssumption
  <2> QED
    BY <2>1, <2>2
<1>3. id \div 256 \in Nat /\ id % 256 \in Nat /\ 256 * (id \div 256) + (id % 256) = id
  BY <1>2
<1> HIDE DEF c
<1>4. /\ x \in Seq(Nat) /\ Len(x) = 1 /\ x[1] = c
      /\ h \in Seq(Nat) /\ Len(h) = 2 /\ h[1] = id \div 256 /\ h[2] = id % 256
  BY <1>1, <1>3 DEF htons
<1> HIDE DEF x, h
<1>5. w \in Seq(Nat) /\ Len(w) = 1 + 2 /\ Piece(w, 0, x, 1) /\ Piece(w, 1, h, 2)
  <2>1. /\ w \in Seq(Nat) /\ Len(w) = Len(x) + Len(h)
        /\ Piece(w, 0, x, Len(x)) /\ Piece(w, Len(x), h, Len(h))
    BY <1>4, Joined
  <2> HIDE DEF w
  <2> QED
    BY <1>4, <2>1
<1>6. Header(type, id) = w
  BY DEF Header, c, x, h, w
<1> HIDE DEF w
<1>7. w[1] = c /\ w[2] = id \div 256 /\ w[3] = id % 256
  <2>1. /\ 1 \in 1 .. 1 /\ 1 \in 1 .. 2 /\ 2 \in 1 .. 2
        /\ 0 + 1 = 1 /\ 1 + 1 = 2 /\ 1 + 2 = 3
    OBVIOUS
  <2>2. w[0 + 1] = x[1] /\ w[1 + 1] = h[1] /\ w[1 + 2] = h[2]
    BY <2>1, <1>5 DEF Piece
  <2> QED
    BY <2>1, <2>2, <1>4
<1>8. ASSUME NEW d, Begins(d, w)
      PROVE  d[1] = TypeCode[type] /\ 256 * d[2] + d[3] = id
  <2>1. Piece(d, 0, w, 3)
    BY <1>5, <1>8 DEF Begins
  <2>2. /\ 1 \in 1 .. 3 /\ 2 \in 1 .. 3 /\ 3 \in 1 .. 3 /\ 0 + 1 = 1 /\ 0 + 2 = 2 /\ 0 + 3 = 3
    OBVIOUS
  <2>3. d[1] = w[1] /\ d[2] = w[2] /\ d[3] = w[3]
    BY <2>1, <2>2 DEF Piece
  <2>4. d[2] = id \div 256 /\ d[3] = id % 256
    BY <2>3, <1>7
  <2> QED
    BY <2>3, <2>4, <1>1, <1>3, <1>7
<1>9. Len(w) = 3
  BY <1>5
<1> QED
  BY <1>5, <1>6, <1>8, <1>9

(* A BYE, a message of two texts and one of three texts. *)
LEMMA DatagramOfOne ==
  ASSUME NEW id \in MessageIds, NEW a \in Seq(Character)
  PROVE  ReadsDatagram([type |-> "BYE", fields |-> <<a>>], serialize_bye_msg(id, a))
<1> DEFINE h == Header("BYE", id)
           d == h \o Terminated(a)
           m == [type |-> "BYE", fields |-> <<a>>]
<1>1. /\ h \in Seq(Nat) /\ Len(h) = 3
      /\ \A t : Begins(t, h) => t[1] = TypeCode["BYE"] /\ 256 * t[2] + t[3] = id
  BY HeaderFound
<1>2. Terminated(a) \in Seq(Nat)
  BY TerminatedText
<1> HIDE DEF h
<1>3. d \in Seq(Nat) /\ Begins(d, h) /\ Begins(d, d)
  BY <1>1, <1>2, Joined, BeginsJoined, BeginsItself
<1>4. EndOfText(d, 3 + 1) + 1 = Len(d) + 1 /\ TextAt(d, 3 + 1) = a
  <2>1. EndOfText(d, Len(h) + 1) + 1 = Len(d) + 1 /\ TextAt(d, Len(h) + 1) = a
    BY <1>1, <1>3, TextFound
  <2> HIDE DEF d
  <2> QED
    BY <2>1, <1>1
<1>5. serialize_bye_msg(id, a) = d
  BY DEF serialize_bye_msg, h
<1> HIDE DEF d
<1>6. d[1] = TypeCode["BYE"] /\ 256 * d[2] + d[3] \in MessageIds
  BY <1>1, <1>3
<1>7. 3 + 1 = 4 /\ m.type = "BYE" /\ m.fields = <<a>>
  OBVIOUS
<1> HIDE DEF m
<1>8. ReadsDatagram(m, d)
  BY <1>4, <1>6, <1>7 DEF ReadsDatagram
<1> QED
  BY <1>5, <1>8 DEF m

LEMMA DatagramOfTwo ==
  ASSUME NEW type \in {"JOIN", "MSG"}, NEW id \in MessageIds,
         NEW a \in Seq(Character), NEW b \in Seq(Character)
  PROVE  ReadsDatagram([type |-> type, fields |-> <<a, b>>],
                       (Header(type, id) \o Terminated(a)) \o Terminated(b))
<1> DEFINE h == Header(type, id)
           p == h \o Terminated(a)
           d == p \o Terminated(b)
           m == [type |-> type, fields |-> <<a, b>>]
<1>1. /\ h \in Seq(Nat) /\ Len(h) = 3
      /\ \A t : Begins(t, h) => t[1] = TypeCode[type] /\ 256 * t[2] + t[3] = id
  BY HeaderFound
<1>2. Terminated(a) \in Seq(Nat) /\ Terminated(b) \in Seq(Nat)
  BY TerminatedText
<1> HIDE DEF h
<1>3. p \in Seq(Nat) /\ Begins(p, h)
  BY <1>1, <1>2, Joined, BeginsJoined
<1> HIDE DEF p
<1>4. d \in Seq(Nat) /\ Begins(d, p) /\ Begins(d, d)
  BY <1>2, <1>3, Joined, BeginsJoined, BeginsItself
<1>5. Begins(d, h)
  BY <1>3, <1>4, BeginsTransitive
<1>6. EndOfText(d, 3 + 1) + 1 = Len(p) + 1 /\ TextAt(d, 3 + 1) = a
  <2> HIDE DEF d
  <2>1. EndOfText(d, Len(h) + 1) + 1 = Len(p) + 1 /\ TextAt(d, Len(h) + 1) = a
    BY <1>1, <1>4, TextFound DEF p
  <2> QED
    BY <2>1, <1>1
<1>7. EndOfText(d, Len(p) + 1) + 1 = Len(d) + 1 /\ TextAt(d, Len(p) + 1) = b
  BY <1>3, <1>4, TextFound
<1> HIDE DEF d
<1>8. d[1] = TypeCode[type] /\ 256 * d[2] + d[3] \in MessageIds
  BY <1>1, <1>5
<1>9. 3 + 1 = 4 /\ m.type = type /\ m.fields = <<a, b>> /\ type # "BYE" /\ type # "AUTH"
  OBVIOUS
<1> HIDE DEF m
<1>10. ReadsDatagram(m, d)
  BY <1>6, <1>7, <1>8, <1>9 DEF ReadsDatagram
<1> QED
  BY <1>10 DEF m, d, p, h

LEMMA DatagramOfThree ==
  ASSUME NEW id \in MessageIds,
         NEW a \in Seq(Character), NEW b \in Seq(Character), NEW c \in Seq(Character)
  PROVE  ReadsDatagram([type |-> "AUTH", fields |-> <<a, b, c>>],
                       serialize_auth_msg(id, a, b, c))
<1> DEFINE h == Header("AUTH", id)
           p == h \o Terminated(a)
           q == p \o Terminated(b)
           d == q \o Terminated(c)
           m == [type |-> "AUTH", fields |-> <<a, b, c>>]
<1>1. /\ h \in Seq(Nat) /\ Len(h) = 3
      /\ \A t : Begins(t, h) => t[1] = TypeCode["AUTH"] /\ 256 * t[2] + t[3] = id
  BY HeaderFound
<1>2. Terminated(a) \in Seq(Nat) /\ Terminated(b) \in Seq(Nat) /\ Terminated(c) \in Seq(Nat)
  BY TerminatedText
<1>0. serialize_auth_msg(id, a, b, c) = d
  BY DEF serialize_auth_msg
<1> HIDE DEF h
<1>3. p \in Seq(Nat) /\ Begins(p, h)
  BY <1>1, <1>2, Joined, BeginsJoined
<1> HIDE DEF p
<1>4. q \in Seq(Nat) /\ Begins(q, p)
  BY <1>2, <1>3, Joined, BeginsJoined
<1> HIDE DEF q
<1>5. d \in Seq(Nat) /\ Begins(d, q) /\ Begins(d, d)
  BY <1>2, <1>4, Joined, BeginsJoined, BeginsItself
<1>6. Begins(d, p) /\ Begins(d, h)
  BY <1>3, <1>4, <1>5, BeginsTransitive
<1>7. EndOfText(d, Len(q) + 1) + 1 = Len(d) + 1 /\ TextAt(d, Len(q) + 1) = c
  BY <1>4, <1>5, TextFound
<1> HIDE DEF d
<1>8. EndOfText(d, 3 + 1) + 1 = Len(p) + 1 /\ TextAt(d, 3 + 1) = a
  <2>1. EndOfText(d, Len(h) + 1) + 1 = Len(p) + 1 /\ TextAt(d, Len(h) + 1) = a
    BY <1>1, <1>6, TextFound DEF p
  <2> QED
    BY <2>1, <1>1
<1>9. EndOfText(d, Len(p) + 1) + 1 = Len(q) + 1 /\ TextAt(d, Len(p) + 1) = b
  BY <1>3, <1>5, TextFound DEF q
<1>10. d[1] = TypeCode["AUTH"] /\ 256 * d[2] + d[3] \in MessageIds
  BY <1>1, <1>6
<1>11. 3 + 1 = 4 /\ m.type = "AUTH" /\ m.fields = <<a, b, c>>
  OBVIOUS
<1> HIDE DEF m
<1>12. ReadsDatagram(m, d)
  BY <1>7, <1>8, <1>9, <1>10, <1>11 DEF ReadsDatagram
<1> QED
  BY <1>0, <1>12 DEF m

(* The characters of a message's parameters. *)
Plain == {10} \cup (32 .. 126)

LEMMA Widths ==
  /\ \A c : Width(c) \in 1 .. 5
  /\ \A c \in Plain \cup {CR} : Width(c) = 1
  /\ Width(AUTH) = 4 /\ Width(JOIN) = 4 /\ Width(FROM) = 4
  /\ Width(MSG) = 3 /\ Width(BYE) = 3 /\ Width(AS) = 2 /\ Width(IS) = 2 /\ Width(USING) = 5
BY DEF Width, Plain, CR, AUTH, JOIN, FROM, MSG, BYE, ERR, NOK, REPLY, USING, AS, IS, OK

WiderAt(t, n) == {i \in 1 .. Len(t) : Width(t[i]) > n}

LEMMA WiderIs ==
  ASSUME NEW t \in Seq(Nat), NEW n
  PROVE  /\ Wider(t, n) = Cardinality(WiderAt(t, n)) /\ IsFiniteSet(WiderAt(t, n))
         /\ Wider(t, n) \in Nat
<1>1. Len(t) \in Nat /\ DOMAIN t = 1 .. Len(t)
  BY LenProperties
<1>2. Wider(t, n) = Cardinality(WiderAt(t, n))
  BY <1>1 DEF Wider, WiderAt
<1>3. IsFiniteSet(1 .. Len(t)) /\ WiderAt(t, n) \in SUBSET (1 .. Len(t))
  BY <1>1, FS_Interval DEF WiderAt
<1>4. IsFiniteSet(WiderAt(t, n))
  BY <1>3, FS_Subset
<1> QED
  BY <1>2, <1>4, FS_CardinalityType

(* Moving a set of numbers does not change how many there are. *)
LEMMA Moved ==
  ASSUME NEW B \in SUBSET Nat, IsFiniteSet(B), NEW a \in Nat
  PROVE  /\ IsFiniteSet({a + i : i \in B})
         /\ Cardinality({a + i : i \in B}) = Cardinality(B)
<1> DEFINE C == {a + i : i \in B}
           f == [i \in B |-> a + i]
<1>1. f \in [B -> C]
  OBVIOUS
<1>2. \A i, j \in B : f[i] = f[j] => i = j
  <2> TAKE i, j \in B
  <2>1. i \in Nat /\ j \in Nat /\ f[i] = a + i /\ f[j] = a + j
    OBVIOUS
  <2> QED
    BY <2>1
<1>3. \A c \in C : \E i \in B : f[i] = c
  OBVIOUS
<1>4. f \in Bijection(B, C)
  BY <1>1, <1>2, <1>3 DEF Bijection, Injection, Surjection, IsInjective
<1>5. ExistsBijection(B, C)
  BY <1>4 DEF ExistsBijection
<1> QED
  BY <1>5, FS_Bijection

LEMMA WiderJoined ==
  ASSUME NEW s \in Seq(Nat), NEW t \in Seq(Nat), NEW n
  PROVE  Wider(s \o t, n) = Wider(s, n) + Wider(t, n)
<1> DEFINE u == s \o t
           a == Len(s)
           b == Len(t)
           A == WiderAt(s, n)
           B == WiderAt(t, n)
           U == WiderAt(u, n)
           C == {a + i : i \in B}
<1>1. /\ u \in Seq(Nat) /\ a \in Nat /\ b \in Nat /\ Len(u) = a + b
      /\ Piece(u, 0, s, a) /\ Piece(u, a, t, b)
  BY Joined
<1>2. /\ Wider(s, n) = Cardinality(A) /\ IsFiniteSet(A) /\ Wider(s, n) \in Nat
      /\ Wider(t, n) = Cardinality(B) /\ IsFiniteSet(B) /\ Wider(t, n) \in Nat
      /\ Wider(u, n) = Cardinality(U)
  BY <1>1, WiderIs
<1>3. /\ A = {i \in 1 .. a : Width(s[i]) > n} /\ B = {i \in 1 .. b : Width(t[i]) > n}
      /\ U = {i \in 1 .. a + b : Width(u[i]) > n}
  BY <1>1 DEF WiderAt
<1> HIDE DEF u, a, b, A, B, U
<1>4. B \in SUBSET Nat
  BY <1>1, <1>3
<1>5. IsFiniteSet(C) /\ Cardinality(C) = Cardinality(B)
  BY <1>1, <1>2, <1>4, Moved
<1>6. \A i \in 1 .. a : u[i] = s[i]
  <2>1. \A i \in 1 .. a : 0 + i = i
    BY <1>1
  <2> QED
    BY <2>1, <1>1 DEF Piece
<1>7. \A i \in 1 .. b : u[a + i] = t[i]
  BY <1>1 DEF Piece
<1>8. U = A \cup C
  <2>1. ASSUME NEW i \in U PROVE i \in A \cup C
    <3>1. CASE i <= a
      BY <3>1, <1>1, <1>3, <1>6
    <3>2. CASE ~(i <= a)
      <4>1. i - a \in 1 .. b /\ a + (i - a) = i
        BY <3>2, <1>1, <1>3
      <4>2. i - a \in B
        BY <4>1, <1>3, <1>7
      <4> QED
        BY <4>1, <4>2
    <3> QED
      BY <3>1, <3>2
  <2>2. ASSUME NEW i \in A PROVE i \in U
    BY <1>1, <1>3, <1>6
  <2>3. ASSUME NEW j \in B PROVE a + j \in U
    <3>1. j \in 1 .. b /\ a + j \in 1 .. a + b
      BY <1>1, <1>3
    <3> QED
      BY <3>1, <1>3, <1>7
  <2> QED
    BY <2>1, <2>2, <2>3
<1>9. A \cap C = {}
  <2> SUFFICES ASSUME NEW i \in A, NEW j \in B, i = a + j PROVE FALSE
    OBVIOUS
  <2>1. i <= a /\ j \in Nat /\ j >= 1
    BY <1>1, <1>3
  <2> QED
    BY <2>1, <1>1
<1> HIDE DEF C
<1>10. Cardinality(U) = Cardinality(A) + Cardinality(C) - Cardinality({})
  BY <1>2, <1>5, <1>8, <1>9, FS_Union
<1> QED
  BY <1>2, <1>5, <1>10, FS_EmptySet DEF u

LEMMA SizeJoined ==
  ASSUME NEW s \in Seq(Nat), NEW t \in Seq(Nat)
  PROVE  /\ Size(s \o t) = Size(s) + Size(t) /\ Size(s) \in Nat /\ Size(t) \in Nat
<1>1. Len(s \o t) = Len(s) + Len(t) /\ Len(s) \in Nat /\ Len(t) \in Nat
  BY Joined
<1>2. \A n : /\ Wider(s \o t, n) = Wider(s, n) + Wider(t, n)
             /\ Wider(s, n) \in Nat /\ Wider(t, n) \in Nat
  BY WiderIs, WiderJoined
<1> DEFINE a == Len(s)
           b == Len(t)
           w1 == Wider(s, 1)
           w2 == Wider(s, 2)
           w3 == Wider(s, 3)
           w4 == Wider(s, 4)
           x1 == Wider(t, 1)
           x2 == Wider(t, 2)
           x3 == Wider(t, 3)
           x4 == Wider(t, 4)
<1>3. /\ a \in Nat /\ w1 \in Nat /\ w2 \in Nat /\ w3 \in Nat /\ w4 \in Nat
      /\ b \in Nat /\ x1 \in Nat /\ x2 \in Nat /\ x3 \in Nat /\ x4 \in Nat
  BY <1>1, <1>2
<1>4. /\ Size(s) = a + w1 + w2 + w3 + w4 /\ Size(t) = b + x1 + x2 + x3 + x4
      /\ Size(s \o t) = (a + b) + (w1 + x1) + (w2 + x2) + (w3 + x3) + (w4 + x4)
  BY <1>1, <1>2 DEF Size
<1> HIDE DEF a, b, w1, w2, w3, w4, x1, x2, x3, x4
<1> QED
  BY <1>3, <1>4

(* A text with at most one keyword, at q. *)
LEMMA SizeOfKeyword ==
  ASSUME NEW t \in Seq(Nat), NEW q \in 1 .. Len(t),
         \A i \in 1 .. Len(t) : i # q => Width(t[i]) = 1
  PROVE  Size(t) = Len(t) + (Width(t[q]) - 1)
<1> DEFINE w == Width(t[q])
           a == Len(t)
<1>1. w \in 1 .. 5 /\ a \in Nat
  BY Widths, LenProperties
<1>2. ASSUME NEW n \in 1 .. 4 PROVE Wider(t, n) = IF w > n THEN 1 ELSE 0
  <2>1. Wider(t, n) = Cardinality(WiderAt(t, n))
    BY WiderIs
  <2>2. CASE w > n
    <3>1. WiderAt(t, n) = {q}
      BY <2>2 DEF WiderAt
    <3> QED
      BY <2>1, <2>2, <3>1, FS_Singleton
  <2>3. CASE ~(w > n)
    <3>1. WiderAt(t, n) = {}
      BY <2>3 DEF WiderAt
    <3> QED
      BY <2>1, <2>3, <3>1, FS_EmptySet
  <2> QED
    BY <2>2, <2>3
<1>3. Size(t) = a + Wider(t, 1) + Wider(t, 2) + Wider(t, 3) + Wider(t, 4)
  BY DEF Size
<1>4. 1 \in 1 .. 4 /\ 2 \in 1 .. 4 /\ 3 \in 1 .. 4 /\ 4 \in 1 .. 4
  OBVIOUS
<1> HIDE DEF w, a
<1>5. /\ Wider(t, 1) = IF w > 1 THEN 1 ELSE 0
      /\ Wider(t, 2) = IF w > 2 THEN 1 ELSE 0
      /\ Wider(t, 3) = IF w > 3 THEN 1 ELSE 0
      /\ Wider(t, 4) = IF w > 4 THEN 1 ELSE 0
  BY <1>2, <1>4
<1>6. w = 1 \/ w = 2 \/ w = 3 \/ w = 4 \/ w = 5
  BY <1>1
<1>7. Wider(t, 1) + Wider(t, 2) + Wider(t, 3) + Wider(t, 4) = w - 1
  <2>1. CASE w = 1
    BY <2>1, <1>5
  <2>2. CASE w = 2
    BY <2>2, <1>5
  <2>3. CASE w = 3
    BY <2>3, <1>5
  <2>4. CASE w = 4
    BY <2>4, <1>5
  <2>5. CASE w = 5
    BY <2>5, <1>5
  <2> QED
    BY <2>1, <2>2, <2>3, <2>4, <2>5, <1>6
<1>8. /\ Wider(t, 1) \in Nat /\ Wider(t, 2) \in Nat
      /\ Wider(t, 3) \in Nat /\ Wider(t, 4) \in Nat
  BY <1>5
<1>9. Size(t) = a + (w - 1)
  <2> DEFINE w1 == Wider(t, 1)
             w2 == Wider(t, 2)
             w3 == Wider(t, 3)
             w4 == Wider(t, 4)
  <2>1. /\ w1 \in Nat /\ w2 \in Nat /\ w3 \in Nat /\ w4 \in Nat
        /\ w1 + w2 + w3 + w4 = w - 1 /\ Size(t) = a + w1 + w2 + w3 + w4
    BY <1>3, <1>7, <1>8
  <2> HIDE DEF w1, w2, w3, w4
  <2> QED
    BY <1>1, <2>1
<1> QED
  BY <1>9 DEF w, a

LEMMA SizeOfPlain ==
  ASSUME NEW t \in Seq(Plain)
  PROVE  t \in Seq(Nat) /\ Len(t) \in Nat /\ Size(t) = Len(t)
<1>1. Plain \in SUBSET Nat
  BY DEF Plain
<1>2. t \in Seq(Nat) /\ Len(t) \in Nat /\ \A i \in 1 .. Len(t) : t[i] \in Plain
  BY <1>1, SeqOfSubset, LenProperties, ElementOfSeq
<1>3. ASSUME NEW n \in 1 .. 4 PROVE Wider(t, n) = 0
  <2>1. \A i \in 1 .. Len(t) : Width(t[i]) = 1
    BY <1>2, Widths
  <2>2. WiderAt(t, n) = {}
    BY <2>1 DEF WiderAt
  <2> QED
    BY <1>2, <2>2, WiderIs, FS_EmptySet
<1>4. 1 \in 1 .. 4 /\ 2 \in 1 .. 4 /\ 3 \in 1 .. 4 /\ 4 \in 1 .. 4
  OBVIOUS
<1>5. Wider(t, 1) = 0 /\ Wider(t, 2) = 0 /\ Wider(t, 3) = 0 /\ Wider(t, 4) = 0
  BY <1>3, <1>4
<1> DEFINE a == Len(t)
<1>6. a \in Nat /\ Size(t) = a + Wider(t, 1) + Wider(t, 2) + Wider(t, 3) + Wider(t, 4)
  BY <1>2 DEF Size
<1> HIDE DEF a
<1>7. Size(t) = a
  BY <1>5, <1>6
<1> QED
  BY <1>2, <1>7 DEF a

LEMMA KeywordText ==
  ASSUME NEW k \in Nat
  PROVE  /\ <<k, SP>> \in Seq({k, SP}) /\ <<k, SP>> \in Seq(Nat) /\ Len(<<k, SP>>) = 2
         /\ Size(<<k, SP>>) = Width(k) + 1
         /\ \A S : k \notin S => Key(<<k, SP>>, 1, S)
<1> DEFINE t == <<k, SP>>
<1>1. /\ t \in Seq({k, SP}) /\ t \in Seq(Nat) /\ Len(t) = 2 /\ t[1] = k /\ t[2] = SP
  BY DEF SP
<1> HIDE DEF t
<1>2. Width(SP) = 1 /\ Width(k) \in 1 .. 5
  BY Widths DEF Plain, SP
<1>3. 1 \in 1 .. Len(t) /\ \A i \in 1 .. Len(t) : i # 1 => i = 2
  BY <1>1
<1>4. Size(t) = Len(t) + (Width(t[1]) - 1)
  BY <1>1, <1>2, <1>3, SizeOfKeyword
<1>5. Size(t) = Width(k) + 1
  BY <1>1, <1>2, <1>4
<1>6. \A S : k \notin S => Key(t, 1, S)
  BY <1>1, <1>3 DEF Key
<1> QED
  BY <1>1, <1>5, <1>6 DEF t

LEMMA SpacedText ==
  ASSUME NEW k \in Nat, k # SP
  PROVE  /\ Spaced(k) \in Seq({k, SP}) /\ Spaced(k) \in Seq(Nat) /\ Len(Spaced(k)) = 3
         /\ Size(Spaced(k)) = Width(k) + 2
         /\ \A S : k \notin S => Key(Spaced(k), 2, S)
<1> DEFINE t == Spaced(k)
<1>1. /\ t \in Seq({k, SP}) /\ t \in Seq(Nat) /\ Len(t) = 3
      /\ t[1] = SP /\ t[2] = k /\ t[3] = SP
  BY DEF SP, Spaced
<1> HIDE DEF t
<1>2. Width(SP) = 1 /\ Width(k) \in 1 .. 5
  BY Widths DEF Plain, SP
<1>3. 2 \in 1 .. Len(t) /\ \A i \in 1 .. Len(t) : i # 2 => i = 1 \/ i = 3
  BY <1>1
<1>4. Size(t) = Len(t) + (Width(t[2]) - 1)
  BY <1>1, <1>2, <1>3, SizeOfKeyword
<1>5. Size(t) = Width(k) + 2
  BY <1>1, <1>2, <1>4
<1>6. \A S : k \notin S => Key(t, 2, S)
  <2>1. \A j \in 1 .. 2 - 1 : j = 1
    OBVIOUS
  <2> QED
    BY <2>1, <1>1, <1>3 DEF Key
<1> QED
  BY <1>1, <1>5, <1>6 DEF t

LEMMA CRLFText ==
  /\ CRLF \in Seq(Nat) /\ Len(CRLF) = 2 /\ Size(CRLF) = 2
  /\ CRLF[1] = CR /\ CRLF[2] = LF
  /\ \A S : CR \notin S => Key(CRLF, 1, S)
<1> DEFINE t == CRLF
<1>1. t \in Seq(Nat) /\ Len(t) = 2 /\ t[1] = CR /\ t[2] = LF
  BY DEF CR, LF, CRLF
<1> HIDE DEF t
<1>2. Width(LF) = 1 /\ Width(CR) = 1
  BY Widths DEF Plain, LF
<1>3. 1 \in 1 .. Len(t) /\ \A i \in 1 .. Len(t) : i # 1 => i = 2
  BY <1>1
<1>4. Size(t) = Len(t) + (Width(t[1]) - 1)
  BY <1>1, <1>2, <1>3, SizeOfKeyword
<1>5. Size(t) = 2
  BY <1>1, <1>2, <1>4
<1>6. \A S : CR \notin S => Key(t, 1, S)
  BY <1>1, <1>3 DEF Key
<1> QED
  BY <1>1, <1>5, <1>6 DEF t

(* A text that ends with CRLF. *)
LEMMA EndsWithCRLF ==
  ASSUME NEW w \in Seq(Nat)
  PROVE  LET t == w \o CRLF
         IN  t \in Seq(Nat) /\ Begins(t, w) /\ SubSeq(t, Len(t) - 1, Len(t)) = CRLF
<1> DEFINE t == w \o CRLF
           a == Len(w)
<1>1. /\ t \in Seq(Nat) /\ a \in Nat /\ Len(t) = a + 2 /\ Piece(t, a, CRLF, 2)
  BY CRLFText, Joined
<1>2. Begins(t, w)
  BY CRLFText, BeginsJoined
<1> HIDE DEF t, a
<1>3. SubSeq(t, a + 1, a + 2) = CRLF
  <2>1. a + Len(CRLF) <= Len(t) /\ Piece(t, a, CRLF, Len(CRLF)) /\ a + Len(CRLF) = a + 2
    BY <1>1, CRLFText
  <2>2. SubSeq(t, a + 1, a + Len(CRLF)) = CRLF
    BY <1>1, <2>1, CRLFText, PieceIsPart
  <2> QED
    BY <2>1, <2>2
<1>4. Len(t) - 1 = a + 1 /\ Len(t) = a + 2
  BY <1>1
<1>5. SubSeq(t, Len(t) - 1, Len(t)) = CRLF
  BY <1>3, <1>4
<1> QED
  BY <1>1, <1>2, <1>5 DEF t

(* One more keyword f, with its key k, and the text v behind it. *)
Added(S, p, k, f, v) ==
    LET w == (p \o f) \o v
    IN  /\ w \in Seq(S \cup {k}) /\ w \in Seq(Nat)
        /\ Size(w) = Size(p) + Size(f) + Len(v)
        /\ Size(p) \in Nat /\ Size(f) \in Nat /\ Len(v) \in Nat
        /\ Begins(w, p \o f) /\ Begins(w, p)
        /\ \A t, g, j : Key(g, j, S \cup {k}) /\ Begins(t, w \o g) => Between(t, f, g) = v

LEMMA FieldAdded ==
  ASSUME NEW S \in SUBSET Nat, Plain \subseteq S, NEW p \in Seq(S), NEW k \in Nat,
         NEW f \in Seq({k, SP}), NEW i, Key(f, i, S), NEW v \in Seq(Plain)
  PROVE  Added(S, p, k, f, v)
<1> DEFINE T == S \cup {k}
           q == p \o f
           w == q \o v
<1>1. T \in SUBSET Nat /\ S \in SUBSET T /\ Plain \in SUBSET T /\ {k, SP} \in SUBSET T
  <2>1. SP \in Plain
    BY DEF Plain, SP
  <2> QED
    BY <2>1
<1>2. p \in Seq(T) /\ f \in Seq(T) /\ v \in Seq(T)
  BY <1>1, SeqOfSubset
<1>3. q \in Seq(T)
  BY <1>2, ConcatProperties
<1>4. w \in Seq(T)
  <2> HIDE DEF q
  <2> QED
    BY <1>2, <1>3, ConcatProperties
<1>5. p \in Seq(Nat) /\ f \in Seq(Nat) /\ v \in Seq(Nat) /\ q \in Seq(Nat) /\ w \in Seq(Nat)
  <2> HIDE DEF q, w, T
  <2> QED
    BY <1>1, <1>2, <1>3, <1>4, SeqOfSubset
<1>6. Size(v) = Len(v) /\ Len(v) \in Nat
  BY SizeOfPlain
<1>7. Size(q) = Size(p) + Size(f) /\ Size(p) \in Nat /\ Size(f) \in Nat
  BY <1>5, SizeJoined
<1>8. Size(w) = Size(q) + Size(v)
  <2> HIDE DEF q
  <2> QED
    BY <1>5, SizeJoined
<1>9. Begins(q, p) /\ Begins(w, q)
  <2>1. Begins(q, p)
    BY <1>5, BeginsJoined
  <2> HIDE DEF q
  <2> QED
    BY <2>1, <1>5, BeginsJoined
<1>10. Begins(w, p)
  BY <1>9, BeginsTransitive
<1>11. ASSUME NEW t, NEW g, NEW j, Key(g, j, T), Begins(t, w \o g)
       PROVE  Between(t, f, g) = v
  BY <1>1, <1>4, <1>5, <1>11, FieldBetween
<1> HIDE DEF q, w, T
<1>12. Size(w) = Size(p) + Size(f) + Len(v)
  BY <1>6, <1>7, <1>8
<1> QED
  BY <1>4, <1>5, <1>6, <1>7, <1>9, <1>10, <1>11, <1>12 DEF Added, q, w, T

(* A message over TCP that is not cut, as a server reads it. *)
LEMMA TextOfAuth ==
  ASSUME NEW u \in Seq(Plain), NEW n \in Seq(Plain), NEW s \in Seq(Plain)
  PROVE  LET t == <<AUTH, SP>> \o u \o Spaced(AS) \o n \o Spaced(USING) \o s \o CRLF
         IN  /\ Size(t) = 18 + Len(u) + Len(n) + Len(s)
             /\ SubSeq(t, Len(t) - 1, Len(t)) = CRLF
             /\ ReadsText([type |-> "AUTH", fields |-> <<u, n, s>>], t)
<1> DEFINE S == Plain \cup {AUTH}
           T == S \cup {AS}
           U == T \cup {USING}
           f == <<AUTH, SP>>
           g == Spaced(AS)
           h == Spaced(USING)
           a == f \o u
           b == (a \o g) \o n
           c == (b \o h) \o s
           t == c \o CRLF
<1>1. /\ Plain \in SUBSET Nat /\ AUTH \in Nat \ Plain /\ AUTH # SP
      /\ AS \in Nat \ S /\ AS # SP /\ USING \in Nat \ T /\ USING # SP /\ CR \notin U
  BY DEF Plain, AUTH, AS, USING, CR, SP
<1>2. /\ S \in SUBSET Nat /\ Plain \subseteq S
      /\ T \in SUBSET Nat /\ Plain \subseteq T /\ U \in SUBSET Nat
  BY <1>1
<1>3. /\ f \in Seq({AUTH, SP}) /\ f \in Seq(Nat) /\ Len(f) = 2 /\ Size(f) = 5
      /\ Key(f, 1, Plain) /\ f[1] = AUTH
  <2>1. Size(f) = 4 + 1 /\ Key(f, 1, Plain) /\ f \in Seq({AUTH, SP}) /\ f \in Seq(Nat) /\ Len(f) = 2
    BY <1>1, KeywordText, Widths
  <2> QED
    BY <2>1
<1>4. g \in Seq({AS, SP}) /\ Size(g) = 4 /\ Key(g, 2, S)
  <2>1. Size(g) = 2 + 2 /\ Key(g, 2, S) /\ g \in Seq({AS, SP})
    BY <1>1, SpacedText, Widths
  <2> QED
    BY <2>1
<1>5. h \in Seq({USING, SP}) /\ Size(h) = 7 /\ Key(h, 2, T)
  <2>1. Size(h) = 5 + 2 /\ Key(h, 2, T) /\ h \in Seq({USING, SP})
    BY <1>1, SpacedText, Widths
  <2> QED
    BY <2>1
<1> HIDE DEF f, g, h
<1>6. /\ a \in Seq(S) /\ a \in Seq(Nat) /\ Size(a) = 5 + Len(u) /\ Len(u) \in Nat
      /\ Begins(a, f)
      /\ \A x, y, j : Key(y, j, S) /\ Begins(x, a \o y) => Between(x, f, y) = u
  <2> DEFINE e == <<>>
             w == (e \o f) \o u
  <2>1. e \in Seq(Plain) /\ e \o f = f /\ Size(e) = 0
    BY <1>3, EmptySeq, ConcatEmptySeq, SizeOfPlain
  <2>2. AUTH \in Nat /\ Plain \subseteq Plain
    BY <1>1
  <2> HIDE DEF e
  <2>3. /\ w \in Seq(S) /\ w \in Seq(Nat) /\ Size(w) = Size(e) + Size(f) + Len(u)
        /\ Len(u) \in Nat /\ Begins(w, e \o f)
        /\ \A x, y, j : Key(y, j, S) /\ Begins(x, w \o y) => Between(x, f, y) = u
    <3>1. Added(Plain, e, AUTH, f, u)
      BY <1>1, <1>3, <2>1, <2>2, FieldAdded
    <3> QED
      BY <3>1 DEF Added
  <2>4. w = a
    BY <2>1
  <2> HIDE DEF w, a
  <2>5. Size(a) = 5 + Len(u)
    BY <1>3, <2>1, <2>3, <2>4
  <2> QED
    BY <2>1, <2>3, <2>4, <2>5
<1> HIDE DEF a
<1>7. /\ b \in Seq(T) /\ b \in Seq(Nat) /\ Size(b) = Size(a) + Size(g) + Len(n)
      /\ Len(n) \in Nat /\ Begins(b, a \o g) /\ Begins(b, a)
      /\ \A x, y, j : Key(y, j, T) /\ Begins(x, b \o y) => Between(x, g, y) = n
  <2>1. Added(S, a, AS, g, n)
    <3> HIDE DEF S, T
    <3> QED
      BY <1>1, <1>2, <1>4, <1>6, FieldAdded
  <2> QED
    BY <2>1 DEF Added
<1> HIDE DEF b
<1>8. /\ c \in Seq(U) /\ c \in Seq(Nat) /\ Size(c) = Size(b) + Size(h) + Len(s)
      /\ Len(s) \in Nat /\ Begins(c, b \o h) /\ Begins(c, b)
      /\ \A x, y, j : Key(y, j, U) /\ Begins(x, c \o y) => Between(x, h, y) = s
  <2>1. Added(T, b, USING, h, s)
    <3> HIDE DEF S, T
    <3> QED
      BY <1>1, <1>2, <1>5, <1>7, FieldAdded
  <2> QED
    BY <2>1 DEF Added
<1> HIDE DEF c, U, T, S
<1>9. t \in Seq(Nat) /\ Begins(t, c) /\ SubSeq(t, Len(t) - 1, Len(t)) = CRLF
  BY <1>8, EndsWithCRLF
<1>10. Size(t) = 18 + Len(u) + Len(n) + Len(s)
  <2>1. Size(t) = Size(c) + Size(CRLF) /\ Size(CRLF) = 2
    BY <1>8, CRLFText, SizeJoined
  <2> HIDE DEF t
  <2> QED
    BY <2>1, <1>4, <1>5, <1>6, <1>7, <1>8
<1>11. Begins(t, a \o g) /\ Begins(t, b \o h) /\ Begins(t, c \o CRLF) /\ Begins(t, f)
  <2>1. Begins(t, t)
    BY <1>9, BeginsItself
  <2>2. Begins(t, c \o CRLF)
    BY <2>1
  <2> HIDE DEF t
  <2>3. Begins(t, b) /\ Begins(t, b \o h)
    BY <1>8, <1>9, BeginsTransitive
  <2>4. Begins(t, a) /\ Begins(t, a \o g)
    BY <1>7, <2>3, BeginsTransitive
  <2>5. Begins(t, f)
    BY <1>6, <2>4, BeginsTransitive
  <2> QED
    BY <2>2, <2>3, <2>4, <2>5
<1>12. Key(CRLF, 1, U)
  BY <1>1, CRLFText
<1> HIDE DEF t
<1>13. Between(t, f, g) = u /\ Between(t, g, h) = n /\ Between(t, h, CRLF) = s
  BY <1>4, <1>5, <1>6, <1>7, <1>8, <1>11, <1>12
<1>14. t[1] = AUTH
  <2>1. 1 \in 1 .. Len(f) /\ Piece(t, 0, f, Len(f)) /\ 0 + 1 = 1
    BY <1>3, <1>11 DEF Begins
  <2>2. t[0 + 1] = f[1]
    BY <2>1 DEF Piece
  <2> QED
    BY <1>3, <2>1, <2>2
<1> DEFINE m == [type |-> "AUTH", fields |-> <<u, n, s>>]
<1>15. m.type = "AUTH" /\ m.fields = <<u, n, s>> /\ Keyword["AUTH"] = AUTH
  BY DEF Keyword
<1> HIDE DEF m
<1>16. ReadsText(m, t)
  <2>1. TextFields("AUTH", t) = <<u, n, s>>
    BY <1>13 DEF TextFields, f, g, h
  <2> QED
    BY <1>14, <1>15, <2>1 DEF ReadsText
<1>17. t = <<AUTH, SP>> \o u \o Spaced(AS) \o n \o Spaced(USING) \o s \o CRLF
  BY DEF t, c, b, a, f, g, h
<1> QED
  BY <1>9, <1>10, <1>16, <1>17 DEF m

(* Two keywords, with a text behind each. *)
TwoTexts(p, f, v, g, w) == (((p \o f) \o v) \o g) \o w

TwoRead(S, p, k, f, v, l, g, w) ==
    LET c == TwoTexts(p, f, v, g, w)
        t == c \o CRLF
    IN  /\ c \in Seq((S \cup {k}) \cup {l}) /\ c \in Seq(Nat) /\ t \in Seq(Nat)
        /\ Begins(t, p) /\ Begins(t, p \o f)
        /\ Size(t) = Size(p) + Size(f) + Len(v) + Size(g) + Len(w) + 2
        /\ SubSeq(t, Len(t) - 1, Len(t)) = CRLF
        /\ Between(t, f, g) = v /\ Between(t, g, CRLF) = w

LEMMA TextOfTwo ==
  ASSUME NEW S \in SUBSET Nat, Plain \subseteq S, NEW p \in Seq(S), NEW k \in Nat,
         NEW f \in Seq({k, SP}), NEW i, Key(f, i, S), NEW v \in Seq(Plain), NEW l \in Nat,
         NEW g \in Seq({l, SP}), NEW j, Key(g, j, S \cup {k}), NEW w \in Seq(Plain),
         CR \notin S, CR # k, CR # l
  PROVE  TwoRead(S, p, k, f, v, l, g, w)
<1> DEFINE T == S \cup {k}
           U == T \cup {l}
           b == (p \o f) \o v
           c == (b \o g) \o w
           t == c \o CRLF
<1>1. T \in SUBSET Nat /\ Plain \subseteq T /\ U \in SUBSET Nat /\ CR \notin U
  OBVIOUS
<1>2. /\ b \in Seq(T) /\ b \in Seq(Nat) /\ Size(b) = Size(p) + Size(f) + Len(v)
      /\ Size(p) \in Nat /\ Size(f) \in Nat /\ Len(v) \in Nat
      /\ Begins(b, p \o f) /\ Begins(b, p)
      /\ \A x, y, z : Key(y, z, T) /\ Begins(x, b \o y) => Between(x, f, y) = v
  <2>1. Added(S, p, k, f, v)
    BY FieldAdded
  <2> QED
    BY <2>1 DEF Added
<1> HIDE DEF b
<1>3. /\ c \in Seq(U) /\ c \in Seq(Nat) /\ Size(c) = Size(b) + Size(g) + Len(w)
      /\ Size(b) \in Nat /\ Size(g) \in Nat /\ Len(w) \in Nat
      /\ Begins(c, b \o g) /\ Begins(c, b)
      /\ \A x, y, z : Key(y, z, U) /\ Begins(x, c \o y) => Between(x, g, y) = w
  <2>1. Added(T, b, l, g, w)
    <3>1. Key(g, j, T)
      OBVIOUS
    <3> HIDE DEF T
    <3> QED
      BY <1>1, <1>2, <3>1, FieldAdded
  <2> QED
    BY <2>1 DEF Added
<1>4. Key(g, j, T) /\ Key(CRLF, 1, U)
  BY <1>1, CRLFText
<1> HIDE DEF c, U, T
<1>5. t \in Seq(Nat) /\ Begins(t, c) /\ SubSeq(t, Len(t) - 1, Len(t)) = CRLF
  BY <1>3, EndsWithCRLF
<1>6. Size(t) = Size(p) + Size(f) + Len(v) + Size(g) + Len(w) + 2
  <2>1. Size(t) = Size(c) + Size(CRLF) /\ Size(CRLF) = 2
    BY <1>3, CRLFText, SizeJoined
  <2> DEFINE lv == Len(v)
             lw == Len(w)
  <2> HIDE DEF t, lv, lw
  <2>2. /\ Size(b) = Size(p) + Size(f) + lv /\ Size(c) = Size(b) + Size(g) + lw
        /\ lv \in Nat /\ lw \in Nat
    BY <1>2, <1>3 DEF lv, lw
  <2>3. Size(t) = Size(p) + Size(f) + lv + Size(g) + lw + 2
    BY <2>1, <2>2, <1>2, <1>3
  <2> QED
    BY <2>3 DEF lv, lw
<1>7. Begins(t, t) /\ Begins(t, c \o CRLF)
  BY <1>5, BeginsItself
<1> HIDE DEF t
<1>8. Begins(t, b) /\ Begins(t, b \o g)
  BY <1>3, <1>5, BeginsTransitive
<1>9. Begins(t, p) /\ Begins(t, p \o f)
  BY <1>2, <1>8, BeginsTransitive
<1>10. Between(t, f, g) = v /\ Between(t, g, CRLF) = w
  BY <1>2, <1>3, <1>4, <1>7, <1>8
<1> QED
  BY <1>3, <1>5, <1>6, <1>9, <1>10 DEF TwoRead, t, c, b, U, T, TwoTexts

(* The first symbol is the keyword of the message. *)
LEMMA FirstSymbol ==
  ASSUME NEW k \in Nat, NEW t, Begins(t, <<k, SP>>)
  PROVE  t[1] = k
<1> DEFINE f == <<k, SP>>
<1>1. Len(f) = 2 /\ f[1] = k
  OBVIOUS
<1> HIDE DEF f
<1>2. 1 \in 1 .. Len(f) /\ Piece(t, 0, f, Len(f)) /\ 0 + 1 = 1
  BY <1>1 DEF Begins, f
<1>3. t[0 + 1] = f[1]
  BY <1>2 DEF Piece
<1> QED
  BY <1>1, <1>2, <1>3

LEMMA NothingInFront ==
  ASSUME NEW f \in Seq(Nat)
  PROVE  <<>> \in Seq(Plain) /\ <<>> \o f = f /\ Size(<<>>) = 0
<1> DEFINE e == <<>>
<1>1. e \in Seq(Plain) /\ e \o f = f /\ Len(e) = 0
  BY EmptySeq, ConcatEmptySeq
<1> HIDE DEF e
<1>2. Size(e) = 0
  BY <1>1, SizeOfPlain
<1> QED
  BY <1>1, <1>2 DEF e

LEMMA TextOfJoin ==
  ASSUME NEW u \in Seq(Plain), NEW n \in Seq(Plain)
  PROVE  LET t == <<JOIN, SP>> \o u \o Spaced(AS) \o n \o CRLF
         IN  /\ Size(t) = 11 + Len(u) + Len(n)
             /\ SubSeq(t, Len(t) - 1, Len(t)) = CRLF
             /\ ReadsText([type |-> "JOIN", fields |-> <<u, n>>], t)
<1> DEFINE S == Plain \cup {JOIN}
           e == <<>>
           f == <<JOIN, SP>>
           g == Spaced(AS)
           c == TwoTexts(e, f, u, g, n)
           t == c \o CRLF
<1>1. /\ Plain \in SUBSET Nat /\ Plain \subseteq Plain /\ JOIN \in Nat \ Plain /\ JOIN # SP
      /\ AS \in Nat \ S /\ AS # SP /\ CR \notin Plain /\ CR # JOIN /\ CR # AS
  BY DEF Plain, JOIN, AS, CR, SP
<1>2. /\ f \in Seq({JOIN, SP}) /\ f \in Seq(Nat) /\ Size(f) = 4 + 1 /\ Key(f, 1, Plain)
  BY <1>1, KeywordText, Widths
<1>3. g \in Seq({AS, SP}) /\ Size(g) = 2 + 2 /\ Key(g, 2, S)
  BY <1>1, SpacedText, Widths
<1>4. e \in Seq(Plain) /\ e \o f = f /\ Size(e) = 0
  BY <1>2, NothingInFront
<1>5. Len(u) \in Nat /\ Len(n) \in Nat
  BY LenProperties
<1> HIDE DEF e, f, g
<1>6. c = f \o u \o g \o n
  BY <1>4 DEF TwoTexts
<1> HIDE DEF c
<1>7. /\ t \in Seq(Nat) /\ Begins(t, e \o f)
      /\ Size(t) = Size(e) + Size(f) + Len(u) + Size(g) + Len(n) + 2
      /\ SubSeq(t, Len(t) - 1, Len(t)) = CRLF
      /\ Between(t, f, g) = u /\ Between(t, g, CRLF) = n
  <2>1. TwoRead(Plain, e, JOIN, f, u, AS, g, n)
    BY <1>1, <1>2, <1>3, <1>4, TextOfTwo
  <2> QED
    BY <2>1 DEF TwoRead, c
<1> HIDE DEF t
<1>8. Size(t) = 11 + Len(u) + Len(n)
  BY <1>2, <1>3, <1>4, <1>5, <1>7
<1>9. t[1] = JOIN
  BY <1>1, <1>4, <1>7, FirstSymbol DEF f
<1> DEFINE m == [type |-> "JOIN", fields |-> <<u, n>>]
<1>10. m.type = "JOIN" /\ m.fields = <<u, n>> /\ Keyword["JOIN"] = JOIN
  BY DEF Keyword
<1> HIDE DEF m
<1>11. ReadsText(m, t)
  <2>1. TextFields("JOIN", t) = <<u, n>>
    BY <1>7 DEF TextFields, f, g
  <2> QED
    BY <1>9, <1>10, <2>1 DEF ReadsText
<1>12. t = <<JOIN, SP>> \o u \o Spaced(AS) \o n \o CRLF
  BY <1>6 DEF t, f, g
<1> QED
  BY <1>7, <1>8, <1>11, <1>12 DEF m

(* The keyword of a message and the FROM that follows it. *)
LEMMA TwoKeywords ==
  ASSUME NEW k \in Nat
  PROVE  <<k, SP>> \o <<FROM, SP>> = <<k, SP, FROM, SP>>
<1> DEFINE s == <<k, SP>>
           f == <<FROM, SP>>
           u == <<k, SP, FROM, SP>>
           t == s \o f
<1>1. /\ s \in Seq(Nat) /\ Len(s) = 2 /\ s[1] = k /\ s[2] = SP
      /\ f \in Seq(Nat) /\ Len(f) = 2 /\ f[1] = FROM /\ f[2] = SP
      /\ u \in Seq(Nat) /\ Len(u) = 4 /\ u[1] = k /\ u[2] = SP /\ u[3] = FROM /\ u[4] = SP
  BY DEF SP, FROM
<1> HIDE DEF s, f, u
<1>2. /\ t \in Seq(Nat) /\ Len(t) = 2 + 2
      /\ Piece(t, 0, s, 2) /\ Piece(t, 2, f, 2)
  BY <1>1, Joined
<1> HIDE DEF t
<1>3. 1 \in 1 .. 2 /\ 2 \in 1 .. 2 /\ 0 + 1 = 1 /\ 0 + 2 = 2 /\ 2 + 1 = 3 /\ 2 + 2 = 4
  OBVIOUS
<1>4. t[0 + 1] = s[1] /\ t[0 + 2] = s[2] /\ t[2 + 1] = f[1] /\ t[2 + 2] = f[2]
  BY <1>2, <1>3 DEF Piece
<1>5. t[1] = u[1] /\ t[2] = u[2] /\ t[3] = u[3] /\ t[4] = u[4]
  BY <1>1, <1>3, <1>4
<1>6. Len(t) = 4 /\ \A i \in 1 .. 4 : i = 1 \/ i = 2 \/ i = 3 \/ i = 4
  BY <1>2
<1>7. \A i \in 1 .. Len(t) : t[i] = u[i]
  BY <1>5, <1>6
<1>8. t = u
  BY <1>1, <1>2, <1>6, <1>7, SameText
<1> QED
  BY <1>8 DEF t, s, f, u

LEMMA TextOfBye ==
  ASSUME NEW n \in Seq(Plain)
  PROVE  LET t == <<BYE, SP, FROM, SP>> \o n \o CRLF
         IN  /\ Size(t) = 11 + Len(n)
             /\ SubSeq(t, Len(t) - 1, Len(t)) = CRLF
             /\ ReadsText([type |-> "BYE", fields |-> <<n>>], t)
<1> DEFINE S == Plain \cup {BYE}
           T == S \cup {FROM}
           p == <<BYE, SP>>
           f == <<FROM, SP>>
           c == (p \o f) \o n
           t == c \o CRLF
<1>1. /\ S \in SUBSET Nat /\ Plain \subseteq S /\ {BYE, SP} \in SUBSET S /\ BYE \in Nat
      /\ BYE \notin Plain /\ FROM \in Nat \ S /\ CR \notin T
  BY DEF Plain, BYE, FROM, CR, SP
<1>2. p \in Seq({BYE, SP}) /\ p \in Seq(Nat) /\ Len(p) = 2 /\ Size(p) = 3 + 1
  BY <1>1, KeywordText, Widths
<1>3. f \in Seq({FROM, SP}) /\ Size(f) = 4 + 1 /\ Key(f, 1, S)
  BY <1>1, KeywordText, Widths
<1>4. p \o f = <<BYE, SP, FROM, SP>>
  BY <1>1, TwoKeywords
<1> HIDE DEF f, p
<1>5. p \in Seq(S)
  BY <1>1, <1>2, SeqOfSubset
<1>6. /\ c \in Seq(T) /\ c \in Seq(Nat) /\ Size(c) = Size(p) + Size(f) + Len(n)
      /\ Len(n) \in Nat /\ Begins(c, p)
      /\ \A x, y, j : Key(y, j, T) /\ Begins(x, c \o y) => Between(x, f, y) = n
  <2>1. Added(S, p, FROM, f, n)
    <3> HIDE DEF S
    <3> QED
      BY <1>1, <1>3, <1>5, FieldAdded
  <2> QED
    BY <2>1 DEF Added
<1>7. Key(CRLF, 1, T)
  BY <1>1, CRLFText
<1> HIDE DEF c, S, T
<1>8. t \in Seq(Nat) /\ Begins(t, c) /\ SubSeq(t, Len(t) - 1, Len(t)) = CRLF
  BY <1>6, EndsWithCRLF
<1>9. Size(t) = 11 + Len(n)
  <2>1. Size(t) = Size(c) + Size(CRLF) /\ Size(CRLF) = 2
    BY <1>6, CRLFText, SizeJoined
  <2> HIDE DEF t
  <2> QED
    BY <2>1, <1>2, <1>3, <1>6
<1>10. Begins(t, c \o CRLF)
  BY <1>8, BeginsItself
<1> HIDE DEF t
<1>11. Between(t, f, CRLF) = n
  BY <1>6, <1>7, <1>10
<1>12. t[1] = BYE
  <2>1. Begins(t, p)
    BY <1>6, <1>8, BeginsTransitive
  <2> QED
    BY <2>1, <1>1, FirstSymbol DEF p
<1> DEFINE m == [type |-> "BYE", fields |-> <<n>>]
<1>13. m.type = "BYE" /\ m.fields = <<n>> /\ Keyword["BYE"] = BYE
  BY DEF Keyword
<1> HIDE DEF m
<1>14. ReadsText(m, t)
  <2>1. TextFields("BYE", t) = <<n>>
    BY <1>11 DEF TextFields, f
  <2> QED
    BY <1>12, <1>13, <2>1 DEF ReadsText
<1>15. t = <<BYE, SP, FROM, SP>> \o n \o CRLF
  BY <1>4 DEF t, c
<1> QED
  BY <1>8, <1>9, <1>14, <1>15 DEF m

(* A MSG that is not cut.  What stands before its CRLF holds no CR. *)
LEMMA TextOfMsg ==
  ASSUME NEW n \in Seq(Plain), NEW w \in Seq(Plain)
  PROVE  LET c == <<MSG, SP, FROM, SP>> \o n \o Spaced(IS) \o w
             t == c \o CRLF
         IN  /\ c \in Seq(((Plain \cup {MSG}) \cup {FROM}) \cup {IS})
             /\ Size(t) = 15 + Len(n) + Len(w)
             /\ SubSeq(t, Len(t) - 1, Len(t)) = CRLF
             /\ ReadsText([type |-> "MSG", fields |-> <<n, w>>], t)
<1> DEFINE S == Plain \cup {MSG}
           T == S \cup {FROM}
           U == T \cup {IS}
           p == <<MSG, SP>>
           f == <<FROM, SP>>
           g == Spaced(IS)
           c == TwoTexts(p, f, n, g, w)
           t == c \o CRLF
<1>1. /\ S \in SUBSET Nat /\ Plain \subseteq S /\ {MSG, SP} \in SUBSET S /\ MSG \in Nat
      /\ MSG \notin Plain /\ FROM \in Nat \ S /\ IS \in Nat \ T /\ IS # SP
      /\ CR \notin S /\ CR # FROM /\ CR # IS
  BY DEF Plain, MSG, FROM, IS, CR, SP
<1>2. p \in Seq({MSG, SP}) /\ p \in Seq(Nat) /\ Size(p) = 3 + 1
  BY <1>1, KeywordText, Widths
<1>3. f \in Seq({FROM, SP}) /\ Size(f) = 4 + 1 /\ Key(f, 1, S)
  BY <1>1, KeywordText, Widths
<1>4. g \in Seq({IS, SP}) /\ Size(g) = 2 + 2 /\ Key(g, 2, T)
  BY <1>1, SpacedText, Widths
<1>5. p \o f = <<MSG, SP, FROM, SP>>
  BY <1>1, TwoKeywords
<1>6. Len(n) \in Nat /\ Len(w) \in Nat
  BY LenProperties
<1> HIDE DEF f, p, g
<1>7. p \in Seq(S)
  BY <1>1, <1>2, SeqOfSubset
<1> HIDE DEF c
<1>8. /\ c \in Seq(U) /\ t \in Seq(Nat) /\ Begins(t, p)
      /\ Size(t) = Size(p) + Size(f) + Len(n) + Size(g) + Len(w) + 2
      /\ SubSeq(t, Len(t) - 1, Len(t)) = CRLF
      /\ Between(t, f, g) = n /\ Between(t, g, CRLF) = w
  <2>1. TwoRead(S, p, FROM, f, n, IS, g, w)
    <3> HIDE DEF S
    <3> QED
      BY <1>1, <1>3, <1>4, <1>7, TextOfTwo
  <2> QED
    BY <2>1 DEF TwoRead, c
<1> HIDE DEF t
<1>9. Size(t) = 15 + Len(n) + Len(w)
  BY <1>2, <1>3, <1>4, <1>6, <1>8
<1>10. t[1] = MSG
  BY <1>1, <1>8, FirstSymbol DEF p
<1> DEFINE m == [type |-> "MSG", fields |-> <<n, w>>]
<1>11. m.type = "MSG" /\ m.fields = <<n, w>> /\ Keyword["MSG"] = MSG
  BY DEF Keyword
<1> HIDE DEF m
<1>12. ReadsText(m, t)
  <2>1. TextFields("MSG", t) = <<n, w>>
    BY <1>8 DEF TextFields, f, g
  <2> QED
    BY <1>10, <1>11, <2>1 DEF ReadsText
<1>13. c = <<MSG, SP, FROM, SP>> \o n \o Spaced(IS) \o w
  BY <1>5 DEF c, TwoTexts, g
<1> QED
  BY <1>8, <1>9, <1>12, <1>13 DEF m, t

(* Cutting off symbols that are one character each. *)
LEMMA CutText ==
  ASSUME NEW t \in Seq(Nat), NEW k \in 1 .. Len(t),
         \A i \in k + 1 .. Len(t) : Width(t[i]) = 1
  PROVE  LET u == SubSeq(t, 1, k)
         IN  /\ u \in Seq(Nat) /\ Len(u) = k /\ \A i \in 1 .. k : u[i] = t[i]
             /\ Size(u) + Len(t) = Size(t) + k
             /\ Size(u) \in Nat
<1> DEFINE u == SubSeq(t, 1, k)
           a == Len(t)
<1>1. a \in Nat /\ k \in Nat /\ k <= a /\ 1 <= k
  BY LenProperties
<1>2. u \in Seq(Nat) /\ Len(u) = k /\ \A i \in 1 .. k : u[i] = t[i]
  <2>1. k + 1 - 1 = k /\ 1 <= k + 1 /\ 1 \in Nat \ {0} /\ \A i \in 1 .. k : 1 + i - 1 = i
    BY <1>1
  <2>2. u \in Seq(Nat) /\ Len(u) = k + 1 - 1 /\ \A i \in 1 .. k + 1 - 1 : u[i] = t[1 + i - 1]
    BY <1>1, <2>1, Part
  <2> HIDE DEF u
  <2> QED
    BY <2>1, <2>2
<1> HIDE DEF u
<1>3. ASSUME NEW n \in 1 .. 4 PROVE Wider(u, n) = Wider(t, n) /\ Wider(t, n) \in Nat
  <2>1. /\ WiderAt(u, n) = {i \in 1 .. k : Width(u[i]) > n}
        /\ WiderAt(t, n) = {i \in 1 .. a : Width(t[i]) > n}
    BY <1>2 DEF WiderAt
  <2>2. \A i \in 1 .. a : Width(t[i]) > n => i \in 1 .. k
    <3>1. \A i \in 1 .. a : i \in 1 .. k \/ i \in k + 1 .. a
      BY <1>1
    <3>2. \A i \in k + 1 .. a : ~(Width(t[i]) > n)
      <4>1. ~(1 > n)
        OBVIOUS
      <4> QED
        BY <4>1
    <3> QED
      BY <3>1, <3>2
  <2>3. 1 .. k \subseteq 1 .. a
    BY <1>1
  <2>4. WiderAt(u, n) = WiderAt(t, n)
    BY <1>2, <2>1, <2>2, <2>3
  <2> QED
    BY <1>2, <2>4, WiderIs
<1>4. 1 \in 1 .. 4 /\ 2 \in 1 .. 4 /\ 3 \in 1 .. 4 /\ 4 \in 1 .. 4
  OBVIOUS
<1> DEFINE w1 == Wider(t, 1)
           w2 == Wider(t, 2)
           w3 == Wider(t, 3)
           w4 == Wider(t, 4)
<1>5. /\ Size(t) = a + w1 + w2 + w3 + w4 /\ Size(u) = k + w1 + w2 + w3 + w4
      /\ w1 \in Nat /\ w2 \in Nat /\ w3 \in Nat /\ w4 \in Nat
  BY <1>2, <1>3, <1>4 DEF Size
<1> HIDE DEF w1, w2, w3, w4, a
<1>6. Size(u) + a = Size(t) + k /\ Size(u) \in Nat
  BY <1>1, <1>5
<1> QED
  BY <1>2, <1>6 DEF u, a

(* The text in front of the content of a MSG. *)
LEMMA InFrontOfContent ==
  ASSUME NEW n \in Seq(Nat)
  PROVE  LET h == <<MSG, SP, FROM, SP>> \o n \o Spaced(IS)
         IN  h \in Seq(Nat) /\ Len(n) \in Nat /\ Len(h) = 7 + Len(n)
<1> DEFINE p == <<MSG, SP, FROM, SP>>
           q == p \o n
           g == Spaced(IS)
           h == q \o g
<1>1. p \in Seq(Nat) /\ Len(p) = 4 /\ g \in Seq(Nat) /\ Len(g) = 3
  BY DEF MSG, FROM, IS, SP, Spaced
<1> HIDE DEF p, g
<1>2. q \in Seq(Nat) /\ Len(q) = 4 + Len(n) /\ Len(n) \in Nat
  BY <1>1, Joined
<1> HIDE DEF q
<1>3. h \in Seq(Nat) /\ Len(h) = Len(q) + 3
  <2>1. h \in Seq(Nat) /\ Len(h) = Len(q) + Len(g)
    BY <1>1, <1>2, Joined
  <2> QED
    BY <2>1, <1>1
<1> HIDE DEF h
<1>4. Len(h) = 7 + Len(n)
  BY <1>2, <1>3
<1> QED
  BY <1>2, <1>3, <1>4 DEF h, q, p, g

(* A MSG that is cut: part of its content is left, and its last two symbols *)
(* are no CRLF.                                                             *)
LEMMA CutMsg ==
  ASSUME NEW n \in Seq(Plain), NEW w \in Seq(Plain), NEW M \in Nat,
         14 + Len(n) < M, ~(15 + Len(n) + Len(w) < M)
  PROVE  LET t == <<MSG, SP, FROM, SP>> \o n \o Spaced(IS) \o w \o CRLF
             u == SubSeq(t, 1, Len(t) - (Size(t) - (M - 1)))
         IN  Size(u) = M - 1 /\ SubSeq(u, Len(u) - 1, Len(u)) # CRLF
<1> DEFINE h == <<MSG, SP, FROM, SP>> \o n \o Spaced(IS)
           c == h \o w
           t == c \o CRLF
           k == M - 7
           u == SubSeq(t, 1, k)
           a == Len(n)
           b == Len(w)
<1>1. /\ n \in Seq(Nat) /\ a \in Nat /\ w \in Seq(Nat) /\ b \in Nat
      /\ \A i \in 1 .. b : w[i] \in Plain
  <2>1. \A i \in 1 .. b : w[i] \in Plain
    BY LenProperties, ElementOfSeq
  <2> QED
    BY <2>1, SizeOfPlain
<1>2. h \in Seq(Nat) /\ Len(h) = 7 + a
  BY <1>1, InFrontOfContent
<1>3. Size(t) = 15 + a + b /\ c \in Seq(((Plain \cup {MSG}) \cup {FROM}) \cup {IS})
  BY TextOfMsg
<1> HIDE DEF h
<1>4. c \in Seq(Nat) /\ Len(c) = 7 + a + b /\ Piece(c, 7 + a, w, b)
  BY <1>1, <1>2, Joined
<1>5. \A i \in 1 .. 7 + a + b : c[i] # CR
  <2>1. Len(c) = 7 + a + b /\ CR \notin ((Plain \cup {MSG}) \cup {FROM}) \cup {IS}
    BY <1>4 DEF Plain, MSG, FROM, IS, CR
  <2> HIDE DEF c
  <2> QED
    BY <1>3, <2>1, ElementOfSeq
<1> HIDE DEF c
<1>6. /\ t \in Seq(Nat) /\ Len(t) = 7 + a + b + 2
      /\ Piece(t, 0, c, 7 + a + b) /\ Piece(t, 7 + a + b, CRLF, 2)
  BY <1>4, CRLFText, Joined
<1> HIDE DEF t, k, a, b
<1>7. /\ k \in 1 .. Len(t) /\ k - 1 \in 1 .. 7 + a + b /\ k = M - 7
      /\ k > 7 + a /\ k - 1 \in Nat \ {0} /\ k = Len(t) - (Size(t) - (M - 1))
  <2>1. 14 + a < M /\ ~(15 + a + b < M) /\ k = M - 7
    BY DEF a, b, k
  <2> QED
    BY <2>1, <1>1, <1>3, <1>6
<1>8. ASSUME NEW i \in k + 1 .. Len(t) PROVE Width(t[i]) = 1
  <2>1. CASE i <= 7 + a + b
    <3> DEFINE j == i - (7 + a)
    <3>1. j \in 1 .. b /\ i \in 1 .. 7 + a + b /\ 0 + i = i /\ 7 + a + j = i
      BY <1>1, <1>6, <1>7, <2>1
    <3> HIDE DEF j
    <3>2. t[0 + i] = c[i] /\ c[7 + a + j] = w[j]
      BY <1>4, <1>6, <3>1 DEF Piece
    <3>3. t[i] = w[j] /\ w[j] \in Plain
      BY <1>1, <3>1, <3>2
    <3> QED
      BY <3>3, Widths
  <2>2. CASE ~(i <= 7 + a + b)
    <3>1. i = 7 + a + b + 1 \/ i = 7 + a + b + 2
      BY <1>1, <1>6, <1>7, <2>2
    <3>2. t[7 + a + b + 1] = CR /\ t[7 + a + b + 2] = LF
      <4>1. 1 \in 1 .. 2 /\ 2 \in 1 .. 2
        OBVIOUS
      <4>2. t[7 + a + b + 1] = CRLF[1] /\ t[7 + a + b + 2] = CRLF[2]
        BY <1>6, <4>1 DEF Piece
      <4> QED
        BY <4>2, CRLFText
    <3>3. Width(CR) = 1 /\ Width(LF) = 1
      BY Widths DEF Plain, LF
    <3> QED
      BY <3>1, <3>2, <3>3
  <2> QED
    BY <2>1, <2>2
<1>9. /\ u \in Seq(Nat) /\ Len(u) = k /\ \A i \in 1 .. k : u[i] = t[i]
      /\ Size(u) + Len(t) = Size(t) + k /\ Size(u) \in Nat
  BY <1>6, <1>7, <1>8, CutText
<1> HIDE DEF u
<1>10. Size(u) = M - 1
  <2> DEFINE x == Size(u)
             y == Size(t)
             l == Len(t)
  <2>1. x + l = y + k /\ x \in Nat /\ y = 15 + a + b /\ l = 7 + a + b + 2 /\ k = M - 7
    BY <1>3, <1>6, <1>7, <1>9 DEF a, b
  <2> HIDE DEF x, y, l
  <2>2. x = M - 1
    BY <1>1, <2>1
  <2> QED
    BY <2>2 DEF x
<1>11. u[k - 1] # CR
  <2>1. k - 1 \in 1 .. k /\ 0 + (k - 1) = k - 1
    BY <1>7
  <2>2. t[0 + (k - 1)] = c[k - 1]
    BY <1>6, <1>7 DEF Piece
  <2> QED
    BY <2>1, <2>2, <1>5, <1>7, <1>9
<1>12. SubSeq(u, k - 1, k) # CRLF
  <2> DEFINE v == SubSeq(u, k - 1, k)
             i == k - 1
  <2>1. i \in Nat \ {0} /\ k \in Nat /\ i <= k + 1 /\ k <= Len(u) /\ 1 \in 1 .. k + 1 - i
        /\ i + 1 - 1 = i
    BY <1>7, <1>9
  <2>2. \A j \in 1 .. k + 1 - i : v[j] = u[i + j - 1]
    <3> HIDE DEF i
    <3>1. \A j \in 1 .. k + 1 - i : SubSeq(u, i, k)[j] = u[i + j - 1]
      BY <1>9, <2>1, Part
    <3> QED
      BY <3>1 DEF i
  <2> HIDE DEF v
  <2>3. v[1] = u[k - 1]
    BY <2>1, <2>2
  <2>4. v # CRLF
    BY <2>3, <1>11, CRLFText
  <2> QED
    BY <2>4 DEF v
<1>13. SubSeq(u, Len(u) - 1, Len(u)) # CRLF
  BY <1>9, <1>12
<1> QED
  BY <1>7, <1>10, <1>13 DEF u, t, c, h

(* What the checks of validation.c let through. *)
LEMMA PlainText ==
  ASSUME NEW s, s \in Seq(Character), NEW P \in SUBSET Plain, NEW m \in Nat, OneOf(P, s, m)
  PROVE  s \in Seq(Plain) /\ Len(s) \in Nat /\ Len(s) <= m
<1> DEFINE a == Len(s)
<1>1. a \in Nat /\ s \in [1 .. a -> Character]
  BY LenProperties
<1>2. a \in 1 .. m /\ \A i \in 1 .. a : s[i] \in P
  BY DEF OneOf
<1> HIDE DEF a
<1>3. s \in [1 .. a -> Plain]
  BY <1>1, <1>2
<1>4. s \in Seq(Plain)
  BY <1>1, <1>3, IsASeq
<1>5. a <= m
  BY <1>2
<1> QED
  BY <1>1, <1>4, <1>5 DEF a

LEMMA CheckedText ==
  ASSUME NEW s, s \in Seq(Character)
  PROVE  /\ Len(s) \in Nat
         /\ DottedId(s) => s \in Seq(Plain) /\ Len(s) <= MAX_USERNAME_LEN
         /\ ValidSecret(s) => s \in Seq(Plain) /\ Len(s) <= MAX_SECRET_LEN
         /\ ValidName(s) => s \in Seq(Plain) /\ Len(s) <= MAX_DISPLAY_NAME_LEN
         /\ ValidContent(s) => s \in Seq(Plain)
<1>1. /\ MAX_USERNAME_LEN \in Nat /\ MAX_SECRET_LEN \in Nat
      /\ MAX_DISPLAY_NAME_LEN \in Nat /\ MAX_MESSAGE_CONTENT_LEN \in Nat
  BY MaximumsAssumption
<1>2. /\ Alphanumeric \cup {45, 46, 95} \in SUBSET Plain
      /\ Alphanumeric \cup {45, 95} \in SUBSET Plain
      /\ 33 .. 126 \in SUBSET Plain /\ {10} \cup (32 .. 126) \in SUBSET Plain
  BY DEF Alphanumeric, Plain
<1>3. Len(s) \in Nat
  BY LenProperties
<1>4. DottedId(s) => s \in Seq(Plain) /\ Len(s) <= MAX_USERNAME_LEN
  BY <1>1, <1>2, PlainText DEF DottedId
<1>5. ValidSecret(s) => s \in Seq(Plain) /\ Len(s) <= MAX_SECRET_LEN
  BY <1>1, <1>2, PlainText DEF ValidSecret
<1>6. ValidName(s) => s \in Seq(Plain) /\ Len(s) <= MAX_DISPLAY_NAME_LEN
  BY <1>1, <1>2, PlainText DEF ValidName
<1>7. ValidContent(s) => s \in Seq(Plain)
  BY <1>1, <1>2, PlainText DEF ValidContent
<1> QED
  BY <1>3, <1>4, <1>5, <1>6, <1>7

(* What ServerUnderstands says of a text. *)
UnderstoodText(message, t) ==
    IF SubSeq(t, Len(t) - 1, Len(t)) = CRLF THEN ReadsText(message, t)
    ELSE message.type = "MSG" /\ Size(t) = MAX_MSG_SIZE - 1

LEMMA AuthUnderstood ==
  ASSUME NEW u \in Seq(Character), NEW n \in Seq(Character),
         NEW s \in Seq(Character), DottedId(u), ValidName(n), ValidSecret(s)
  PROVE  UnderstoodText([type |-> "AUTH", fields |-> <<u, n, s>>], send_tcp_auth_msg(u, n, s))
<1> DEFINE t == <<AUTH, SP>> \o u \o Spaced(AS) \o n \o Spaced(USING) \o s \o CRLF
           a == Len(u)
           b == Len(n)
           c == Len(s)
           M == MAX_MSG_SIZE
           m == [type |-> "AUTH", fields |-> <<u, n, s>>]
<1>1. /\ u \in Seq(Plain) /\ n \in Seq(Plain) /\ s \in Seq(Plain)
      /\ a \in Nat /\ b \in Nat /\ c \in Nat
      /\ a <= MAX_USERNAME_LEN /\ b <= MAX_DISPLAY_NAME_LEN /\ c <= MAX_SECRET_LEN
  BY CheckedText
<1>2. /\ Size(t) = 18 + a + b + c /\ SubSeq(t, Len(t) - 1, Len(t)) = CRLF
      /\ ReadsText(m, t)
  BY <1>1, TextOfAuth
<1>3. /\ MAX_USERNAME_LEN \in Nat /\ MAX_SECRET_LEN \in Nat /\ MAX_DISPLAY_NAME_LEN \in Nat
      /\ M \in Nat
  BY MaximumsAssumption DEF MAX_MSG_SIZE
<1>4. send_tcp_auth_msg(u, n, s) = snprintf(t)
  BY DEF send_tcp_auth_msg
<1> HIDE DEF t, a, b, c, m, M
<1>5. Size(t) < M
  <2>1. MAX_USERNAME_LEN + MAX_DISPLAY_NAME_LEN + MAX_SECRET_LEN + 18 < M
    BY BufferIsLargeEnough DEF M
  <2>2. 18 + a + b + c < M
    BY <2>1, <1>1, <1>3
  <2> QED
    BY <2>2, <1>2
<1>6. snprintf(t) = t
  BY <1>5 DEF snprintf, M
<1> QED
  BY <1>2, <1>4, <1>6 DEF UnderstoodText, m

LEMMA JoinUnderstood ==
  ASSUME NEW u \in Seq(Character), NEW n \in Seq(Character),
         DottedId(u), ValidName(n)
  PROVE  UnderstoodText([type |-> "JOIN", fields |-> <<u, n>>], send_tcp_join_msg(u, n))
<1> DEFINE t == <<JOIN, SP>> \o u \o Spaced(AS) \o n \o CRLF
           a == Len(u)
           b == Len(n)
           M == MAX_MSG_SIZE
           m == [type |-> "JOIN", fields |-> <<u, n>>]
<1>1. /\ u \in Seq(Plain) /\ n \in Seq(Plain) /\ a \in Nat /\ b \in Nat
      /\ a <= MAX_USERNAME_LEN /\ b <= MAX_DISPLAY_NAME_LEN
  BY CheckedText
<1>2. /\ Size(t) = 11 + a + b /\ SubSeq(t, Len(t) - 1, Len(t)) = CRLF
      /\ ReadsText(m, t)
  BY <1>1, TextOfJoin
<1>3. /\ MAX_USERNAME_LEN \in Nat /\ MAX_SECRET_LEN \in Nat /\ MAX_DISPLAY_NAME_LEN \in Nat
      /\ M \in Nat
  BY MaximumsAssumption DEF MAX_MSG_SIZE
<1>4. send_tcp_join_msg(u, n) = snprintf(t)
  BY DEF send_tcp_join_msg
<1> HIDE DEF t, a, b, m, M
<1>5. Size(t) < M
  <2>1. MAX_USERNAME_LEN + MAX_DISPLAY_NAME_LEN + MAX_SECRET_LEN + 18 < M
    BY BufferIsLargeEnough DEF M
  <2>2. 11 + a + b < M
    BY <2>1, <1>1, <1>3
  <2> QED
    BY <2>2, <1>2
<1>6. snprintf(t) = t
  BY <1>5 DEF snprintf, M
<1> QED
  BY <1>2, <1>4, <1>6 DEF UnderstoodText, m

LEMMA ByeUnderstood ==
  ASSUME NEW n \in Seq(Character), ValidName(n)
  PROVE  UnderstoodText([type |-> "BYE", fields |-> <<n>>], send_tcp_bye_msg(n))
<1> DEFINE t == <<BYE, SP, FROM, SP>> \o n \o CRLF
           b == Len(n)
           M == MAX_MSG_SIZE
           m == [type |-> "BYE", fields |-> <<n>>]
<1>1. n \in Seq(Plain) /\ b \in Nat /\ b <= MAX_DISPLAY_NAME_LEN
  BY CheckedText
<1>2. /\ Size(t) = 11 + b /\ SubSeq(t, Len(t) - 1, Len(t)) = CRLF /\ ReadsText(m, t)
  BY <1>1, TextOfBye
<1>3. /\ MAX_USERNAME_LEN \in Nat /\ MAX_SECRET_LEN \in Nat /\ MAX_DISPLAY_NAME_LEN \in Nat
      /\ M \in Nat
  BY MaximumsAssumption DEF MAX_MSG_SIZE
<1>4. send_tcp_bye_msg(n) = snprintf(t)
  BY DEF send_tcp_bye_msg
<1> HIDE DEF t, b, m, M
<1>5. Size(t) < M
  <2>1. MAX_USERNAME_LEN + MAX_DISPLAY_NAME_LEN + MAX_SECRET_LEN + 18 < M
    BY BufferIsLargeEnough DEF M
  <2>2. 11 + b < M
    BY <2>1, <1>1, <1>3
  <2> QED
    BY <2>2, <1>2
<1>6. snprintf(t) = t
  BY <1>5 DEF snprintf, M
<1> QED
  BY <1>2, <1>4, <1>6 DEF UnderstoodText, m

LEMMA MsgUnderstood ==
  ASSUME NEW n \in Seq(Character), NEW w \in Seq(Character),
         ValidName(n), ValidContent(w)
  PROVE  UnderstoodText([type |-> "MSG", fields |-> <<n, w>>], send_tcp_msg_msg(n, w))
<1> DEFINE t == <<MSG, SP, FROM, SP>> \o n \o Spaced(IS) \o w \o CRLF
           a == Len(n)
           b == Len(w)
           M == MAX_MSG_SIZE
           u == SubSeq(t, 1, Len(t) - (Size(t) - (M - 1)))
           m == [type |-> "MSG", fields |-> <<n, w>>]
<1>1. /\ n \in Seq(Plain) /\ a \in Nat /\ a <= MAX_DISPLAY_NAME_LEN
      /\ w \in Seq(Plain) /\ b \in Nat
  BY CheckedText
<1>2. /\ Size(t) = 15 + a + b /\ SubSeq(t, Len(t) - 1, Len(t)) = CRLF /\ ReadsText(m, t)
  BY <1>1, TextOfMsg
<1>3. /\ MAX_USERNAME_LEN \in Nat /\ MAX_SECRET_LEN \in Nat /\ MAX_DISPLAY_NAME_LEN \in Nat
      /\ M \in Nat
  BY MaximumsAssumption DEF MAX_MSG_SIZE
<1>4. send_tcp_msg_msg(n, w) = snprintf(t)
  BY DEF send_tcp_msg_msg
<1>5. 14 + a < M
  <2>1. MAX_USERNAME_LEN + MAX_DISPLAY_NAME_LEN + MAX_SECRET_LEN + 18 < M
    BY BufferIsLargeEnough DEF M
  <2> HIDE DEF a, M
  <2> QED
    BY <2>1, <1>1, <1>3
<1>6. ~(15 + a + b < M) => Size(u) = M - 1 /\ SubSeq(u, Len(u) - 1, Len(u)) # CRLF
  <2> HIDE DEF M
  <2> QED
    BY <1>1, <1>3, <1>5, CutMsg
<1>7. m.type = "MSG"
  OBVIOUS
<1> HIDE DEF t, u, a, b, m, M
<1>8. snprintf(t) = IF Size(t) < M THEN t ELSE u
  BY DEF snprintf, M, u
<1>9. UnderstoodText(m, snprintf(t))
  BY <1>2, <1>6, <1>7, <1>8 DEF UnderstoodText, M
<1> QED
  BY <1>4, <1>9 DEF m

(* Nothing is sent before the arguments are read, and once they are, the    *)
(* protocol is chosen; the name in force is a text.                         *)
Prepared ==
    /\ pc = "args" => out = Nothing
    /\ pc \in {"read", "dispatch"} => use_tcp_protocol \in {0, 1}
    /\ display_name \in Seq(Character)

ServerInv == ServerUnderstands /\ Prepared

LEMMA NothingToRead ==
  ASSUME out' = Nothing, display_name' \in Seq(Character),
         pc' \in {"read", "dispatch"} => use_tcp_protocol' \in {0, 1}
  PROVE  ServerInv'
BY DEF ServerInv, ServerUnderstands, Prepared, Nothing

LEMMA ReadAsBefore ==
  ASSUME ServerInv, UNCHANGED <<out, wire, use_tcp_protocol, display_name>>,
         pc' = "args" => pc = "args",
         pc' \in {"read", "dispatch"} => pc \in {"read", "dispatch"}
  PROVE  ServerInv'
BY DEF ServerInv, ServerUnderstands, Prepared

(* A message is understood in whichever protocol it is sent. *)
LEMMA SentIsUnderstood ==
  ASSUME ServerInv, pc = "dispatch", UNCHANGED use_tcp_protocol,
         display_name' \in Seq(Character),
         NEW message, NEW text, NEW datagrams, Send(message, text, datagrams),
         UnderstoodText(message, text),
         \A d \in datagrams : ReadsDatagram(message, d)
  PROVE  ServerInv'
<1>1. /\ out' = message /\ use_tcp_protocol' = use_tcp_protocol
      /\ use_tcp_protocol \in {0, 1} /\ pc' \in {"read", "ended"}
      /\ \/ use_tcp_protocol = 1 /\ wire' = text
         \/ use_tcp_protocol = 0 /\ wire' \in datagrams
  BY DEF ServerInv, Prepared, Send
<1>2. \/ use_tcp_protocol' = 0 /\ ReadsDatagram(out', wire')
      \/ use_tcp_protocol' = 1 /\ UnderstoodText(out', wire')
  BY <1>1
<1>3. ServerUnderstands'
  BY <1>2 DEF ServerUnderstands, UnderstoodText
<1> QED
  BY <1>1, <1>3 DEF ServerInv, Prepared

(* A parameter of a command is a text. *)
LEMMA TextOfWord ==
  ASSUME SessionInv, NEW k \in 1 .. WordCount, NEW n \in Nat
  PROVE  strncpy(Word(k), n) \in Seq(Character)
<1>1. Word(k) \in Seq(Character)
  BY WordIsText DEF SessionInv, LineInHand
<1> QED
  BY <1>1, strncpyIsPrefix

LEMMA RenameUnderstood ==
  ASSUME SessionInv, ServerInv, cmd_rename
  PROVE  ServerInv'
<1> DEFINE name == strncpy(Word(2), MAX_DISPLAY_NAME_LEN)
<1>1. /\ pc = "dispatch" /\ pc' = "read" /\ UNCHANGED <<out, use_tcp_protocol>>
      /\ (WordCount > 1 /\ display_name' = name) \/ display_name' = display_name
  BY DEF cmd_rename, Selected, SendNothing, sending, SetName, KeepName
<1>2. display_name' \in Seq(Character)
  <2>1. CASE WordCount > 1 /\ display_name' = name
    <3>1. 2 \in 1 .. WordCount /\ MAX_DISPLAY_NAME_LEN \in Nat
      BY <2>1, CountOfWords, MaximumsAssumption DEF SessionInv, LineInHand
    <3> QED
      BY <2>1, <3>1, TextOfWord
  <2> QED
    BY <1>1, <2>1 DEF ServerInv, Prepared
<1>3. out' = Nothing /\ use_tcp_protocol' \in {0, 1}
  BY <1>1 DEF SessionInv, LineInHand, ServerInv, Prepared
<1> QED
  BY <1>2, <1>3, NothingToRead

LEMMA AuthIsUnderstood ==
  ASSUME SessionInv, ServerInv, cmd_auth
  PROVE  ServerInv'
<1> DEFINE u == strncpy(Word(2), MAX_USERNAME_LEN)
           s == strncpy(Word(3), MAX_SECRET_LEN)
           n == strncpy(Word(4), MAX_DISPLAY_NAME_LEN)
           m == [type |-> "AUTH", fields |-> <<u, n, s>>]
           datagrams == {serialize_auth_msg(id, u, n, s) : id \in MessageIds}
           sent == /\ WordCount > 3 /\ validate_id(u) /\ validate_secret(s)
                   /\ validate_display_name(n) /\ display_name' = n
                   /\ Send(m, send_tcp_auth_msg(u, n, s), datagrams)
<1>1. /\ pc = "dispatch" /\ UNCHANGED use_tcp_protocol
      /\ sent \/ (UNCHANGED <<out, display_name>> /\ pc' = "read")
  BY DEF cmd_auth, Selected, SendNothing, sending, SetName, KeepName
<1>2. CASE sent
  <2>1. /\ 2 \in 1 .. WordCount /\ 3 \in 1 .. WordCount /\ 4 \in 1 .. WordCount
    BY <1>2, CountOfWords DEF SessionInv, LineInHand
  <2>2. MAX_USERNAME_LEN \in Nat /\ MAX_SECRET_LEN \in Nat /\ MAX_DISPLAY_NAME_LEN \in Nat
    BY MaximumsAssumption
  <2>3. u \in Seq(Character) /\ s \in Seq(Character) /\ n \in Seq(Character)
    BY <2>1, <2>2, TextOfWord
  <2> HIDE DEF u, s, n
  <2>4. DottedId(u) /\ ValidName(n) /\ ValidSecret(s)
    BY <1>2, ChecksAreTheGrammar
  <2>5. UnderstoodText(m, send_tcp_auth_msg(u, n, s))
    BY <2>3, <2>4, AuthUnderstood
  <2>6. \A d \in datagrams : ReadsDatagram(m, d)
    BY <2>3, DatagramOfThree
  <2> HIDE DEF m, datagrams
  <2> QED
    BY <1>1, <1>2, <2>3, <2>5, <2>6, SentIsUnderstood
<1>3. CASE UNCHANGED <<out, display_name>> /\ pc' = "read"
  <2>1. out' = Nothing /\ use_tcp_protocol' \in {0, 1} /\ display_name' \in Seq(Character)
    BY <1>1, <1>3 DEF SessionInv, LineInHand, ServerInv, Prepared
  <2> QED
    BY <2>1, NothingToRead
<1> QED
  BY <1>1, <1>2, <1>3

LEMMA JoinIsUnderstood ==
  ASSUME SessionInv, ServerInv, cmd_join
  PROVE  ServerInv'
<1> DEFINE u == strncpy(Word(2), MAX_USERNAME_LEN)
           n == display_name
           m == [type |-> "JOIN", fields |-> <<u, n>>]
           datagrams == {serialize_join_msg(id, u, n) : id \in MessageIds}
           sent == /\ WordCount > 1 /\ validate_id(u) /\ validate_display_name(n)
                   /\ Send(m, send_tcp_join_msg(u, n), datagrams)
<1>1. /\ pc = "dispatch" /\ UNCHANGED <<use_tcp_protocol, display_name>>
      /\ sent \/ (UNCHANGED out /\ pc' = "read")
  BY DEF cmd_join, Selected, SendNothing, sending, settings
<1>2. n \in Seq(Character) /\ display_name' \in Seq(Character)
  BY <1>1 DEF ServerInv, Prepared
<1>3. CASE sent
  <2>1. 2 \in 1 .. WordCount /\ MAX_USERNAME_LEN \in Nat
    BY <1>3, CountOfWords, MaximumsAssumption DEF SessionInv, LineInHand
  <2>2. u \in Seq(Character)
    BY <2>1, TextOfWord
  <2> HIDE DEF u, n
  <2>3. DottedId(u) /\ ValidName(n)
    BY <1>3, ChecksAreTheGrammar
  <2>4. UnderstoodText(m, send_tcp_join_msg(u, n))
    BY <1>2, <2>2, <2>3, JoinUnderstood
  <2>5. \A d \in datagrams : ReadsDatagram(m, d)
    <3>1. \A id : serialize_join_msg(id, u, n)
                    = (Header("JOIN", id) \o Terminated(u)) \o Terminated(n)
      BY DEF serialize_join_msg
    <3>2. \A id \in MessageIds :
            ReadsDatagram(m, (Header("JOIN", id) \o Terminated(u)) \o Terminated(n))
      BY <1>2, <2>2, DatagramOfTwo
    <3> QED
      BY <3>1, <3>2
  <2> HIDE DEF m, datagrams
  <2> QED
    BY <1>1, <1>2, <1>3, <2>4, <2>5, SentIsUnderstood
<1>4. CASE UNCHANGED out /\ pc' = "read"
  <2>1. out' = Nothing /\ use_tcp_protocol' \in {0, 1}
    BY <1>1, <1>4 DEF SessionInv, LineInHand, ServerInv, Prepared
  <2> QED
    BY <1>2, <2>1, NothingToRead
<1> QED
  BY <1>1, <1>3, <1>4

LEMMA MsgIsUnderstood ==
  ASSUME SessionInv, ServerInv, cmd_msg
  PROVE  ServerInv'
<1> DEFINE n == display_name
           w == Message
           m == [type |-> "MSG", fields |-> <<n, w>>]
           datagrams == {serialize_msg(id, n, w) : id \in MessageIds}
           sent == /\ validate_display_name(n) /\ validate_message_content(unprocessed_line)
                   /\ Send(m, send_tcp_msg_msg(n, w), datagrams)
<1>1. /\ pc = "dispatch" /\ UNCHANGED <<use_tcp_protocol, display_name>>
      /\ sent \/ (UNCHANGED out /\ pc' = "read")
  BY DEF cmd_msg, Selected, SendNothing, sending, settings, session
<1>2. n \in Seq(Character) /\ display_name' \in Seq(Character)
  BY <1>1 DEF ServerInv, Prepared
<1>3. CASE sent
  <2>1. /\ w = unprocessed_line /\ w \in Seq(Character)
        /\ Len(w) <= MAX_MESSAGE_CONTENT_LEN
    BY <1>1, LineAsMessage
  <2> HIDE DEF w, n
  <2>2. ValidName(n) /\ ValidContent(w)
    BY <1>3, <2>1, ChecksAreTheGrammar
  <2>3. UnderstoodText(m, send_tcp_msg_msg(n, w))
    BY <1>2, <2>1, <2>2, MsgUnderstood
  <2>4. \A d \in datagrams : ReadsDatagram(m, d)
    <3>1. \A id : serialize_msg(id, n, w)
                    = (Header("MSG", id) \o Terminated(n)) \o Terminated(w)
      BY DEF serialize_msg
    <3>2. \A id \in MessageIds :
            ReadsDatagram(m, (Header("MSG", id) \o Terminated(n)) \o Terminated(w))
      BY <1>2, <2>1, DatagramOfTwo
    <3> QED
      BY <3>1, <3>2
  <2> HIDE DEF m, datagrams
  <2> QED
    BY <1>1, <1>2, <1>3, <2>3, <2>4, SentIsUnderstood
<1>4. CASE UNCHANGED out /\ pc' = "read"
  <2>1. out' = Nothing /\ use_tcp_protocol' \in {0, 1}
    BY <1>1, <1>4 DEF SessionInv, LineInHand, ServerInv, Prepared
  <2> QED
    BY <1>2, <2>1, NothingToRead
<1> QED
  BY <1>1, <1>3, <1>4

LEMMA QuitIsUnderstood ==
  ASSUME SessionInv, ServerInv, graceful_quit
  PROVE  ServerInv'
<1> DEFINE n == display_name
           m == [type |-> "BYE", fields |-> <<n>>]
<1>1. /\ use_tcp_protocol \in {0, 1} /\ use_tcp_protocol' = use_tcp_protocol
      /\ out' = m /\ pc' = "ended"
      /\ \/ use_tcp_protocol = 1 /\ wire' = send_tcp_bye_msg(n)
         \/ use_tcp_protocol = 0 /\ \E id \in MessageIds : wire' = serialize_bye_msg(id, n)
  BY DEF graceful_quit, settings, ServerInv, Prepared
<1>2. n \in Seq(Character) /\ display_name' \in Seq(Character)
  BY DEF graceful_quit, session, ServerInv, Prepared
<1> HIDE DEF n
<1>3. ValidName(n)
  BY ChecksAreTheGrammar DEF SessionInv, NameIsValid, n
<1>4. UnderstoodText(m, send_tcp_bye_msg(n))
  BY <1>2, <1>3, ByeUnderstood
<1>5. \A id \in MessageIds : ReadsDatagram(m, serialize_bye_msg(id, n))
  BY <1>2, DatagramOfOne
<1> HIDE DEF m
<1>6. \/ use_tcp_protocol' = 0 /\ ReadsDatagram(out', wire')
      \/ use_tcp_protocol' = 1 /\ UnderstoodText(out', wire')
  BY <1>1, <1>4, <1>5
<1>7. ServerUnderstands'
  BY <1>6 DEF ServerUnderstands, UnderstoodText
<1> QED
  BY <1>1, <1>2, <1>7 DEF ServerInv, Prepared

LEMMA ServerStep ==
  ASSUME SessionInv, ServerInv, [Next]_pvars
  PROVE  ServerInv'
<1>1. CASE Parse
  <2>1. /\ pc = "args" /\ pc' \in {"args", "ended"} /\ UNCHANGED <<out, display_name>>
    BY <1>1 DEF Parse, input, session, sending, parse_args, NoMatch, Protocol, Host, Port,
         Timeout, Retransmissions, Refused, Proceed, Matches, Parsing
  <2>2. out' = Nothing /\ display_name' \in Seq(Character)
    BY <2>1 DEF ServerInv, Prepared
  <2> QED
    BY <2>1, <2>2, NothingToRead
<1>2. CASE Start
  <2>1. /\ pc = "args" /\ UNCHANGED <<out, display_name, use_tcp_protocol>>
        /\ pc' = "ended" \/ (pc' = "read" /\ use_tcp_protocol # -1)
    BY <1>2 DEF Start, Parsed, settings, session, sending
  <2>2. /\ out' = Nothing /\ display_name' \in Seq(Character)
        /\ pc' = "read" => use_tcp_protocol' \in {0, 1}
    BY <2>1 DEF ServerInv, Prepared, SessionInv, TypeOK
  <2> QED
    BY <2>1, <2>2, NothingToRead
<1>3. ASSUME NEW l \in Lines, GetLine(l) PROVE ServerInv'
  <2>1. /\ pc = "read" /\ out' = Nothing /\ UNCHANGED <<display_name, use_tcp_protocol>>
    BY <1>3 DEF GetLine, settings, session
  <2>2. display_name' \in Seq(Character) /\ use_tcp_protocol' \in {0, 1}
    BY <2>1 DEF ServerInv, Prepared
  <2> QED
    BY <2>1, <2>2, NothingToRead
<1>4. ASSUME NEW ok \in BOOLEAN, Reply(ok) PROVE ServerInv'
  BY <1>4, ReadAsBefore DEF Reply, settings, sending
<1>5. CASE cmd_rename
  BY <1>5, RenameUnderstood
<1>6. CASE cmd_auth
  BY <1>6, AuthIsUnderstood
<1>7. CASE cmd_join
  BY <1>7, JoinIsUnderstood
<1>8. CASE cmd_msg
  BY <1>8, MsgIsUnderstood
<1>9. CASE graceful_quit
  BY <1>9, QuitIsUnderstood
<1>10. CASE \/ ReadError \/ BlankLine \/ Refuse \/ cmd_help \/ Ended \/ UNCHANGED pvars
            \/ \E l \in Lines : GetLineCrashes(l)
  <2>1. /\ UNCHANGED <<use_tcp_protocol, display_name, out, wire>>
        /\ \/ pc' = pc
           \/ pc \in {"read", "dispatch"} /\ pc' \in {"read", "ended", "crashed"}
    BY <1>10 DEF ReadError, BlankLine, Refuse, cmd_help, Selected, Ended, pvars,
         GetLineCrashes, settings, session, sending
  <2> QED
    BY <2>1, ReadAsBefore
<1> QED
  BY <1>1, <1>2, <1>3, <1>4, <1>5, <1>6, <1>7, <1>8, <1>9, <1>10 DEF Next, Dispatch

LEMMA ServerInit == Init => ServerInv
<1> SUFFICES ASSUME Init PROVE ServerInv
  OBVIOUS
<1>1. out = Nothing /\ pc = "args" /\ display_name \in Seq(Character)
  BY ProgramAssumption DEF Init, ArgumentsInit
<1> QED
  BY <1>1 DEF ServerInv, ServerUnderstands, Prepared, Nothing

(* Whatever is typed, and with limits of any size: what is sent, as bytes   *)
(* or as text, is read back field by field as the message it was made of.   *)
(* Each text ends where its NUL or the next keyword is found first, since   *)
(* no valid parameter holds one; and only a MSG can outgrow the buffer of   *)
(* the send_tcp_* functions (BufferIsLargeEnough), which costs it its CRLF. *)
THEOREM ServerReadsBack == Spec => []ServerUnderstands
<1>1. SessionInv /\ SentInv /\ ServerInv => ServerUnderstands
  BY DEF ServerInv
<1>2. Init => SessionInv /\ SentInv /\ ServerInv
  BY SessionInit, ServerInit
<1>3. SessionInv /\ SentInv /\ ServerInv /\ [Next]_pvars
        => (SessionInv /\ SentInv /\ ServerInv)'
  BY SessionStep, ServerStep
<1> QED
  BY <1>1, <1>2, <1>3, PTL DEF Spec
=============================================================================
