---------------------------- MODULE StreamProofs ----------------------------
(***************************************************************************)
(* One connection, whatever it sends in whatever chunks: its lines are     *)
(* handled once and in order, and the replies leave in the order in which  *)
(* they were queued.                                                       *)
(***************************************************************************)
EXTENDS Stream, VectorLemmas, FiniteSetTheorems
-----------------------------------------------------------------------------
(* Lines of a stream s that has been cut up to d.                          *)

Ends(s, d) == {p \in 1 .. d : s[p] = LF}

EndsBefore(s, d, p) == {0} \cup {q \in Ends(s, d) : q < p}

\* Where the line that ends at p begins.
Start(s, d, p) == Max(EndsBefore(s, d, p)) + 1

LineAt(s, d, p) == WithoutCR(SubSeq(s, Start(s, d, p), p - 1))

Numbered(s, d, p) == Cardinality({q \in Ends(s, d) : q <= p})

\* h are the lines of s up to d.
AreLines(s, d, h) ==
    /\ Len(h) = Cardinality(Ends(s, d))
    /\ \A p \in Ends(s, d) : h[Numbered(s, d, p)] = LineAt(s, d, p)

LEMMA EndsFinite ==
    ASSUME NEW s, NEW d \in Nat
    PROVE  IsFiniteSet(Ends(s, d)) /\ Cardinality(Ends(s, d)) \in Nat
<1>1. IsFiniteSet(1 .. d)
  BY FS_Interval
<1>2. Ends(s, d) \in SUBSET (1 .. d)
  BY DEF Ends
<1>3. QED
  BY <1>1, <1>2, FS_Subset, FS_CardinalityType

LEMMA StartIsNat ==
    ASSUME NEW s, NEW d \in Nat, NEW p
    PROVE  Start(s, d, p) \in Nat \ {0}
<1> DEFINE T == EndsBefore(s, d, p)
<1>1. T \subseteq 0 .. d /\ T # {} /\ \A t \in T : t \in Nat
  BY DEF Ends, EndsBefore
<1> HIDE DEF T
<1>2. PICK x \in T : \A y \in T : x >= y
  BY <1>1, HasMax
<1>3. Max(T) \in T
  BY <1>2 DEF Max
<1>4. Max(T) \in Nat
  BY <1>1, <1>3
<1>5. Start(s, d, p) = Max(T) + 1
  BY DEF Start, T
<1>6. QED
  BY <1>4, <1>5

\* More bytes behind d change no line.
LEMMA LinesOfLonger ==
    ASSUME NEW s \in Seq(Bytes), NEW d \in 0 .. Len(s), NEW b \in Bytes, NEW h,
           AreLines(s, d, h)
    PROVE  AreLines(Append(s, b), d, h)
<1> DEFINE t == Append(s, b)
<1>1. Len(s) \in Nat /\ d \in Nat
  OBVIOUS
<1>2. \A i \in 1 .. d : t[i] = s[i]
  BY <1>1, AppendProperties
<1>3. Ends(t, d) = Ends(s, d)
  BY <1>2 DEF Ends
<1>4. ASSUME NEW p \in Ends(s, d)
      PROVE  LineAt(t, d, p) = LineAt(s, d, p)
  <2>1. Start(t, d, p) = Start(s, d, p) /\ Start(s, d, p) \in Nat \ {0}
    BY <1>1, <1>3, StartIsNat DEF Start, EndsBefore
  <2>2. p - 1 \in Int /\ p - 1 <= Len(s)
    BY <1>1 DEF Ends
  <2>3. SubSeq(t, Start(s, d, p), p - 1) = SubSeq(s, Start(s, d, p), p - 1)
    BY <2>1, <2>2, PieceOfAppend
  <2>4. QED
    BY <2>1, <2>3 DEF LineAt
<1>5. QED
  BY <1>3, <1>4 DEF AreLines, Numbered

\* One more line is cut off.
LEMMA OneMoreLine ==
    ASSUME NEW s \in Seq(Bytes), NEW d \in Nat, NEW pos \in Nat \ {0}, d + pos <= Len(s),
           d = 0 \/ s[d] = LF, s[d + pos] = LF, \A i \in 1 .. pos - 1 : s[d + i] # LF,
           NEW L, NEW h \in Seq(L), NEW line \in L,
           line = WithoutCR(SubSeq(s, d + 1, d + pos - 1)),
           AreLines(s, d, h)
    PROVE  AreLines(s, d + pos, Append(h, line))
<1> DEFINE x == d + pos
           T == Ends(s, d)
           U == Ends(s, x)
<1>1. IsFiniteSet(T) /\ Cardinality(T) \in Nat /\ Len(h) = Cardinality(T)
  BY EndsFinite DEF AreLines
<1>2. T \subseteq 1 .. d /\ x \in Nat /\ d < x
  BY DEF Ends
<1>3. U = T \cup {x} /\ x \notin T
  <2>1. ASSUME NEW q \in d + 1 .. x - 1 PROVE s[q] # LF
    <3>1. q - d \in 1 .. pos - 1 /\ d + (q - d) = q
      OBVIOUS
    <3>2. QED
      BY <3>1
  <2>2. ASSUME NEW q \in U PROVE q \in T \cup {x}
    BY <2>1 DEF Ends
  <2>3. T \cup {x} \subseteq U
    BY DEF Ends
  <2>4. x \notin T
    BY <1>2
  <2>5. QED
    BY <2>2, <2>3, <2>4
<1>4. Cardinality(U) = Len(h) + 1
  BY <1>1, <1>3, FS_AddElement
<1>5. /\ Len(Append(h, line)) = Len(h) + 1
      /\ \A i \in 1 .. Len(h) : Append(h, line)[i] = h[i]
      /\ Append(h, line)[Len(h) + 1] = line
  BY AppendProperties
<1>6. ASSUME NEW p \in T
      PROVE  Append(h, line)[Numbered(s, x, p)] = LineAt(s, x, p)
  <2>1. p <= d /\ p \in Nat
    BY <1>2
  <2>2. /\ {q \in U : q <= p} = {q \in T : q <= p}
        /\ {q \in U : q < p} = {q \in T : q < p}
    BY <1>2, <1>3, <2>1
  <2>3. Numbered(s, x, p) = Numbered(s, d, p)
    BY <2>2 DEF Numbered
  <2>4. LineAt(s, x, p) = LineAt(s, d, p)
    BY <2>2 DEF LineAt, Start, EndsBefore
  <2>5. Numbered(s, d, p) \in 1 .. Len(h)
    <3> DEFINE V == {q \in T : q <= p}
    <3>1. V \in SUBSET T /\ p \in V
      BY <2>1
    <3> HIDE DEF T, V
    <3>2. /\ IsFiniteSet(V) /\ Cardinality(V) <= Cardinality(T)
      BY <1>1, <3>1, FS_Subset
    <3>3. Cardinality(V) \in Nat /\ Cardinality(V) # 0
      BY <3>1, <3>2, FS_CardinalityType, FS_EmptySet
    <3>4. Cardinality(V) \in 1 .. Len(h)
      BY <1>1, <3>2, <3>3
    <3>5. QED
      BY <3>4 DEF Numbered, V, T
  <2>6. QED
    BY <1>5, <2>3, <2>4, <2>5 DEF AreLines
<1>7. Append(h, line)[Numbered(s, x, x)] = LineAt(s, x, x)
  <2>1. {q \in U : q <= x} = U /\ {q \in U : q < x} = T
    BY <1>2, <1>3
  <2>2. Numbered(s, x, x) = Len(h) + 1
    BY <1>4, <2>1 DEF Numbered
  <2>3. Start(s, x, x) = d + 1
    <3> DEFINE Z == {0} \cup T
    <3>1. d \in Z /\ Z \subseteq Int /\ \A y \in Z : d >= y
      BY <1>2 DEF Ends
    <3> HIDE DEF Z
    <3>2. Max(Z) \in Z /\ \A y \in Z : Max(Z) >= y
      BY <3>1 DEF Max
    <3>3. Max(Z) \in Int /\ Max(Z) >= d /\ d >= Max(Z)
      BY <3>1, <3>2
    <3>4. Max(Z) = d
      BY <3>3
    <3>5. EndsBefore(s, x, x) = Z
      BY <2>1 DEF EndsBefore, Z
    <3>6. QED
      BY <3>4, <3>5 DEF Start
  <2>4. QED
    BY <1>5, <2>2, <2>3 DEF LineAt
<1>8. QED
  BY <1>3, <1>4, <1>5, <1>6, <1>7 DEF AreLines
-----------------------------------------------------------------------------
(* The bytes that leave.                                                   *)

LEMMA MessageTyped ==
    ASSUME NEW kind \in {"reply", "relayed", "farewell"}, NEW n \in Nat
    PROVE  MessageBytes(kind, n) \in Seq(Message) /\ Len(MessageBytes(kind, n)) = 2
BY DEF MessageBytes, Message

LEMMA ReplyTyped ==
    ASSUME TypeOK, NEW line
    PROVE  Reply(line) \in Seq(Message)
<1>1. Len(handled) + 1 \in Nat
  BY DEF TypeOK
<1>2. MessageBytes("reply", Len(handled) + 1) \in Seq(Message)
  BY <1>1, MessageTyped
<1>3. <<>> \in Seq(Message)
  OBVIOUS
<1>4. QED
  BY <1>2, <1>3 DEF Reply

LEMMA WithoutCRTyped ==
    ASSUME NEW msg \in Seq(Bytes)
    PROVE  WithoutCR(msg) \in Seq(Bytes)
<1>1. CASE msg # <<>> /\ Last(msg) = CR
  <2>1. Len(msg) \in Nat
    OBVIOUS
  <2>2. SubSeq(msg, 1, Len(msg) - 1) \in Seq(Bytes)
    BY <2>1, Piece
  <2>3. QED
    BY <1>1, <2>2 DEF WithoutCR, Front
<1>2. CASE ~(msg # <<>> /\ Last(msg) = CR)
  BY <1>2 DEF WithoutCR
<1>3. QED
  BY <1>1, <1>2

\* What is read moves from the wire to the peer.
LEMMA ReadingMoves ==
    ASSUME NEW S, NEW r \in Seq(S), NEW w \in Seq(S), w # <<>>
    PROVE  /\ Append(r, Head(w)) \in Seq(S) /\ Tail(w) \in Seq(S)
           /\ Len(Tail(w)) = Len(w) - 1
           /\ Append(r, Head(w)) \o Tail(w) = r \o w
<1> DEFINE a == Append(r, Head(w))
           t == Tail(w)
<1>1. /\ Head(w) \in S /\ t \in Seq(S) /\ Len(t) = Len(w) - 1 /\ Len(w) \in Nat
      /\ Head(w) = w[1] /\ \A i \in 1 .. Len(t) : t[i] = w[i + 1]
  BY HeadTailProperties, EmptySeq
<1>2. /\ a \in Seq(S) /\ Len(a) = Len(r) + 1 /\ Len(r) \in Nat
      /\ \A i \in 1 .. Len(r) : a[i] = r[i]
      /\ a[Len(r) + 1] = w[1]
  BY <1>1, AppendProperties
<1>3. Len(w) > 0
  BY <1>1, EmptySeq
<1> HIDE DEF a, t
<1>4. /\ a \o t \in Seq(S) /\ Len(a \o t) = Len(a) + Len(t)
      /\ \A i \in 1 .. Len(a) + Len(t) :
           (a \o t)[i] = IF i <= Len(a) THEN a[i] ELSE t[i - Len(a)]
  BY <1>1, <1>2, ConcatProperties
<1>5. /\ r \o w \in Seq(S) /\ Len(r \o w) = Len(r) + Len(w)
      /\ \A i \in 1 .. Len(r) + Len(w) :
           (r \o w)[i] = IF i <= Len(r) THEN r[i] ELSE w[i - Len(r)]
  BY ConcatProperties
<1>6. Len(a \o t) = Len(r \o w)
  BY <1>1, <1>2, <1>4, <1>5
<1>7. ASSUME NEW i \in 1 .. Len(a \o t) PROVE (a \o t)[i] = (r \o w)[i]
  <2>1. CASE i <= Len(r)
    BY <1>1, <1>2, <1>4, <1>5, <1>6, <2>1
  <2>2. CASE i = Len(r) + 1
    BY <1>1, <1>2, <1>3, <1>4, <1>5, <1>6, <2>2
  <2>3. CASE i > Len(r) + 1
    <3>1. i - Len(a) \in 1 .. Len(t) /\ i - Len(a) + 1 = i - Len(r) /\ ~(i <= Len(a)) /\ ~(i <= Len(r))
      BY <1>1, <1>2, <1>4, <2>3
    <3>2. (a \o t)[i] = t[i - Len(a)] /\ (r \o w)[i] = w[i - Len(r)]
      BY <1>4, <1>5, <1>6, <3>1
    <3>3. QED
      BY <1>1, <3>1, <3>2
  <2>4. QED
    <3>1. i \in Int /\ Len(r) \in Int
      BY <1>2
    <3>2. i <= Len(r) \/ i = Len(r) + 1 \/ i > Len(r) + 1
      BY <3>1
    <3>3. QED
      BY <2>1, <2>2, <2>3, <3>2
<1>8. a \o t = r \o w
  BY <1>4, <1>5, <1>6, <1>7, SeqEqual
<1>9. QED
  BY <1>1, <1>2, <1>8 DEF a, t

\* send takes n bytes of the buffer b to the wire w.
Sent(w, b, n, x, v) == x = w \o SubSeq(b, 1, n) /\ v = SubSeq(b, n + 1, Len(b))

SameBytes(x, v, w, b) == x \o v = w \o b

\* What it takes moves, nothing else.
LEMMA SendingMoves ==
    ASSUME NEW S, NEW w \in Seq(S), NEW b \in Seq(S), NEW n \in 0 .. Len(b),
           NEW x, NEW v, Sent(w, b, n, x, v)
    PROVE  /\ x \in Seq(S) /\ v \in Seq(S)
           /\ Len(x) = Len(w) + n
           /\ SameBytes(x, v, w, b)
<1> DEFINE u == SubSeq(b, 1, n)
           t == SubSeq(b, n + 1, Len(b))
<1>1. Len(b) \in Nat /\ n \in Int /\ n <= Len(b)
  OBVIOUS
<1>2. u \in Seq(S) /\ Len(u) = IF 1 <= n THEN n - 1 + 1 ELSE 0
  BY <1>1, Piece
<1>3. t \in Seq(S)
  <2>1. n + 1 \in Nat \ {0}
    OBVIOUS
  <2>2. QED
    BY <1>1, <2>1, Piece
<1>4. u \o t = b
  <2>1. u \o t = SubSeq(b, 1, Len(b))
    <3>1. 1 \in Nat \ {0} /\ 1 <= n + 1 /\ Len(b) \in Int /\ Len(b) <= Len(b)
      BY <1>1
    <3>2. QED
      BY <1>1, <3>1, PiecesMeet
  <2>2. SubSeq(b, 1, Len(b)) = b
    BY WholePiece
  <2>3. QED
    BY <2>1, <2>2
<1>5. x = w \o u /\ v = t
  BY DEF Sent
<1> HIDE DEF u, t
<1>6. (w \o u) \o t = w \o (u \o t)
  <2>1. w \in Seq(S) /\ u \in Seq(S) /\ t \in Seq(S)
    BY <1>2, <1>3
  <2>2. QED
    BY <2>1, ConcatAssociative
<1>7. w \o u \in Seq(S) /\ Len(w \o u) = Len(w) + Len(u)
  BY <1>2, ConcatProperties
<1>8. Len(u) = n
  BY <1>1, <1>2
<1>9. x \in Seq(S) /\ v \in Seq(S) /\ Len(x) = Len(w) + n
  BY <1>3, <1>5, <1>7, <1>8
<1>10. x \o v = w \o b
  BY <1>4, <1>5, <1>6
<1>11. QED
  BY <1>9, <1>10 DEF SameBytes
-----------------------------------------------------------------------------
(* What the steps do to the lines.                                         *)

LEMMA LinesAre ==
    LinesInOrder <=>
        /\ AreLines(sent, Done, handled)
        /\ buffer = SubSeq(sent, Done + 1, taken)
        /\ Done = 0 \/ sent[Done] = LF
        /\ pc # "extract" => ~Contains(buffer, LF)
BY DEF LinesInOrder, AreLines, Numbered, LineAt, Start, EndsBefore, Ends, Terminators,
       LineEndingAt

LEMMA LinesAreNext ==
    LinesInOrder' <=>
        /\ AreLines(sent', Done', handled')
        /\ buffer' = SubSeq(sent', Done' + 1, taken')
        /\ Done' = 0 \/ sent'[Done'] = LF
        /\ pc' # "extract" => ~Contains(buffer', LF)
BY DEF LinesInOrder, AreLines, Numbered, LineAt, Start, EndsBefore, Ends, Terminators,
       LineEndingAt

\* What the lines rest on in every state.
LinesKept ==
    /\ sent \in Seq(Bytes) /\ buffer \in Seq(Bytes) /\ handled \in Seq(Seq(Bytes))
    /\ taken \in 0 .. Len(sent) /\ Done \in Nat
    /\ LinesInOrder

\* A step that takes and cuts nothing.
LEMMA InputKeepsLines ==
    ASSUME LinesKept, UNCHANGED input, pc' # "extract" => pc # "extract" \/ ~Contains(buffer, LF)
    PROVE  LinesKept'
<1>1. UNCHANGED <<sent, taken, buffer, handled, Done>>
  BY DEF input, Done
<1>2. LinesInOrder'
  BY <1>1, LinesAre, LinesAreNext DEF LinesKept
<1>3. QED
  BY <1>1, <1>2 DEF LinesKept

\* The peer writes a byte.
LEMMA WritingKeepsLines ==
    ASSUME LinesKept, NEW b \in Bytes, sent' = Append(sent, b),
           UNCHANGED <<taken, buffer, handled, pc>>
    PROVE  LinesKept'
<1>1. /\ sent \in Seq(Bytes) /\ taken \in 0 .. Len(sent) /\ Len(buffer) \in Nat
      /\ Done \in 0 .. Len(sent) /\ Done' = Done /\ Len(sent) \in Nat /\ taken \in Int
  BY DEF LinesKept, Done
<1>2. /\ sent' \in Seq(Bytes) /\ Len(sent') = Len(sent) + 1
      /\ \A i \in 1 .. Len(sent) : sent'[i] = sent[i]
  BY <1>1, AppendProperties
<1>3. AreLines(sent, Done, handled) /\ buffer = SubSeq(sent, Done + 1, taken)
  BY LinesAre DEF LinesKept
<1>4. AreLines(sent', Done, handled)
  BY <1>1, <1>3, LinesOfLonger
<1>5. SubSeq(sent', Done + 1, taken) = SubSeq(sent, Done + 1, taken)
  <2>1. Done + 1 \in Nat \ {0} /\ taken <= Len(sent)
    BY <1>1
  <2>2. QED
    BY <1>1, <2>1, PieceOfAppend
<1>6. Done = 0 \/ sent'[Done] = LF
  BY <1>1, <1>2, LinesAre DEF LinesKept
<1>7. LinesInOrder'
  BY <1>1, <1>3, <1>4, <1>5, <1>6, LinesAre, LinesAreNext DEF LinesKept
<1>8. taken' \in 0 .. Len(sent')
  BY <1>1, <1>2
<1>9. QED
  BY <1>1, <1>2, <1>7, <1>8 DEF LinesKept

\* recv takes m bytes.
LEMMA TakingKeepsLines ==
    ASSUME LinesKept, NEW m \in 1 .. Len(Inbox), taken' = taken + m,
           buffer' = buffer \o SubSeq(Inbox, 1, m), pc' = "extract",
           UNCHANGED <<sent, handled>>
    PROVE  LinesKept'
<1>1. /\ sent \in Seq(Bytes) /\ buffer \in Seq(Bytes) /\ taken \in 0 .. Len(sent)
      /\ Len(buffer) \in Nat /\ Done \in Nat /\ Done = taken - Len(buffer)
      /\ Len(sent) \in Nat /\ taken \in Nat
  BY DEF LinesKept, Done
<1>2. Len(Inbox) = Len(sent) - taken
  <2>1. taken + 1 \in Nat \ {0} /\ Len(sent) \in Int /\ Len(sent) <= Len(sent)
    BY <1>1
  <2>2. Len(Inbox) = IF taken + 1 <= Len(sent) THEN Len(sent) - (taken + 1) + 1 ELSE 0
    BY <1>1, <2>1, Piece DEF Inbox
  <2>3. QED
    BY <1>1, <2>2
<1>3. m \in Nat \ {0} /\ taken + m <= Len(sent)
  BY <1>1, <1>2
<1>4. SubSeq(Inbox, 1, m) = SubSeq(sent, taken + 1, taken + m)
  <2>1. /\ Len(sent) \in Int /\ taken <= Len(sent) /\ Len(sent) <= Len(sent)
        /\ 1 \in Nat \ {0} /\ m \in Int /\ m <= Len(sent) - taken
    BY <1>1, <1>3
  <2>2. QED
    BY <1>1, <2>1, PieceOfPiece DEF Inbox
<1>5. buffer = SubSeq(sent, Done + 1, taken)
  BY LinesAre DEF LinesKept
<1>6. buffer' = SubSeq(sent, Done + 1, taken + m)
  <2>1. /\ Done + 1 \in Nat \ {0} /\ taken \in Int /\ taken + m \in Int
        /\ Done + 1 <= taken + 1 /\ taken <= taken + m /\ taken + m <= Len(sent)
    BY <1>1, <1>3
  <2>2. SubSeq(sent, Done + 1, taken) \o SubSeq(sent, taken + 1, taken + m)
          = SubSeq(sent, Done + 1, taken + m)
    BY <1>1, <2>1, PiecesMeet
  <2>3. QED
    BY <1>4, <1>5, <2>2
<1>7. buffer' \in Seq(Bytes) /\ Len(buffer') = Len(buffer) + m
  <2>1. /\ Done + 1 \in Nat \ {0} /\ taken + m \in Int /\ Done + 1 <= taken + m
    BY <1>1, <1>3
  <2>2. /\ SubSeq(sent, Done + 1, taken + m) \in Seq(Bytes)
        /\ Len(SubSeq(sent, Done + 1, taken + m)) = (taken + m) - (Done + 1) + 1
    BY <1>1, <1>3, <2>1, Piece
  <2>3. (taken + m) - (Done + 1) + 1 = Len(buffer) + m
    BY <1>1, <1>3
  <2>4. QED
    BY <1>6, <2>2, <2>3
<1>8. Done' = Done
  BY <1>1, <1>3, <1>7 DEF Done
<1>9. LinesInOrder'
  BY <1>6, <1>8, LinesAre, LinesAreNext DEF LinesKept
<1>10. taken' \in 0 .. Len(sent')
  BY <1>1, <1>3
<1>11. QED
  BY <1>1, <1>7, <1>8, <1>9, <1>10 DEF LinesKept

\* The first line of the buffer is cut off.
LEMMA CuttingKeepsLines ==
    ASSUME LinesKept, NEW pos \in 1 .. Len(buffer), buffer[pos] = LF,
           \A i \in 1 .. pos - 1 : buffer[i] # LF,
           buffer' = SubSeq(buffer, pos + 1, Len(buffer)),
           handled' = Append(handled, WithoutCR(SubSeq(buffer, 1, pos - 1))),
           pc' = "extract",
           UNCHANGED <<sent, taken>>
    PROVE  LinesKept'
<1>1. /\ sent \in Seq(Bytes) /\ buffer \in Seq(Bytes) /\ handled \in Seq(Seq(Bytes))
      /\ taken \in 0 .. Len(sent) /\ Len(sent) \in Nat /\ taken \in Nat
      /\ Len(buffer) \in Nat /\ Done \in Nat /\ Done = taken - Len(buffer)
  BY DEF LinesKept, Done
<1>2. /\ AreLines(sent, Done, handled) /\ buffer = SubSeq(sent, Done + 1, taken)
      /\ Done = 0 \/ sent[Done] = LF
  BY LinesAre DEF LinesKept
<1>3. pos \in Nat \ {0} /\ pos \in Int /\ Done + pos <= taken /\ Done + pos <= Len(sent)
  BY <1>1
<1>4. \A i \in 1 .. Len(buffer) : buffer[i] = sent[Done + i]
  <2>1. Done + 1 \in Nat \ {0} /\ taken \in Int /\ taken <= Len(sent)
    BY <1>1
  <2>2. \A i \in 1 .. taken - (Done + 1) + 1 :
          SubSeq(sent, Done + 1, taken)[i] = sent[i + (Done + 1) - 1]
    BY <1>1, <2>1, Piece
  <2>3. ASSUME NEW i \in 1 .. Len(buffer)
        PROVE  i \in 1 .. taken - (Done + 1) + 1 /\ i + (Done + 1) - 1 = Done + i
    BY <1>1
  <2>4. QED
    BY <1>2, <2>2, <2>3
<1>5. sent[Done + pos] = LF /\ \A i \in 1 .. pos - 1 : sent[Done + i] # LF
  <2>1. sent[Done + pos] = LF
    BY <1>4
  <2>2. ASSUME NEW i \in 1 .. pos - 1 PROVE sent[Done + i] # LF
    <3>1. i \in 1 .. Len(buffer)
      BY <1>1
    <3>2. QED
      BY <1>4, <3>1
  <2>3. QED
    BY <2>1, <2>2
<1> DEFINE line == WithoutCR(SubSeq(buffer, 1, pos - 1))
<1>6. /\ SubSeq(buffer, 1, pos - 1) = SubSeq(sent, Done + 1, Done + pos - 1)
      /\ line \in Seq(Bytes)
  <2>1. /\ taken \in Int /\ Done <= taken /\ taken <= Len(sent)
        /\ 1 \in Nat \ {0} /\ pos - 1 \in Int /\ pos - 1 <= taken - Done
        /\ Done + (pos - 1) = Done + pos - 1 /\ pos - 1 <= Len(buffer)
    BY <1>1, <1>3
  <2>2. SubSeq(SubSeq(sent, Done + 1, taken), 1, pos - 1)
          = SubSeq(sent, Done + 1, Done + (pos - 1))
    BY <1>1, <2>1, PieceOfPiece
  <2>3. SubSeq(buffer, 1, pos - 1) \in Seq(Bytes)
    BY <1>1, <2>1, Piece
  <2>4. QED
    BY <1>2, <2>1, <2>2, <2>3, WithoutCRTyped
<1>7. line = WithoutCR(SubSeq(sent, Done + 1, Done + pos - 1))
  BY <1>6
<1>8. handled' = Append(handled, line) /\ handled' \in Seq(Seq(Bytes))
  BY <1>1, <1>6, AppendProperties
<1> HIDE DEF line
<1>9. AreLines(sent, Done + pos, handled')
  BY <1>1, <1>2, <1>3, <1>5, <1>6, <1>7, <1>8, OneMoreLine
<1>10. /\ buffer' \in Seq(Bytes) /\ Len(buffer') = Len(buffer) - pos
       /\ buffer' = SubSeq(sent, Done + pos + 1, taken)
  <2>1. /\ pos + 1 \in Nat \ {0} /\ Len(buffer) \in Int /\ Len(buffer) <= Len(buffer)
        /\ taken \in Int /\ Done <= taken /\ taken <= Len(sent) /\ Len(buffer) <= taken - Done
        /\ Done + (pos + 1) = Done + pos + 1 /\ Done + Len(buffer) = taken
    BY <1>1, <1>3
  <2>2. /\ buffer' \in Seq(Bytes)
        /\ Len(buffer') = IF pos + 1 <= Len(buffer) THEN Len(buffer) - (pos + 1) + 1 ELSE 0
    BY <1>1, <2>1, Piece
  <2>3. Len(buffer') = Len(buffer) - pos
    BY <1>1, <1>3, <2>2
  <2>4. SubSeq(SubSeq(sent, Done + 1, taken), pos + 1, Len(buffer))
          = SubSeq(sent, Done + (pos + 1), Done + Len(buffer))
    BY <1>1, <2>1, PieceOfPiece
  <2>5. QED
    BY <1>2, <2>1, <2>2, <2>3, <2>4
<1>11. Done' = Done + pos
  <2>1. Done' = taken - Len(buffer')
    BY DEF Done
  <2>2. Len(buffer') = Len(buffer) - pos
    BY <1>10
  <2>3. taken \in Int /\ Len(buffer) \in Int /\ pos \in Int /\ Done = taken - Len(buffer)
    BY <1>1, <1>3
  <2>4. taken - (Len(buffer) - pos) = (taken - Len(buffer)) + pos
    BY <2>3
  <2>5. QED
    BY <2>1, <2>2, <2>3, <2>4, Zenon
<1>12. LinesInOrder'
  BY <1>5, <1>9, <1>10, <1>11, LinesAreNext
<1>13. QED
  BY <1>1, <1>3, <1>8, <1>10, <1>11, <1>12 DEF LinesKept
-----------------------------------------------------------------------------
(* What they do to the replies.                                            *)

RepliesKept ==
    /\ queued \in Seq(Message) /\ send_buffer \in Seq(Message)
    /\ wire \in Seq(Message) /\ received \in Seq(Message)
    /\ Len(wire) <= MaxWire /\ pollout \in BOOLEAN
    /\ RepliesInOrder

\* While the connection lasts the prefix follows from the equation.
LEMMA ConnectedReplies ==
    ASSUME queued' \in Seq(Message), send_buffer' \in Seq(Message),
           wire' \in Seq(Message), received' \in Seq(Message),
           Len(wire') <= MaxWire, pollout' \in BOOLEAN,
           Connected', Said' \o send_buffer' = queued'
    PROVE  RepliesKept'
<1>1. Said' \in Seq(Message)
  BY ConcatProperties DEF Said
<1>2. IsPrefix(Said', Said' \o send_buffer')
  BY <1>1, FrontOfConcat
<1>3. pc' # "down"
  BY DEF Connected
<1>4. RepliesInOrder'
  BY <1>2, <1>3 DEF RepliesInOrder
<1>5. QED
  BY <1>4 DEF RepliesKept

\* A step that queues and sends nothing.
LEMMA OutputKeepsReplies ==
    ASSUME RepliesKept, UNCHANGED <<output, wire, received>>,
           pc' = pc \/ (Connected /\ Connected')
    PROVE  RepliesKept'
<1>1. UNCHANGED <<queued, send_buffer, pollout, wire, received, Said>>
  BY DEF output, Said
<1>2. CASE pc' = pc
  <2>1. RepliesInOrder'
    BY <1>1, <1>2 DEF RepliesKept, RepliesInOrder, Connected
  <2>2. QED
    BY <1>1, <2>1 DEF RepliesKept
<1>3. CASE Connected /\ Connected'
  <2>1. Said' \o send_buffer' = queued'
    BY <1>1, <1>3 DEF RepliesKept, RepliesInOrder
  <2>2. QED
    BY <1>1, <1>3, <2>1, ConnectedReplies DEF RepliesKept
<1>4. QED
  BY <1>2, <1>3

LEMMA QueueingKeepsReplies ==
    ASSUME RepliesKept, Connected, Connected', NEW bytes \in Seq(Message),
           sending_queue(bytes), UNCHANGED <<wire, received>>
    PROVE  RepliesKept'
<1>1. /\ queued \in Seq(Message) /\ send_buffer \in Seq(Message)
      /\ Said \in Seq(Message) /\ Said \o send_buffer = queued /\ Said' = Said
  BY ConcatProperties DEF RepliesKept, RepliesInOrder, Said
<1>2. /\ queued' = queued \o bytes /\ send_buffer' = send_buffer \o bytes
      /\ pollout' \in BOOLEAN
  BY DEF sending_queue, RepliesKept
<1>3. queued' \in Seq(Message) /\ send_buffer' \in Seq(Message)
  BY <1>1, <1>2, ConcatProperties
<1>4. Said \o (send_buffer \o bytes) = queued \o bytes
  <2>1. (Said \o send_buffer) \o bytes = Said \o (send_buffer \o bytes)
    <3>1. Said \in Seq(Message) /\ send_buffer \in Seq(Message)
      BY <1>1
    <3>2. QED
      BY <3>1, ConcatAssociative
  <2>2. Said \o send_buffer = queued
    BY <1>1
  <2>3. QED
    BY <2>1, <2>2, Zenon
<1>5. QED
  BY <1>1, <1>2, <1>3, <1>4, ConnectedReplies DEF RepliesKept

LEMMA EndKeepsReplies ==
    ASSUME RepliesKept, Connected, disconnect
    PROVE  RepliesKept'
<1>1. /\ pc' = "gone" /\ send_buffer' = <<>> /\ pollout' = FALSE
      /\ UNCHANGED <<queued, wire, received, Said>>
  BY DEF disconnect, Said
<1>2. IsPrefix(Said, queued)
  BY DEF RepliesKept, RepliesInOrder, Connected
<1>3. ~Connected' /\ pc' # "down"
  BY <1>1 DEF Connected
<1>4. RepliesInOrder'
  BY <1>1, <1>2, <1>3 DEF RepliesInOrder
<1>5. send_buffer' \in Seq(Message) /\ pollout' \in BOOLEAN
  <2>1. <<>> \in Seq(Message) /\ FALSE \in BOOLEAN
    OBVIOUS
  <2>2. QED
    BY <1>1, <2>1, Zenon
<1>6. /\ queued' \in Seq(Message) /\ wire' \in Seq(Message) /\ received' \in Seq(Message)
      /\ Len(wire') <= MaxWire
  BY <1>1 DEF RepliesKept
<1>7. QED
  BY <1>4, <1>5, <1>6 DEF RepliesKept

LEMMA ReadingKeepsReplies ==
    ASSUME RepliesKept, peerReads
    PROVE  RepliesKept'
<1>1. /\ wire # <<>> /\ received' = Append(received, Head(wire)) /\ wire' = Tail(wire)
      /\ UNCHANGED <<pc, output>>
      /\ wire \in Seq(Message) /\ received \in Seq(Message) /\ Len(wire) <= MaxWire
  BY DEF peerReads, RepliesKept
<1>2. /\ Append(received, Head(wire)) \in Seq(Message) /\ Tail(wire) \in Seq(Message)
      /\ Len(Tail(wire)) = Len(wire) - 1
      /\ Append(received, Head(wire)) \o Tail(wire) = received \o wire
  BY <1>1, ReadingMoves
<1>3. Said' = Said /\ received' \in Seq(Message) /\ wire' \in Seq(Message)
  BY <1>1, <1>2 DEF Said
<1>4. Len(wire') <= MaxWire
  <2>1. Len(wire) \in Nat /\ MaxWire \in Nat
    BY <1>1, StreamAssumption
  <2>2. QED
    BY <1>1, <1>2, <2>1
<1>5. UNCHANGED <<queued, send_buffer, pollout>>
  BY <1>1 DEF output
<1>6. RepliesInOrder'
  BY <1>1, <1>3, <1>5 DEF RepliesKept, RepliesInOrder, Connected
<1>7. QED
  BY <1>3, <1>4, <1>5, <1>6 DEF RepliesKept

LEMMA SendingKeepsReplies ==
    ASSUME RepliesKept, Connected, handle_send
    PROVE  RepliesKept'
<1>1. pollout' \in BOOLEAN /\ pc' = "poll" /\ UNCHANGED <<queued, received>>
  BY DEF handle_send, keepsPollOut
<1>2. /\ queued \in Seq(Message) /\ send_buffer \in Seq(Message)
      /\ wire \in Seq(Message) /\ received \in Seq(Message)
      /\ Len(wire) \in Nat /\ Len(send_buffer) \in Nat /\ MaxWire \in Nat
      /\ Len(wire) <= MaxWire
  BY StreamAssumption DEF RepliesKept
<1>3. PICK n \in 0 .. Len(send_buffer) :
          Len(wire) + n <= MaxWire /\ Sent(wire, send_buffer, n, wire', send_buffer')
  <2> DEFINE k == Shorter(Len(send_buffer), MaxWire - Len(wire))
  <2>1. k \in 0 .. Len(send_buffer) /\ Len(wire) + k <= MaxWire
    BY <1>2 DEF Shorter
  <2>2. Sent(wire, send_buffer, k, wire', send_buffer')
    BY DEF handle_send, Unsent, Sent
  <2> HIDE DEF k
  <2>3. QED
    BY <2>1, <2>2
<1>4. /\ wire' \in Seq(Message) /\ send_buffer' \in Seq(Message)
      /\ Len(wire') = Len(wire) + n
      /\ SameBytes(wire', send_buffer', wire, send_buffer)
  BY <1>2, <1>3, SendingMoves
<1>5. Said' \o send_buffer' = queued'
  <2>1. (received \o wire') \o send_buffer' = received \o (wire' \o send_buffer')
    <3>1. /\ received \in Seq(Message) /\ wire' \in Seq(Message)
          /\ send_buffer' \in Seq(Message)
      BY <1>2, <1>4
    <3>2. QED
      BY <3>1, ConcatAssociative
  <2>2. (received \o wire) \o send_buffer = received \o (wire \o send_buffer)
    BY <1>2, ConcatAssociative
  <2>3. (received \o wire) \o send_buffer = queued
    BY DEF RepliesKept, RepliesInOrder, Said
  <2>4. QED
    BY <1>1, <1>4, <2>1, <2>2, <2>3 DEF Said, SameBytes
<1>6. Connected' /\ Len(wire') <= MaxWire
  BY <1>1, <1>3, <1>4 DEF Connected
<1>7. QED
  BY <1>1, <1>2, <1>4, <1>5, <1>6, ConnectedReplies

\* The farewell goes past what is still to be sent.
LEMMA FarewellKeepsReplies ==
    ASSUME RepliesKept, shutdown
    PROVE  RepliesKept'
<1>1. /\ Connected /\ pc' = "down" /\ send_buffer' = <<>> /\ pollout' = FALSE
      /\ UNCHANGED <<queued, received>> /\ send_buffer' \in Seq(Message)
  BY DEF shutdown
<1>2. IsPrefix(Said, queued)
  BY <1>1 DEF RepliesKept, RepliesInOrder, Connected
<1>3. /\ queued \in Seq(Message) /\ wire \in Seq(Message) /\ received \in Seq(Message)
      /\ Len(wire) \in Nat /\ MaxWire \in Nat /\ Len(wire) <= MaxWire
  BY StreamAssumption DEF RepliesKept
<1>4. Farewell \in Seq(Message) /\ Len(Farewell) = 2
  BY MessageTyped DEF Farewell
<1>5. PICK k \in 0 .. Len(Farewell) :
          /\ wire' = wire \o SubSeq(Farewell, 1, k)
          /\ Len(wire) + k <= MaxWire
  <2>1. CASE wire' = wire
    <3>1. 0 \in 0 .. Len(Farewell) /\ Len(wire) + 0 <= MaxWire
      BY <1>3, <1>4
    <3>2. SubSeq(Farewell, 1, 0) = <<>> /\ wire \o <<>> = wire
      BY <1>3, <1>4, WholePiece
    <3>3. QED
      BY <2>1, <3>1, <3>2
  <2>2. CASE wire' = wire \o SubSeq(Farewell, 1, Shorter(Len(Farewell), MaxWire - Len(wire)))
    <3>1. Shorter(2, MaxWire - Len(wire)) \in 0 .. 2
      BY <1>3 DEF Shorter
    <3>2. Len(wire) + Shorter(2, MaxWire - Len(wire)) <= MaxWire
      BY <1>3 DEF Shorter
    <3>3. QED
      BY <1>4, <2>2, <3>1, <3>2
  <2>3. QED
    BY <2>1, <2>2 DEF shutdown
<1> DEFINE last == SubSeq(Farewell, 1, k)
<1>6. last \in Seq(Message) /\ Len(last) = k
  <2>1. k \in Int /\ k <= Len(Farewell) /\ 1 \in Nat \ {0}
    BY <1>4
  <2> HIDE DEF last
  <2>2. /\ SubSeq(Farewell, 1, k) \in Seq(Message)
        /\ Len(SubSeq(Farewell, 1, k)) = IF 1 <= k THEN k - 1 + 1 ELSE 0
    BY <1>4, <2>1, Piece, SMTT(30)
  <2>3. Len(SubSeq(Farewell, 1, k)) = k
    BY <1>4, <2>2
  <2>4. QED
    BY <2>2, <2>3 DEF last
<1>7. wire' = wire \o last
  BY <1>5
<1> HIDE DEF last
<1>8. wire' \in Seq(Message) /\ Len(wire') <= MaxWire
  BY <1>3, <1>5, <1>6, <1>7, ConcatProperties
<1>9. Said \in Seq(Message) /\ Len(Said) \in 0 .. Len(queued) /\ Said = SubSeq(queued, 1, Len(Said))
  <2>1. Said \in Seq(Message)
    BY <1>3, ConcatProperties DEF Said
  <2>2. Len(Said) <= Len(queued) /\ SubSeq(Said, 1, Len(Said)) = SubSeq(queued, 1, Len(Said))
    BY <1>2 DEF IsPrefix
  <2>3. SubSeq(Said, 1, Len(Said)) = Said /\ Len(Said) \in Nat
    BY <2>1, WholePiece
  <2>4. Len(queued) \in Nat
    BY <1>3
  <2>5. QED
    BY <2>1, <2>2, <2>3, <2>4
<1>10. Said' = SubSeq(queued, 1, Len(Said)) \o SubSeq(Farewell, 1, k)
  <2>1. received \o (wire \o last) = (received \o wire) \o last
    <3>1. received \in Seq(Message) /\ wire \in Seq(Message) /\ last \in Seq(Message)
      BY <1>3, <1>6
    <3>2. QED
      BY <3>1, ConcatAssociative
  <2>2. Said' = Said \o last
    BY <1>1, <1>7, <2>1, Zenon DEF Said
  <2>3. QED
    BY <1>9, <2>2, Zenon DEF last
<1>11. \E i \in 0 .. Len(queued'), j \in 0 .. Len(Farewell) :
         Said' = SubSeq(queued', 1, i) \o SubSeq(Farewell, 1, j)
  BY <1>1, <1>9, <1>10
<1>12. RepliesInOrder'
  BY <1>1, <1>11 DEF RepliesInOrder, Connected
<1>13. QED
  BY <1>1, <1>3, <1>8, <1>12 DEF RepliesKept
-----------------------------------------------------------------------------
(* The invariant.                                                          *)

Control ==
    /\ pc \in {"poll", "in", "extract", "events", "gone", "down"}
    /\ revents \subseteq {"IN", "OUT", "HUP"}
    /\ peer \in {"open", "closed", "reset"}
    /\ HangUpIsReset
    /\ NobodyCutOff

LEMMA Parts == StreamInv <=> Control /\ LinesKept /\ RepliesKept
BY DEF StreamInv, TypeOK, Control, LinesKept, RepliesKept

LEMMA PartsNext == StreamInv' <=> Control' /\ LinesKept' /\ RepliesKept'
BY DEF StreamInv, TypeOK, Control, LinesKept, RepliesKept

LEMMA StreamInvInit == Init => StreamInv
<1> SUFFICES ASSUME Init PROVE StreamInv
  OBVIOUS
<1>1. /\ pc = "poll" /\ revents = {} /\ peer = "open"
      /\ sent = <<>> /\ taken = 0 /\ buffer = <<>> /\ handled = <<>>
      /\ queued = <<>> /\ send_buffer = <<>> /\ pollout = FALSE
      /\ wire = <<>> /\ received = <<>>
  BY DEF Init
<1>2. Control
  BY <1>1 DEF Control, HangUpIsReset, NobodyCutOff, LinesWritten
<1>3. /\ sent \in Seq(Bytes) /\ buffer \in Seq(Bytes) /\ handled \in Seq(Seq(Bytes))
      /\ taken \in 0 .. Len(sent) /\ Done = 0
  <2>1. <<>> \in Seq(Bytes) /\ <<>> \in Seq(Seq(Bytes)) /\ Len(<<>>) = 0
    OBVIOUS
  <2>2. Done = 0
    <3>1. Done = 0 - 0
      BY <1>1, <2>1, Zenon DEF Done
    <3>2. QED
      BY <3>1
  <2>3. taken \in 0 .. Len(sent)
    BY <1>1, <2>1
  <2>4. QED
    BY <1>1, <2>1, <2>2, <2>3, Zenon
<1>4. AreLines(sent, 0, handled)
  <2>1. Ends(sent, 0) = {}
    BY DEF Ends
  <2>2. Len(handled) = 0
    BY <1>1
  <2>3. QED
    BY <2>1, <2>2, FS_EmptySet DEF AreLines
<1>5. SubSeq(sent, 1, 0) = <<>>
  BY <1>3, WholePiece
<1>6. ~Contains(buffer, LF)
  BY <1>1 DEF Contains
<1>7. LinesInOrder
  BY <1>1, <1>3, <1>4, <1>5, <1>6, LinesAre
<1>8. LinesKept
  BY <1>3, <1>7 DEF LinesKept
<1>9. /\ queued \in Seq(Message) /\ send_buffer \in Seq(Message)
      /\ wire \in Seq(Message) /\ received \in Seq(Message)
      /\ Len(wire) <= MaxWire /\ pollout \in BOOLEAN
  <2>1. <<>> \in Seq(Message) /\ FALSE \in BOOLEAN
    OBVIOUS
  <2>2. Len(wire) = 0 /\ MaxWire \in Nat
    BY <1>1, StreamAssumption
  <2>3. Len(wire) <= MaxWire
    BY <2>2
  <2>4. QED
    BY <1>1, <2>1, <2>3, Zenon
<1>10. RepliesInOrder
  <2>1. Said = <<>> /\ Said \o send_buffer = queued
    BY <1>1 DEF Said
  <2>2. IsPrefix(Said, queued)
    <3>1. IsPrefix(queued, queued \o queued) /\ queued \o queued = queued /\ Said = queued
      BY <1>1, <1>9, <2>1, FrontOfConcat
    <3>2. QED
      BY <3>1, Zenon
  <2>3. QED
    BY <1>1, <2>1, <2>2 DEF RepliesInOrder
<1>11. QED
  BY <1>2, <1>8, <1>9, <1>10, Parts DEF RepliesKept
-----------------------------------------------------------------------------
(* One lemma per action.                                                   *)

LEMMA PollSafe ==
    ASSUME StreamInv, poll
    PROVE  StreamInv'
<1>1. /\ pc = "poll" /\ pc' = "in" /\ revents' = Ready
      /\ UNCHANGED <<peer, input, output, wire, received>>
  BY DEF poll
<1>2. Control /\ LinesKept /\ RepliesKept
  BY Parts
<1>3. Control'
  BY <1>1, <1>2 DEF Control, HangUpIsReset, NobodyCutOff, Ready
<1>4. LinesKept'
  <2>1. pc' # "extract" => ~Contains(buffer, LF)
    BY <1>1, <1>2, LinesAre DEF LinesKept
  <2>2. QED
    BY <1>1, <1>2, <2>1, InputKeepsLines
<1>5. RepliesKept'
  BY <1>1, <1>2, OutputKeepsReplies DEF Connected
<1>6. QED
  BY <1>3, <1>4, <1>5, PartsNext

\* The loop goes on without a change.
LEMMA MovingOn ==
    ASSUME StreamInv, Connected, pc = "extract" => ~Contains(buffer, LF),
           pc' \in {"poll", "events"},
           UNCHANGED <<revents, peer, input, output, wire, received>>
    PROVE  StreamInv'
<1>1. Control /\ LinesKept /\ RepliesKept
  BY Parts
<1>2. Control'
  BY <1>1 DEF Control, HangUpIsReset, NobodyCutOff, LinesWritten, input
<1>3. LinesKept'
  <2>1. ~Contains(buffer, LF)
    BY <1>1, LinesAre DEF LinesKept
  <2>2. QED
    BY <1>1, <2>1, InputKeepsLines
<1>4. RepliesKept'
  BY <1>1, OutputKeepsReplies DEF Connected
<1>5. QED
  BY <1>2, <1>3, <1>4, PartsNext

\* When all is taken and no line is left in the buffer, all lines are handled.
LEMMA AllTakenAllHandled ==
    ASSUME LinesKept, pc # "extract", taken = Len(sent)
    PROVE  Len(handled) = Cardinality(LinesWritten)
<1>1. /\ sent \in Seq(Bytes) /\ Len(sent) \in Nat /\ Len(buffer) \in Nat
      /\ Done \in Nat /\ Done = taken - Len(buffer)
      /\ DOMAIN sent = 1 .. Len(sent)
  BY DEF LinesKept, Done
<1>2. /\ Len(handled) = Cardinality(Ends(sent, Done))
      /\ buffer = SubSeq(sent, Done + 1, taken) /\ ~Contains(buffer, LF)
  BY LinesAre DEF LinesKept, AreLines
<1>3. ASSUME NEW p \in Done + 1 .. Len(sent) PROVE sent[p] # LF
  <2>1. /\ Done + 1 \in Nat \ {0} /\ taken \in Int /\ taken <= Len(sent)
        /\ p - Done \in 1 .. taken - (Done + 1) + 1
        /\ (p - Done) + (Done + 1) - 1 = p /\ p - Done \in 1 .. Len(buffer)
    BY <1>1
  <2>2. SubSeq(sent, Done + 1, taken)[p - Done] = sent[(p - Done) + (Done + 1) - 1]
    BY <1>1, <2>1, Piece
  <2>3. buffer[p - Done] # LF
    BY <1>2, <2>1 DEF Contains
  <2>4. QED
    BY <1>2, <2>1, <2>2, <2>3
<1>4. LinesWritten = Ends(sent, Done)
  <2>1. Done <= Len(sent)
    BY <1>1
  <2>2. ASSUME NEW p \in LinesWritten PROVE p \in Ends(sent, Done)
    BY <1>1, <1>3, <2>1 DEF LinesWritten, Ends
  <2>3. Ends(sent, Done) \subseteq LinesWritten
    BY <1>1, <2>1 DEF LinesWritten, Ends
  <2>4. QED
    BY <2>2, <2>3
<1>5. QED
  BY <1>2, <1>4

LEMMA DisconnectSafe ==
    ASSUME StreamInv, pc \in {"in", "events"}, disconnect,
           peer = "reset" \/ (peer = "closed" /\ taken = Len(sent))
    PROVE  StreamInv'
<1>1. /\ pc' = "gone" /\ UNCHANGED <<revents, peer, input>>
  BY DEF disconnect
<1>2. Control /\ LinesKept /\ RepliesKept
  BY Parts
<1>3. Control'
  <2>1. UNCHANGED <<sent, handled>>
    BY <1>1 DEF input
  <2>2. NobodyCutOff'
    <3>1. CASE peer = "reset"
      BY <1>1, <3>1 DEF NobodyCutOff
    <3>2. CASE peer = "closed" /\ taken = Len(sent)
      <4>1. Len(handled) = Cardinality(LinesWritten)
        BY <1>2, <3>2, AllTakenAllHandled
      <4>2. LinesWritten' = LinesWritten
        BY <2>1 DEF LinesWritten
      <4>3. QED
        BY <1>1, <2>1, <3>2, <4>1, <4>2, Zenon DEF NobodyCutOff
    <3>3. QED
      BY <3>1, <3>2
  <2>3. QED
    BY <1>1, <1>2, <2>2 DEF Control, HangUpIsReset
<1>4. LinesKept'
  <2>1. pc' # "extract"  /\ ~Contains(buffer, LF)
    BY <1>1, <1>2, LinesAre DEF LinesKept
  <2>2. QED
    BY <1>1, <1>2, <2>1, InputKeepsLines
<1>5. Connected
  BY DEF Connected
<1>6. RepliesKept'
  BY <1>2, <1>5, EndKeepsReplies
<1>7. QED
  BY <1>3, <1>4, <1>6, PartsNext

LEMMA ReceivingSafe ==
    ASSUME StreamInv, pc = "in", NEW m \in 1 .. Len(Inbox), recv(m)
    PROVE  StreamInv'
<1>1. /\ taken' = taken + m /\ buffer' = buffer \o SubSeq(Inbox, 1, m)
      /\ pc' = "extract" /\ UNCHANGED <<revents, peer, sent, handled, output, wire, received>>
  BY DEF recv
<1>2. Control /\ LinesKept /\ RepliesKept
  BY Parts
<1>3. Control'
  BY <1>1, <1>2 DEF Control, HangUpIsReset, NobodyCutOff, LinesWritten
<1>4. LinesKept'
  BY <1>1, <1>2, TakingKeepsLines
<1>5. RepliesKept'
  BY <1>1, <1>2, OutputKeepsReplies DEF Connected
<1>6. QED
  BY <1>3, <1>4, <1>5, PartsNext

LEMMA ExtractingSafe ==
    ASSUME StreamInv, extract_msg
    PROVE  StreamInv'
<1> DEFINE pos == FirstAt(buffer, LF)
           line == WithoutCR(SubSeq(buffer, 1, pos - 1))
<1>1. /\ pc = "extract" /\ pos # 0 /\ pc' = "extract"
      /\ buffer' = SubSeq(buffer, pos + 1, Len(buffer))
      /\ handled' = Append(handled, line)
      /\ sending_queue(Reply(line))
      /\ UNCHANGED <<revents, peer, sent, taken, wire, received>>
  BY DEF extract_msg, FirstAt, again
<1>2. Control /\ LinesKept /\ RepliesKept /\ TypeOK
  BY Parts DEF StreamInv
<1>3. Control'
  BY <1>1, <1>2 DEF Control, HangUpIsReset, NobodyCutOff, LinesWritten
<1>4. /\ pos \in 1 .. Len(buffer) /\ buffer[pos] = LF
      /\ \A i \in 1 .. pos - 1 : buffer[i] # LF
  <2>1. buffer \in Seq(Bytes)
    BY <1>2 DEF LinesKept
  <2>2. QED
    BY <1>1, <2>1, FirstAtIsFirst
<1> HIDE DEF pos
<1>5. LinesKept'
  BY <1>1, <1>2, <1>4, CuttingKeepsLines
<1>6. Reply(line) \in Seq(Message) /\ Connected /\ Connected'
  BY <1>1, <1>2, ReplyTyped DEF Connected
<1>7. RepliesKept'
  BY <1>1, <1>2, <1>6, QueueingKeepsReplies
<1>8. QED
  BY <1>3, <1>5, <1>7, PartsNext

LEMMA SendingSafe ==
    ASSUME StreamInv, pc = "events", handle_send
    PROVE  StreamInv'
<1>1. /\ pc' = "poll" /\ UNCHANGED <<revents, peer, input, queued, received>>
  BY DEF handle_send
<1>2. Control /\ LinesKept /\ RepliesKept
  BY Parts
<1>3. Control'
  BY <1>1, <1>2 DEF Control, HangUpIsReset, NobodyCutOff, LinesWritten, input
<1>4. LinesKept'
  BY <1>1, <1>2, InputKeepsLines
<1>5. Connected
  BY DEF Connected
<1>6. RepliesKept'
  BY <1>2, <1>5, SendingKeepsReplies
<1>7. QED
  BY <1>3, <1>4, <1>6, PartsNext

LEMMA RelayingSafe ==
    ASSUME StreamInv, relay
    PROVE  StreamInv'
<1>1. /\ Connected /\ Connected' /\ sending_queue(MessageBytes("relayed", Len(queued)))
      /\ UNCHANGED <<pc, revents, peer, input, wire, received>>
  BY DEF relay, Connected
<1>2. Control /\ LinesKept /\ RepliesKept
  BY Parts
<1>3. Control'
  BY <1>1, <1>2 DEF Control, HangUpIsReset, NobodyCutOff, LinesWritten, input
<1>4. LinesKept'
  BY <1>1, <1>2, InputKeepsLines
<1>5. MessageBytes("relayed", Len(queued)) \in Seq(Message)
  <2>1. Len(queued) \in Nat
    BY <1>2 DEF RepliesKept
  <2>2. QED
    BY <2>1, MessageTyped
<1>6. RepliesKept'
  BY <1>1, <1>2, <1>5, QueueingKeepsReplies
<1>7. QED
  BY <1>3, <1>4, <1>6, PartsNext

LEMMA ShutdownSafe ==
    ASSUME StreamInv, shutdown
    PROVE  StreamInv'
<1>1. /\ pc' = "down" /\ UNCHANGED <<revents, peer, input>>
  BY DEF shutdown
<1>2. Control /\ LinesKept /\ RepliesKept
  BY Parts
<1>3. Control'
  BY <1>1, <1>2 DEF Control, HangUpIsReset, NobodyCutOff, LinesWritten
<1>4. LinesKept'
  <2>1. pc = "poll" /\ ~Contains(buffer, LF)
    BY <1>2, LinesAre DEF LinesKept, shutdown
  <2>2. QED
    BY <1>1, <1>2, <2>1, InputKeepsLines
<1>5. RepliesKept'
  BY <1>2, FarewellKeepsReplies
<1>6. QED
  BY <1>3, <1>4, <1>5, PartsNext

LEMMA PeerWritesSafe ==
    ASSUME StreamInv, NEW b \in Bytes, peerWrites(b)
    PROVE  StreamInv'
<1>1. /\ Connected /\ sent' = Append(sent, b)
      /\ UNCHANGED <<pc, revents, peer, taken, buffer, handled, output, wire, received>>
  BY DEF peerWrites
<1>2. Control /\ LinesKept /\ RepliesKept
  BY Parts
<1>3. Control'
  BY <1>1, <1>2 DEF Control, HangUpIsReset, NobodyCutOff, Connected
<1>4. LinesKept'
  BY <1>1, <1>2, WritingKeepsLines
<1>5. RepliesKept'
  BY <1>1, <1>2, OutputKeepsReplies
<1>6. QED
  BY <1>3, <1>4, <1>5, PartsNext

LEMMA PeerReadsSafe ==
    ASSUME StreamInv, peerReads
    PROVE  StreamInv'
<1>1. UNCHANGED <<pc, revents, peer, input>>
  BY DEF peerReads
<1>2. Control /\ LinesKept /\ RepliesKept
  BY Parts
<1>3. Control'
  BY <1>1, <1>2 DEF Control, HangUpIsReset, NobodyCutOff, LinesWritten, input
<1>4. LinesKept'
  BY <1>1, <1>2, InputKeepsLines
<1>5. RepliesKept'
  BY <1>2, ReadingKeepsReplies
<1>6. QED
  BY <1>3, <1>4, <1>5, PartsNext

\* peerCloses and peerResets.
LEMMA PeerEndsSafe ==
    ASSUME StreamInv, Connected, peer' = "reset" \/ (peer = "open" /\ peer' = "closed"),
           UNCHANGED <<pc, revents, input, output, wire, received>>
    PROVE  StreamInv'
<1>1. Control /\ LinesKept /\ RepliesKept
  BY Parts
<1>2. Connected'
  BY DEF Connected
<1>3. Control'
  BY <1>1, <1>2 DEF Control, HangUpIsReset, NobodyCutOff, Connected
<1>4. LinesKept'
  BY <1>1, InputKeepsLines
<1>5. RepliesKept'
  BY <1>1, <1>2, OutputKeepsReplies
<1>6. QED
  BY <1>3, <1>4, <1>5, PartsNext

LEMMA StreamInvStep == StreamInv /\ [Next]_streamVars => StreamInv'
<1> SUFFICES ASSUME StreamInv, [Next]_streamVars PROVE StreamInv'
  OBVIOUS
<1>1. Control /\ LinesKept /\ RepliesKept
  BY Parts
<1>2. CASE poll
  BY <1>2, PollSafe
<1>3. CASE handle_user
  <2>1. pc = "in"
    BY <1>3 DEF handle_user
  <2>2. CASE inputEnds /\ disconnect
    <3>1. taken = Len(sent)
      <4>1. /\ sent \in Seq(Bytes) /\ taken \in 0 .. Len(sent) /\ Len(sent) \in Int
            /\ taken + 1 \in Nat \ {0} /\ Len(sent) <= Len(sent)
        BY <1>1 DEF LinesKept
      <4>2. Len(Inbox) = IF taken + 1 <= Len(sent) THEN Len(sent) - (taken + 1) + 1 ELSE 0
        BY <4>1, Piece DEF Inbox
      <4>3. Len(Inbox) = 0
        BY <2>2 DEF inputEnds
      <4>4. QED
        BY <4>1, <4>2, <4>3
    <3>2. QED
      BY <2>1, <2>2, <3>1, DisconnectSafe DEF inputEnds
  <2>3. CASE peer = "reset" /\ disconnect
    BY <2>1, <2>3, DisconnectSafe
  <2>4. CASE \E m \in 1 .. Shorter(MaxRecv, Len(Inbox)) : recv(m)
    <3>1. PICK m \in 1 .. Shorter(MaxRecv, Len(Inbox)) : recv(m)
      BY <2>4
    <3>2. m \in 1 .. Len(Inbox)
      <4>1. Len(Inbox) \in Nat /\ MaxRecv \in Nat
        <5>1. /\ sent \in Seq(Bytes) /\ Len(sent) \in Int /\ taken + 1 \in Nat \ {0}
              /\ Len(sent) <= Len(sent)
          BY <1>1 DEF LinesKept
        <5>2. Inbox \in Seq(Bytes)
          BY <5>1, Piece DEF Inbox
        <5>3. QED
          BY <5>2, StreamAssumption
      <4>2. QED
        BY <4>1 DEF Shorter
    <3>3. QED
      BY <2>1, <3>1, <3>2, ReceivingSafe
  <2>5. QED
    BY <1>3, <2>2, <2>3, <2>4 DEF handle_user
<1>4. CASE extract_msg
  BY <1>4, ExtractingSafe
<1>5. CASE noLine
  BY <1>5, MovingOn DEF noLine, Connected
<1>6. CASE noInput
  BY <1>6, MovingOn DEF noInput, Connected
<1>7. CASE otherEvents
  <2>1. pc = "events"
    BY <1>7 DEF otherEvents
  <2>2. CASE peer = "reset" /\ disconnect
    BY <2>1, <2>2, DisconnectSafe
  <2>3. CASE handle_send
    BY <2>1, <2>3, SendingSafe
  <2>4. CASE pc' = "poll" /\ UNCHANGED <<revents, peer, input, output, wire, received>>
    BY <2>1, <2>4, MovingOn DEF Connected
  <2>5. QED
    BY <1>1, <1>7, <2>2, <2>3, <2>4 DEF otherEvents, hungUp, HangUpIsReset, Control
<1>8. CASE relay
  BY <1>8, RelayingSafe
<1>9. CASE shutdown
  BY <1>9, ShutdownSafe
<1>10. CASE \E b \in Bytes : peerWrites(b)
  BY <1>10, PeerWritesSafe
<1>11. CASE peerReads
  BY <1>11, PeerReadsSafe
<1>12. CASE peerCloses
  BY <1>12, PeerEndsSafe DEF peerCloses
<1>13. CASE peerResets
  BY <1>13, PeerEndsSafe DEF peerResets
<1>14. CASE UNCHANGED streamVars
  <2>1. UNCHANGED <<pc, revents, peer, input, output, wire, received>>
    BY <1>14 DEF streamVars
  <2>2. Control'
    BY <1>1, <2>1 DEF Control, HangUpIsReset, NobodyCutOff, LinesWritten, input
  <2>3. LinesKept' /\ RepliesKept'
    BY <1>1, <2>1, InputKeepsLines, OutputKeepsReplies
  <2>4. QED
    BY <2>2, <2>3, PartsNext
<1>15. QED
  BY <1>2, <1>3, <1>4, <1>5, <1>6, <1>7, <1>8, <1>9, <1>10, <1>11, <1>12, <1>13, <1>14
     DEF Next, serve
-----------------------------------------------------------------------------
(* The theorems.                                                           *)

\* Server::launch, seen from one connection, keeps the invariant, however the stream
\* is cut into chunks and whatever the kernel takes.
THEOREM StreamInvariance == StreamSpec => []StreamInv
<1>1. Init => StreamInv
  BY StreamInvInit
<1>2. StreamInv /\ [Next]_streamVars => StreamInv'
  BY StreamInvStep
<1>3. QED
  BY <1>1, <1>2, PTL DEF StreamSpec

\* Server::extract_msg hands every line to dispatchCommand once and in order,
\* wherever recv cuts the stream.
THEOREM LinesHandledInOrder == StreamSpec => []LinesInOrder
<1>1. StreamInv => LinesInOrder
  BY DEF StreamInv
<1>2. QED
  BY <1>1, StreamInvariance, PTL

\* Server::handle_user, the hang-up branch of launch and Server::handle_send disconnect
\* only peers that have reset the connection, and those that have closed it and whose
\* lines have all been handled.
THEOREM LetGoWhenFinished == StreamSpec => []NobodyCutOff
<1>1. StreamInv => NobodyCutOff
  BY DEF StreamInv
<1>2. QED
  BY <1>1, StreamInvariance, PTL

\* Client::sending_queue and Server::handle_send lose, repeat and reorder nothing,
\* however little each send takes.
THEOREM RepliesLeaveInOrder == StreamSpec => []RepliesInOrder
<1>1. StreamInv => RepliesInOrder
  BY DEF StreamInv
<1>2. QED
  BY <1>1, StreamInvariance, PTL
=============================================================================
