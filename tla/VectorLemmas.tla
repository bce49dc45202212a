---------------------------- MODULE VectorLemmas ----------------------------
(***************************************************************************)
(* Lemmas about the vectors and byte strings of the server: the first      *)
(* match, erasing, appending and cutting.                                  *)
(***************************************************************************)
EXTENDS Integers, SequencesExt, SequenceTheorems, WellFoundedInduction, TLAPS
-----------------------------------------------------------------------------
(* Searching.                                                              *)

LEMMA HasMin ==
    ASSUME NEW T, T \subseteq Nat, T # {}
    PROVE  \E x \in T : \A y \in T : x <= y
<1> DEFINE less == OpToRel(<, Nat)
<1>1. IsWellFoundedOn(less, Nat)
  BY NatLessThanWellFounded
<1>2. \A x, y \in Nat : y < x => <<y, x>> \in less
  BY DEF OpToRel
<1> HIDE DEF less
<1>3. PICK x \in T : \A y \in T : ~ (<<y, x>> \in less)
  BY <1>1, WFMin
<1>4. \A y \in T : ~(y < x)
  BY <1>2, <1>3
<1>5. QED
  BY <1>4

LEMMA HasMax ==
    ASSUME NEW n \in Nat, NEW T, T \subseteq 0 .. n, T # {}
    PROVE  \E x \in T : \A y \in T : x >= y
<1> DEFINE U == {n - y : y \in T}
<1>1. U \subseteq Nat /\ U # {}
  <2>1. PICK y \in T : TRUE
    OBVIOUS
  <2>2. n - y \in U
    BY <2>1
  <2>3. QED
    BY <2>2
<1>2. PICK u \in U : \A y \in U : u <= y
  BY <1>1, HasMin
<1>3. PICK x \in T : u = n - x
  BY <1>2
<1>4. \A y \in T : n - y \in U /\ n - x <= n - y
  BY <1>2, <1>3
<1>5. \A y \in T : x >= y
  BY <1>4
<1>6. QED
  BY <1>5

\* The first position of f.
FirstAt(s, f) == SelectInSeq(s, LAMBDA v : v = f)

LEMMA FirstAtProperties ==
    ASSUME NEW s, Len(s) \in Nat, NEW f, \E i \in 1 .. Len(s) : s[i] = f
    PROVE  FirstAt(s, f) \in 1 .. Len(s) /\ s[FirstAt(s, f)] = f
<1> DEFINE I == {i \in 1 .. Len(s) : s[i] = f}
<1>1. I # {} /\ I \subseteq Nat
  OBVIOUS
<1>2. \E x \in I : \A y \in I : x =< y
  BY <1>1, HasMin
<1>3. FirstAt(s, f) = Min(I)
  BY <1>1 DEF FirstAt, SelectInSeq
<1>4. Min(I) \in I
  BY <1>2 DEF Min
<1>5. QED
  BY <1>3, <1>4

\* find returns 0 for none, and no later position than any other match.
LEMMA FirstAtIsFirst ==
    ASSUME NEW S, NEW s \in Seq(S), NEW f, FirstAt(s, f) # 0
    PROVE  /\ FirstAt(s, f) \in 1 .. Len(s) /\ s[FirstAt(s, f)] = f
           /\ \A i \in 1 .. FirstAt(s, f) - 1 : s[i] # f
<1> DEFINE I == {i \in 1 .. Len(s) : s[i] = f}
<1>1. I # {}
  BY DEF FirstAt, SelectInSeq
<1>2. I \subseteq Nat /\ Len(s) \in Nat
  OBVIOUS
<1>3. \E x \in I : \A y \in I : x =< y
  BY <1>1, <1>2, HasMin
<1>4. FirstAt(s, f) = Min(I)
  BY <1>1 DEF FirstAt, SelectInSeq
<1>5. Min(I) \in I /\ \A y \in I : Min(I) =< y
  BY <1>3 DEF Min
<1>6. ASSUME NEW i \in 1 .. Min(I) - 1 PROVE s[i] # f
  <2>1. i \in 1 .. Len(s) /\ ~(Min(I) =< i)
    BY <1>2, <1>5
  <2>2. QED
    BY <1>5, <2>1
<1>7. QED
  BY <1>4, <1>5, <1>6
-----------------------------------------------------------------------------
(* Changing.                                                               *)

\* erase(begin() + p - 1).
LEMMA RemoveAtProperties ==
    ASSUME NEW S, NEW s \in Seq(S), NEW p \in 1 .. Len(s)
    PROVE  /\ RemoveAt(s, p) \in Seq(S)
           /\ Len(RemoveAt(s, p)) = Len(s) - 1
           /\ \A q \in 1 .. Len(s) - 1 :
                RemoveAt(s, p)[q] = IF q < p THEN s[q] ELSE s[q + 1]
<1> DEFINE before == SubSeq(s, 1, p - 1)
           behind == SubSeq(s, p + 1, Len(s))
<1>1. Len(s) \in Nat /\ \A q \in 1 .. Len(s) : s[q] \in S
  BY ElementOfSeq
<1>2. /\ before \in Seq(S) /\ Len(before) = p - 1
      /\ \A q \in 1 .. p - 1 : before[q] = s[q]
  <2>1. p - 1 \in Int /\ \A q \in 1 .. p - 1 : s[q] \in S
    BY <1>1
  <2>2. QED
    BY <1>1, <2>1, SubSeqProperties
<1>3. /\ behind \in Seq(S) /\ Len(behind) = Len(s) - p
      /\ \A q \in 1 .. Len(s) - p : behind[q] = s[q + p]
  <2>1. p + 1 \in Int /\ \A q \in p + 1 .. Len(s) : s[q] \in S
    BY <1>1
  <2>2. QED
    BY <1>1, <2>1, SubSeqProperties
<1>4. RemoveAt(s, p) = before \o behind
  BY DEF RemoveAt
<1> HIDE DEF before, behind
<1>5. /\ before \o behind \in Seq(S)
      /\ Len(before \o behind) = Len(before) + Len(behind)
      /\ \A q \in 1 .. Len(before) + Len(behind) :
           (before \o behind)[q] =
             IF q <= Len(before) THEN before[q] ELSE behind[q - Len(before)]
  BY <1>2, <1>3, ConcatProperties
<1>6. Len(before) + Len(behind) = Len(s) - 1
  BY <1>1, <1>2, <1>3
<1>7. ASSUME NEW q \in 1 .. Len(s) - 1
      PROVE  (before \o behind)[q] = IF q < p THEN s[q] ELSE s[q + 1]
  <2>1. CASE q < p
    BY <1>1, <1>2, <1>5, <1>6, <2>1
  <2>2. CASE ~(q < p)
    <3>1. q - (p - 1) \in 1 .. Len(s) - p /\ q - (p - 1) + p = q + 1
      BY <1>1, <2>2
    <3>2. (before \o behind)[q] = behind[q - (p - 1)]
      BY <1>1, <1>2, <1>5, <1>6, <2>2
    <3>3. QED
      BY <1>3, <2>2, <3>1, <3>2
  <2>3. QED
    BY <2>1, <2>2
<1>8. QED
  BY <1>4, <1>5, <1>6, <1>7

\* The positions of an erased vector, seen from the one before.
Before(p, q) == IF q < p THEN q ELSE q + 1

LEMMA RemoveAtPositions ==
    ASSUME NEW S, NEW s \in Seq(S), NEW p \in 1 .. Len(s)
    PROVE  /\ DOMAIN RemoveAt(s, p) = 1 .. Len(s) - 1
           /\ \A q \in DOMAIN RemoveAt(s, p) :
                /\ Before(p, q) \in DOMAIN s \ {p}
                /\ RemoveAt(s, p)[q] = s[Before(p, q)]
           /\ \A q \in DOMAIN s \ {p} :
                \E r \in DOMAIN RemoveAt(s, p) : Before(p, r) = q
           /\ \A q, r \in DOMAIN RemoveAt(s, p) : Before(p, q) = Before(p, r) => q = r
<1>1. /\ RemoveAt(s, p) \in Seq(S) /\ Len(RemoveAt(s, p)) = Len(s) - 1
      /\ \A q \in 1 .. Len(s) - 1 : RemoveAt(s, p)[q] = IF q < p THEN s[q] ELSE s[q + 1]
  BY RemoveAtProperties
<1>2. DOMAIN s = 1 .. Len(s) /\ DOMAIN RemoveAt(s, p) = 1 .. Len(s) - 1 /\ Len(s) \in Nat
  BY <1>1
<1>3. \A q \in 1 .. Len(s) - 1 :
          Before(p, q) \in DOMAIN s \ {p} /\ RemoveAt(s, p)[q] = s[Before(p, q)]
  BY <1>1, <1>2 DEF Before
<1>4. ASSUME NEW q \in DOMAIN s \ {p}
      PROVE  \E r \in 1 .. Len(s) - 1 : Before(p, r) = q
  <2>1. CASE q < p
    <3>1. q \in 1 .. Len(s) - 1 /\ Before(p, q) = q
      BY <1>2, <2>1 DEF Before
    <3>2. QED
      BY <3>1
  <2>2. CASE ~(q < p)
    <3>1. q - 1 \in 1 .. Len(s) - 1 /\ Before(p, q - 1) = q
      BY <1>2, <2>2 DEF Before
    <3>2. QED
      BY <3>1
  <2>3. QED
    BY <2>1, <2>2
<1>5. \A q, r \in 1 .. Len(s) - 1 : Before(p, q) = Before(p, r) => q = r
  BY DEF Before
<1>6. QED
  BY <1>2, <1>3, <1>4, <1>5

\* push_back.
LEMMA AppendPositions ==
    ASSUME NEW S, NEW s \in Seq(S), NEW e \in S
    PROVE  /\ Append(s, e) \in Seq(S)
           /\ DOMAIN Append(s, e) = DOMAIN s \cup {Len(s) + 1}
           /\ Len(s) + 1 \notin DOMAIN s
           /\ \A q \in DOMAIN s : Append(s, e)[q] = s[q]
           /\ Append(s, e)[Len(s) + 1] = e
<1>1. /\ Append(s, e) \in Seq(S) /\ Len(Append(s, e)) = Len(s) + 1
      /\ \A q \in 1 .. Len(s) : Append(s, e)[q] = s[q]
      /\ Append(s, e)[Len(s) + 1] = e
  BY AppendProperties
<1>2. DOMAIN s = 1 .. Len(s) /\ DOMAIN Append(s, e) = 1 .. Len(s) + 1 /\ Len(s) \in Nat
  BY <1>1
<1>3. QED
  BY <1>1, <1>2
-----------------------------------------------------------------------------
(* Cutting.                                                                *)

\* The bytes of s from m to n.
LEMMA Piece ==
    ASSUME NEW S, NEW s \in Seq(S), NEW m \in Nat \ {0}, NEW n \in Int, n <= Len(s)
    PROVE  /\ SubSeq(s, m, n) \in Seq(S)
           /\ Len(SubSeq(s, m, n)) = IF m <= n THEN n - m + 1 ELSE 0
           /\ \A i \in 1 .. n - m + 1 : SubSeq(s, m, n)[i] = s[i + m - 1]
<1>1. m \in Int /\ Len(s) \in Nat /\ \A i \in m .. n : s[i] \in S
  BY ElementOfSeq
<1>2. /\ SubSeq(s, m, n) \in Seq(S)
      /\ Len(SubSeq(s, m, n)) = IF m <= n THEN n - m + 1 ELSE 0
      /\ \A i \in 1 .. n - m + 1 : SubSeq(s, m, n)[i] = s[m + i - 1]
  BY <1>1, SubSeqProperties
<1>3. \A i \in 1 .. n - m + 1 : m + i - 1 = i + m - 1
  BY <1>1
<1>4. QED
  BY <1>2, <1>3

\* What comes later does not change it.
LEMMA PieceOfAppend ==
    ASSUME NEW S, NEW s \in Seq(S), NEW e \in S,
           NEW m \in Nat \ {0}, NEW n \in Int, n <= Len(s)
    PROVE  SubSeq(Append(s, e), m, n) = SubSeq(s, m, n)
<1> DEFINE t == Append(s, e)
<1>1. /\ t \in Seq(S) /\ Len(t) = Len(s) + 1 /\ Len(s) \in Nat
      /\ \A i \in 1 .. Len(s) : t[i] = s[i]
  BY AppendProperties
<1> HIDE DEF t
<1> DEFINE u == SubSeq(t, m, n)
           v == SubSeq(s, m, n)
<1>2. /\ u \in Seq(S) /\ Len(u) = IF m <= n THEN n - m + 1 ELSE 0
      /\ \A i \in 1 .. n - m + 1 : u[i] = t[i + m - 1]
  BY <1>1, Piece
<1>3. /\ v \in Seq(S) /\ Len(v) = IF m <= n THEN n - m + 1 ELSE 0
      /\ \A i \in 1 .. n - m + 1 : v[i] = s[i + m - 1]
  BY Piece
<1> HIDE DEF u, v
<1>4. ASSUME NEW i \in 1 .. Len(u) PROVE u[i] = v[i]
  <2>1. i \in 1 .. n - m + 1 /\ i + m - 1 \in 1 .. Len(s)
    BY <1>1, <1>2
  <2>2. QED
    BY <1>1, <1>2, <1>3, <2>1
<1>5. u = v
  BY <1>2, <1>3, <1>4, SeqEqual
<1>6. QED
  BY <1>5 DEF t, u, v

\* Two pieces that meet.
LEMMA PiecesMeet ==
    ASSUME NEW S, NEW s \in Seq(S), NEW m \in Nat \ {0}, NEW n \in Int, NEW k \in Int,
           m <= n + 1, n <= k, k <= Len(s)
    PROVE  SubSeq(s, m, n) \o SubSeq(s, n + 1, k) = SubSeq(s, m, k)
<1> DEFINE u == SubSeq(s, m, n)
           v == SubSeq(s, n + 1, k)
           w == SubSeq(s, m, k)
<1>1. /\ u \in Seq(S) /\ Len(u) = n - m + 1
      /\ \A i \in 1 .. n - m + 1 : u[i] = s[i + m - 1]
  <2>1. n <= Len(s)
    OBVIOUS
  <2>2. QED
    BY <2>1, Piece
<1>2. /\ v \in Seq(S) /\ Len(v) = k - n
      /\ \A i \in 1 .. k - n : v[i] = s[i + n]
  <2>1. n + 1 \in Nat \ {0} /\ k - (n + 1) + 1 = k - n
    OBVIOUS
  <2>2. /\ v \in Seq(S) /\ Len(v) = IF n + 1 <= k THEN k - (n + 1) + 1 ELSE 0
        /\ \A i \in 1 .. k - (n + 1) + 1 : v[i] = s[i + (n + 1) - 1]
    BY <2>1, Piece
  <2>3. \A i \in 1 .. k - n : i + (n + 1) - 1 = i + n
    OBVIOUS
  <2>4. QED
    BY <2>1, <2>2, <2>3
<1>3. /\ w \in Seq(S) /\ Len(w) = k - m + 1
      /\ \A i \in 1 .. k - m + 1 : w[i] = s[i + m - 1]
  BY Piece
<1> HIDE DEF u, v, w
<1>4. /\ u \o v \in Seq(S) /\ Len(u \o v) = Len(u) + Len(v)
      /\ \A i \in 1 .. Len(u) + Len(v) :
           (u \o v)[i] = IF i <= Len(u) THEN u[i] ELSE v[i - Len(u)]
  BY <1>1, <1>2, ConcatProperties
<1>5. Len(u \o v) = Len(w)
  BY <1>1, <1>2, <1>3, <1>4
<1>6. ASSUME NEW i \in 1 .. Len(u \o v) PROVE (u \o v)[i] = w[i]
  <2>1. CASE i <= Len(u)
    BY <1>1, <1>2, <1>3, <1>4, <2>1
  <2>2. CASE ~(i <= Len(u))
    <3>1. i - Len(u) \in 1 .. k - n /\ i - Len(u) + n = i + m - 1 /\ i \in 1 .. k - m + 1
      BY <1>1, <1>2, <1>4, <2>2
    <3>2. (u \o v)[i] = v[i - Len(u)]
      BY <1>4, <2>2
    <3>3. QED
      BY <1>2, <1>3, <3>1, <3>2
  <2>3. QED
    BY <2>1, <2>2
<1>7. u \o v = w
  BY <1>3, <1>4, <1>5, <1>6, SeqEqual
<1>8. QED
  BY <1>7 DEF u, v, w

\* A piece of a piece.
LEMMA PieceOfPiece ==
    ASSUME NEW S, NEW s \in Seq(S), NEW d \in Nat, NEW k \in Int, d <= k, k <= Len(s),
           NEW m \in Nat \ {0}, NEW n \in Int, n <= k - d
    PROVE  SubSeq(SubSeq(s, d + 1, k), m, n) = SubSeq(s, d + m, d + n)
<1> DEFINE t == SubSeq(s, d + 1, k)
<1>1. /\ t \in Seq(S) /\ Len(t) = k - d
      /\ \A i \in 1 .. k - d : t[i] = s[i + d]
  <2>1. d + 1 \in Nat \ {0} /\ k - (d + 1) + 1 = k - d
    OBVIOUS
  <2>2. /\ t \in Seq(S) /\ Len(t) = IF d + 1 <= k THEN k - (d + 1) + 1 ELSE 0
        /\ \A i \in 1 .. k - (d + 1) + 1 : t[i] = s[i + (d + 1) - 1]
    BY <2>1, Piece
  <2>3. \A i \in 1 .. k - d : i + (d + 1) - 1 = i + d
    OBVIOUS
  <2>4. QED
    BY <2>1, <2>2, <2>3
<1> HIDE DEF t
<1> DEFINE u == SubSeq(t, m, n)
           v == SubSeq(s, d + m, d + n)
<1>2. /\ u \in Seq(S) /\ Len(u) = IF m <= n THEN n - m + 1 ELSE 0
      /\ \A i \in 1 .. n - m + 1 : u[i] = t[i + m - 1]
  BY <1>1, Piece
<1>3. /\ v \in Seq(S) /\ Len(v) = IF d + m <= d + n THEN (d + n) - (d + m) + 1 ELSE 0
      /\ \A i \in 1 .. (d + n) - (d + m) + 1 : v[i] = s[i + (d + m) - 1]
  <2>1. d + m \in Nat \ {0} /\ d + n \in Int /\ d + n <= Len(s)
    BY <1>1
  <2>2. QED
    BY <2>1, Piece
<1> HIDE DEF u, v
<1>4. Len(u) = Len(v)
  BY <1>2, <1>3
<1>5. ASSUME NEW i \in 1 .. Len(u) PROVE u[i] = v[i]
  <2>1. i + m - 1 \in 1 .. k - d /\ i \in 1 .. n - m + 1 /\ (i + m - 1) + d = i + (d + m) - 1
    BY <1>1, <1>2
  <2>2. i \in 1 .. (d + n) - (d + m) + 1
    BY <2>1
  <2>3. QED
    BY <1>1, <1>2, <1>3, <2>1, <2>2
<1>6. u = v
  BY <1>2, <1>3, <1>4, <1>5, SeqEqual
<1>7. QED
  BY <1>6 DEF t, u, v

\* All of it, and nothing of it.
LEMMA WholePiece ==
    ASSUME NEW S, NEW s \in Seq(S)
    PROVE  /\ SubSeq(s, 1, Len(s)) = s
           /\ SubSeq(s, 1, 0) = <<>>
           /\ Len(s) \in Nat
<1> DEFINE u == SubSeq(s, 1, Len(s))
<1>1. Len(s) \in Nat
  OBVIOUS
<1>2. /\ u \in Seq(S) /\ Len(u) = IF 1 <= Len(s) THEN Len(s) - 1 + 1 ELSE 0
      /\ \A i \in 1 .. Len(s) - 1 + 1 : u[i] = s[i + 1 - 1]
  BY <1>1, Piece
<1> HIDE DEF u
<1>3. Len(u) = Len(s) /\ \A i \in 1 .. Len(u) : u[i] = s[i]
  BY <1>1, <1>2
<1>4. u = s
  BY <1>2, <1>3, SeqEqual
<1>5. QED
  BY <1>1, <1>4, SubSeqEmpty DEF u

\* The front of a concatenation.
LEMMA FrontOfConcat ==
    ASSUME NEW S, NEW s \in Seq(S), NEW t \in Seq(S)
    PROVE  IsPrefix(s, s \o t) /\ SubSeq(s \o t, 1, Len(s)) = s
<1> DEFINE w == s \o t
           u == SubSeq(w, 1, Len(s))
<1>1. /\ w \in Seq(S) /\ Len(w) = Len(s) + Len(t) /\ Len(s) \in Nat /\ Len(t) \in Nat
      /\ \A i \in 1 .. Len(s) : w[i] = s[i]
  BY ConcatProperties
<1> HIDE DEF w
<1>2. /\ u \in Seq(S) /\ Len(u) = IF 1 <= Len(s) THEN Len(s) - 1 + 1 ELSE 0
      /\ \A i \in 1 .. Len(s) - 1 + 1 : u[i] = w[i + 1 - 1]
  BY <1>1, Piece
<1> HIDE DEF u
<1>3. Len(u) = Len(s) /\ \A i \in 1 .. Len(u) : u[i] = s[i]
  BY <1>1, <1>2
<1>4. u = s
  BY <1>2, <1>3, SeqEqual
<1>5. SubSeq(s, 1, Len(s)) = s
  BY WholePiece
<1>6. QED
  BY <1>1, <1>4, <1>5 DEF IsPrefix, u, w

\* s between two others.
Between(a, s, b) == a \o s \o b

\* What w is then.
IsBetween(S, w, a, s, b) ==
    /\ w \in Seq(S)
    /\ Len(w) = Len(a) + Len(s) + Len(b)
    /\ \A i \in 1 .. Len(a) : w[i] = a[i]
    /\ \A i \in 1 .. Len(s) : w[Len(a) + i] = s[i]
    /\ \A i \in 1 .. Len(b) : w[Len(a) + Len(s) + i] = b[i]
    /\ SubSeq(w, Len(a) + 1, Len(a) + Len(s)) = s

LEMMA BetweenProperties ==
    ASSUME NEW S, NEW a \in Seq(S), NEW s \in Seq(S), NEW b \in Seq(S)
    PROVE  IsBetween(S, Between(a, s, b), a, s, b)
<1> DEFINE v == a \o s
           w == Between(a, s, b)
<1>1. Len(a) \in Nat /\ Len(s) \in Nat /\ Len(b) \in Nat
  OBVIOUS
<1>2. /\ v \in Seq(S) /\ Len(v) = Len(a) + Len(s)
      /\ \A i \in 1 .. Len(a) + Len(s) :
           v[i] = IF i <= Len(a) THEN a[i] ELSE s[i - Len(a)]
  BY ConcatProperties
<1>3. w = v \o b
  BY DEF Between
<1> HIDE DEF v, w
<1>4. /\ v \o b \in Seq(S) /\ Len(v \o b) = Len(v) + Len(b)
      /\ \A i \in 1 .. Len(v) + Len(b) :
           (v \o b)[i] = IF i <= Len(v) THEN v[i] ELSE b[i - Len(v)]
  <2>1. v \in Seq(S)
    BY <1>2
  <2>2. QED
    BY <2>1, ConcatProperties
<1>5. /\ w \in Seq(S) /\ Len(w) = Len(v) + Len(b)
      /\ \A i \in 1 .. Len(v) + Len(b) : w[i] = IF i <= Len(v) THEN v[i] ELSE b[i - Len(v)]
  BY <1>3, <1>4, Zenon
<1>6. ASSUME NEW i \in 1 .. Len(a) PROVE w[i] = a[i]
  <2>1. i \in 1 .. Len(v) + Len(b) /\ i <= Len(v) /\ i \in 1 .. Len(a) + Len(s) /\ i <= Len(a)
    BY <1>1, <1>2
  <2>2. w[i] = v[i] /\ v[i] = a[i]
    BY <1>2, <1>5, <2>1, Zenon
  <2>3. QED
    BY <2>2
<1>7. ASSUME NEW i \in 1 .. Len(s) PROVE w[Len(a) + i] = s[i]
  <2> DEFINE j == Len(a) + i
  <2>1. /\ j \in 1 .. Len(v) + Len(b) /\ j <= Len(v) /\ j \in 1 .. Len(a) + Len(s)
        /\ ~(j <= Len(a)) /\ j - Len(a) = i
    BY <1>1, <1>2
  <2> HIDE DEF j
  <2>2. w[j] = v[j]
    BY <1>5, <2>1, Zenon
  <2>3. v[j] = s[j - Len(a)]
    BY <1>2, <2>1, Zenon
  <2>4. w[j] = s[i]
    BY <2>1, <2>2, <2>3, Zenon
  <2>5. QED
    BY <2>4, Zenon DEF j
<1>8. ASSUME NEW i \in 1 .. Len(b) PROVE w[Len(a) + Len(s) + i] = b[i]
  <2> DEFINE j == Len(a) + Len(s) + i
  <2>1. j \in 1 .. Len(v) + Len(b) /\ ~(j <= Len(v)) /\ j - Len(v) = i
    BY <1>1, <1>2
  <2> HIDE DEF j
  <2>2. w[j] = b[j - Len(v)]
    BY <1>5, <2>1, Zenon
  <2>3. w[j] = b[i]
    BY <2>1, <2>2, Zenon
  <2>4. QED
    BY <2>3, Zenon DEF j
<1>9. Len(w) = Len(a) + Len(s) + Len(b)
  BY <1>2, <1>5, Zenon
<1> DEFINE u == SubSeq(w, Len(a) + 1, Len(a) + Len(s))
<1>10. /\ u \in Seq(S) /\ Len(u) = Len(s)
       /\ \A i \in 1 .. Len(s) : u[i] = w[Len(a) + i]
  <2>1. /\ Len(a) + 1 \in Nat \ {0} /\ Len(a) + Len(s) \in Int
        /\ Len(a) + Len(s) <= Len(a) + Len(s) + Len(b)
        /\ (Len(a) + Len(s)) - (Len(a) + 1) + 1 = Len(s)
        /\ (IF Len(a) + 1 <= Len(a) + Len(s) THEN (Len(a) + Len(s)) - (Len(a) + 1) + 1 ELSE 0)
             = Len(s)
    BY <1>1
  <2>2. Len(a) + Len(s) <= Len(w)
    BY <1>9, <2>1, Zenon
  <2>3. /\ u \in Seq(S)
        /\ Len(u) = IF Len(a) + 1 <= Len(a) + Len(s)
                    THEN (Len(a) + Len(s)) - (Len(a) + 1) + 1 ELSE 0
        /\ \A i \in 1 .. (Len(a) + Len(s)) - (Len(a) + 1) + 1 :
             u[i] = w[i + (Len(a) + 1) - 1]
    BY <1>5, <2>1, <2>2, Piece
  <2>4. \A i \in 1 .. Len(s) : i + (Len(a) + 1) - 1 = Len(a) + i
    BY <1>1
  <2>5. Len(u) = Len(s)
    BY <2>1, <2>3, Zenon
  <2>6. \A i \in 1 .. Len(s) : u[i] = w[i + (Len(a) + 1) - 1]
    BY <2>1, <2>3, Zenon
  <2> HIDE DEF u
  <2>7. QED
    BY <2>3, <2>4, <2>5, <2>6, Zenon
<1> HIDE DEF u
<1>11. ASSUME NEW i \in 1 .. Len(u) PROVE u[i] = s[i]
  <2>1. i \in 1 .. Len(s)
    BY <1>10, Zenon
  <2>2. QED
    BY <1>7, <1>10, <2>1, Zenon
<1>12. u = s
  <2>1. u \in Seq(S) /\ Len(u) = Len(s)
    BY <1>10, Zenon
  <2>2. QED
    BY <1>11, <2>1, SeqEqual, Zenon
<1>13. QED
  BY <1>5, <1>6, <1>7, <1>8, <1>9, <1>12, Zenon DEF IsBetween, u, w

LEMMA SeqWidens ==
    ASSUME NEW S, NEW T, S \subseteq T, NEW s \in Seq(S)
    PROVE  s \in Seq(T)
OBVIOUS
=============================================================================
