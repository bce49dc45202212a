----------------------------- MODULE TextProofs -----------------------------
(***************************************************************************)
(* What the parser and the tests of parameters promise, for texts of any   *)
(* length and any characters.                                              *)
(*                                                                         *)
(* A recursive function is a CHOOSE: that there is a function with its     *)
(* equation is shown by looking at the first place where there is none.    *)
(***************************************************************************)
EXTENDS Text, VectorLemmas, FiniteSetTheorems
-----------------------------------------------------------------------------
(* Numbers.                                                                *)

\* f is the function that Numeral(s) evaluates, up to the n-th digit.
Values(f, s, n) ==
    f = [i \in 0 .. n |-> IF i = 0 THEN 0 ELSE 10 * f[i - 1] + DigitValue[s[i]]]

LEMMA ValuesExist ==
    ASSUME NEW s, NEW n \in Nat
    PROVE  \E f : Values(f, s, n)
<1> DEFINE None == {k \in 0 .. n : ~ \E f : Values(f, s, k)}
<1>1. SUFFICES ASSUME None # {} PROVE FALSE
  BY <1>1
<1>2. PICK k \in None : \A j \in None : k <= j
  <2>1. None \subseteq Nat
    OBVIOUS
  <2>2. QED
    BY <1>1, <2>1, HasMin
<1>3. k \in 0 .. n /\ ~ \E f : Values(f, s, k)
  OBVIOUS
<1>4. CASE k = 0
  <2> DEFINE f == [i \in 0 .. 0 |-> 0]
  <2>1. Values(f, s, 0)
    BY DEF Values
  <2>2. QED
    BY <1>3, <1>4, <2>1
<1>5. CASE k # 0
  <2>1. k - 1 \in 0 .. n /\ ~(k <= k - 1)
    BY <1>3, <1>5
  <2>2. PICK f : Values(f, s, k - 1)
    BY <1>2, <2>1
  <2> DEFINE g == [i \in 0 .. k |-> IF i = k THEN 10 * f[k - 1] + DigitValue[s[k]] ELSE f[i]]
  <2>3. \A i \in 0 .. k - 1 : f[i] = IF i = 0 THEN 0 ELSE 10 * f[i - 1] + DigitValue[s[i]]
    BY <2>2 DEF Values
  <2>4. ASSUME NEW i \in 0 .. k
        PROVE  g[i] = IF i = 0 THEN 0 ELSE 10 * g[i - 1] + DigitValue[s[i]]
    <3>1. CASE i = k
      <4>1. k - 1 \in 0 .. k /\ k - 1 # k /\ k # 0
        BY <1>3, <1>5
      <4>2. g[k - 1] = f[k - 1] /\ g[k] = 10 * f[k - 1] + DigitValue[s[k]]
        BY <3>1, <4>1
      <4>3. QED
        BY <3>1, <4>1, <4>2
    <3>2. CASE i # k /\ i # 0
      <4>1. i \in 0 .. k - 1 /\ i - 1 \in 0 .. k /\ i - 1 # k
        BY <1>3, <3>2
      <4>2. g[i] = f[i] /\ g[i - 1] = f[i - 1]
        BY <3>2, <4>1
      <4>3. QED
        BY <2>3, <3>2, <4>1, <4>2
    <3>3. CASE i # k /\ i = 0
      <4>1. 0 \in 0 .. k - 1
        BY <1>3, <1>5
      <4>2. QED
        BY <2>3, <3>3, <4>1
    <3>4. QED
      BY <3>1, <3>2, <3>3
  <2>5. Values(g, s, k)
    <3>1. g = [i \in 0 .. k |-> g[i]]
      OBVIOUS
    <3> HIDE DEF g
    <3>2. QED
      BY <2>4, <3>1 DEF Values
  <2>6. QED
    BY <1>3, <2>5
<1>6. QED
  BY <1>4, <1>5

LEMMA ValuesAreNat ==
    ASSUME NEW s \in Seq(Digits), NEW f, Values(f, s, Len(s))
    PROVE  f[Len(s)] \in Nat
<1> DEFINE N == Len(s)
           Odd == {i \in 0 .. N : f[i] \notin Nat}
<1>1. N \in Nat /\ \A i \in 1 .. N : s[i] \in Digits
  BY ElementOfSeq
<1>2. \A d \in Digits : DigitValue[d] \in Nat
  <2>1. DigitValue \in [Digits -> 0 .. 9]
    BY CharacterAssumption, Zenon
  <2>2. QED
    BY <2>1
<1>3. \A i \in 0 .. N : f[i] = IF i = 0 THEN 0 ELSE 10 * f[i - 1] + DigitValue[s[i]]
  BY DEF Values
<1>4. SUFFICES ASSUME Odd # {} PROVE FALSE
  BY <1>1, <1>4
<1>5. PICK i \in Odd : \A j \in Odd : i <= j
  <2>1. Odd \subseteq Nat
    OBVIOUS
  <2>2. QED
    BY <1>4, <2>1, HasMin
<1>6. i # 0
  BY <1>3
<1>7. i - 1 \in 0 .. N /\ ~(i <= i - 1) /\ i \in 1 .. N
  BY <1>1, <1>6
<1>8. f[i - 1] \in Nat
  BY <1>5, <1>7
<1>9. DigitValue[s[i]] \in Nat
  BY <1>1, <1>2, <1>7
<1>10. f[i] = 10 * f[i - 1] + DigitValue[s[i]]
  BY <1>3, <1>6, <1>7
<1>11. f[i] \in Nat
  BY <1>8, <1>9, <1>10
<1>12. QED
  BY <1>5, <1>11

LEMMA NumeralIsNat ==
    ASSUME NEW s \in Seq(Digits)
    PROVE  Numeral(s) \in Nat
<1> DEFINE value == CHOOSE f : Values(f, s, Len(s))
<1>1. Len(s) \in Nat
  OBVIOUS
<1>2. Values(value, s, Len(s))
  BY <1>1, ValuesExist
<1>3. Numeral(s) = value[Len(s)]
  BY DEF Numeral, Values
<1> HIDE DEF value
<1>4. QED
  BY <1>2, <1>3, ValuesAreNat

\* A number that an int can hold comes through strtol and the conversion.
LEMMA atoiExact ==
    ASSUME NEW s, Numeral(s) \in 0 .. IntMax
    PROVE  atoi(s) = Numeral(s)
<1>1. IntMax \in Nat /\ LongMax \in Nat /\ IntMax <= LongMax
  BY WidthAssumption
<1>2. strtol(s) = Numeral(s)
  BY <1>1 DEF strtol
<1>3. Numeral(s) % IntValues = Numeral(s)
  BY <1>1 DEF IntValues
<1>4. QED
  BY <1>1, <1>2, <1>3 DEF atoi

LEMMA DigitsLead ==
    ASSUME NEW s, isNumber(s)
    PROVE  Leading(s) = s
BY DEF isNumber, Leading, SelectInSeq

\* The cut to int leaves nothing larger, and nothing that is not an int.
LEMMA atoiBounded ==
    ASSUME NEW s, Numeral(s) \in Nat
    PROVE  atoi(s) \in Int /\ atoi(s) <= IntMax /\ atoi(s) <= Numeral(s)
<1> DEFINE k == strtol(s)
           m == IntValues
<1>1. IntMax \in Nat /\ LongMax \in Nat
  BY WidthAssumption
<1>2. k \in Nat /\ k <= Numeral(s)
  BY <1>1 DEF strtol
<1>3. m \in Nat \ {0} /\ m > IntMax
  BY <1>1 DEF IntValues
<1> HIDE DEF k, m
<1>4. k % m \in 0 .. m - 1 /\ k % m <= k
  BY <1>2, <1>3
<1>5. atoi(s) = IF k % m > IntMax THEN (k % m) - m ELSE k % m
  BY DEF atoi, k, m
<1>6. QED
  BY <1>1, <1>2, <1>3, <1>4, <1>5

LEMMA LimitRight ==
    ASSUME NEW C, NEW s \in Seq(C), limited_usage(s) # 0
    PROVE  /\ \A i \in DOMAIN s : s[i] \in Digits
           /\ limited_usage(s) \in 1 .. IntMax
           /\ limited_usage(s) <= Numeral(s)
           /\ Numeral(s) <= IntMax => limited_usage(s) = Numeral(s)
<1>1. isNumber(s) /\ limited_usage(s) = atoi(Leading(s)) /\ atoi(Leading(s)) > 0
  BY DEF limited_usage
<1>2. \A i \in DOMAIN s : s[i] \in Digits
  BY <1>1 DEF isNumber
<1>3. s \in Seq(Digits)
  BY <1>2
<1>4. Numeral(s) \in Nat /\ IntMax \in Nat
  BY <1>3, NumeralIsNat, WidthAssumption
<1>5. Leading(s) = s
  BY <1>1, DigitsLead
<1>6. Numeral(s) <= IntMax => atoi(s) = Numeral(s)
  BY <1>4, atoiExact
<1>7. atoi(s) \in Int /\ atoi(s) <= IntMax /\ atoi(s) <= Numeral(s)
  BY <1>4, atoiBounded
<1>8. limited_usage(s) = atoi(s) /\ atoi(s) > 0
  BY <1>1, <1>5
<1>9. QED
  BY <1>2, <1>4, <1>6, <1>7, <1>8
-----------------------------------------------------------------------------
(* Scanning.                                                               *)

LEMMA SkipBlanksProperties ==
    ASSUME NEW line, Len(line) \in Nat, NEW i \in 1 .. Len(line) + 1
    PROVE  /\ SkipBlanks(line, i) \in i .. Len(line) + 1
           /\ \A q \in i .. SkipBlanks(line, i) - 1 : line[q] \in Blanks
           /\ SkipBlanks(line, i) <= Len(line) => line[SkipBlanks(line, i)] \notin Blanks
<1> DEFINE Stops == {p \in i .. Len(line) + 1 : p > Len(line) \/ line[p] \notin Blanks}
           m == Min(Stops)
<1>1. Len(line) + 1 \in Stops /\ Stops \subseteq Nat
  OBVIOUS
<1>2. \E x \in Stops : \A y \in Stops : x =< y
  BY <1>1, HasMin
<1>3. m \in Stops /\ \A y \in Stops : m =< y
  BY <1>2 DEF Min
<1>4. SkipBlanks(line, i) = m
  BY DEF SkipBlanks
<1> HIDE DEF m
<1>5. ASSUME NEW q \in i .. m - 1 PROVE line[q] \in Blanks
  <2>1. q \in i .. Len(line) + 1 /\ ~(m =< q)
    BY <1>3
  <2>2. q \notin Stops
    BY <1>3, <2>1
  <2>3. QED
    BY <2>1, <2>2
<1>6. QED
  BY <1>3, <1>4, <1>5

LEMMA WordEndProperties ==
    ASSUME NEW line, Len(line) \in Nat, NEW i \in 1 .. Len(line) + 1
    PROVE  /\ WordEnd(line, i) \in i .. Len(line) + 1
           /\ \A q \in i .. WordEnd(line, i) - 1 : line[q] \notin Blanks
           /\ WordEnd(line, i) <= Len(line) => line[WordEnd(line, i)] \in Blanks
<1> DEFINE Stops == {p \in i .. Len(line) + 1 : p > Len(line) \/ line[p] \in Blanks}
           m == Min(Stops)
<1>1. Len(line) + 1 \in Stops /\ Stops \subseteq Nat
  OBVIOUS
<1>2. \E x \in Stops : \A y \in Stops : x =< y
  BY <1>1, HasMin
<1>3. m \in Stops /\ \A y \in Stops : m =< y
  BY <1>2 DEF Min
<1>4. WordEnd(line, i) = m
  BY DEF WordEnd
<1> HIDE DEF m
<1>5. ASSUME NEW q \in i .. m - 1 PROVE line[q] \notin Blanks
  <2>1. q \in i .. Len(line) + 1 /\ ~(m =< q)
    BY <1>3
  <2>2. q \notin Stops
    BY <1>3, <2>1
  <2>3. QED
    BY <2>1, <2>2
<1>6. QED
  BY <1>3, <1>4, <1>5

\* Where a scan ends is the only place with these properties.
LEMMA SkipBlanksIs ==
    ASSUME NEW line, Len(line) \in Nat, NEW i \in 1 .. Len(line) + 1,
           NEW p \in i .. Len(line) + 1, \A q \in i .. p - 1 : line[q] \in Blanks,
           p <= Len(line) => line[p] \notin Blanks
    PROVE  SkipBlanks(line, i) = p
<1> DEFINE r == SkipBlanks(line, i)
<1>1. /\ r \in i .. Len(line) + 1
      /\ \A q \in i .. r - 1 : line[q] \in Blanks
      /\ r <= Len(line) => line[r] \notin Blanks
  BY SkipBlanksProperties
<1> HIDE DEF r
<1>2. ~(r < p)
  <2>1. r < p => r \in i .. p - 1 /\ r <= Len(line)
    BY <1>1
  <2>2. QED
    BY <1>1, <2>1
<1>3. ~(p < r)
  <2>1. p < r => p \in i .. r - 1 /\ p <= Len(line)
    BY <1>1
  <2>2. QED
    BY <1>1, <2>1
<1>4. r = p
  BY <1>1, <1>2, <1>3
<1>5. QED
  BY <1>4 DEF r

LEMMA WordEndIs ==
    ASSUME NEW line, Len(line) \in Nat, NEW i \in 1 .. Len(line) + 1,
           NEW p \in i .. Len(line) + 1, \A q \in i .. p - 1 : line[q] \notin Blanks,
           p <= Len(line) => line[p] \in Blanks
    PROVE  WordEnd(line, i) = p
<1> DEFINE r == WordEnd(line, i)
<1>1. /\ r \in i .. Len(line) + 1
      /\ \A q \in i .. r - 1 : line[q] \notin Blanks
      /\ r <= Len(line) => line[r] \in Blanks
  BY WordEndProperties
<1> HIDE DEF r
<1>2. ~(r < p)
  <2>1. r < p => r \in i .. p - 1 /\ r <= Len(line)
    BY <1>1
  <2>2. QED
    BY <1>1, <2>1
<1>3. ~(p < r)
  <2>1. p < r => p \in i .. r - 1 /\ p <= Len(line)
    BY <1>1
  <2>2. QED
    BY <1>1, <2>1
<1>4. r = p
  BY <1>1, <1>2, <1>3
<1>5. QED
  BY <1>4 DEF r

\* A word has at least one character.
LEMMA WordAdvances ==
    ASSUME NEW line, Len(line) \in Nat, NEW i \in 1 .. Len(line), line[i] \notin Blanks
    PROVE  WordEnd(line, i) \in i + 1 .. Len(line) + 1
<1>1. /\ WordEnd(line, i) \in i .. Len(line) + 1
      /\ WordEnd(line, i) <= Len(line) => line[WordEnd(line, i)] \in Blanks
  BY WordEndProperties
<1>2. WordEnd(line, i) # i
  BY <1>1
<1>3. QED
  BY <1>1, <1>2
-----------------------------------------------------------------------------
(* The parameters.                                                         *)

\* What the loop makes of the line from i on, given what f makes of it later.
Rest(f, line, i) ==
    LET p == SkipBlanks(line, i) IN
    CASE p > Len(line)     -> <<>>
      [] p <= Len(line) /\ Trailing(line, p) -> <<SubSeq(line, p + 1, Len(line))>>
      [] OTHER             -> <<Word(line, p)>> \o f[WordEnd(line, p)]

\* The three cases of it.
LEMMA RestAtEnd ==
    ASSUME NEW f, NEW line, NEW i, SkipBlanks(line, i) > Len(line),
           ~(SkipBlanks(line, i) <= Len(line))
    PROVE  Rest(f, line, i) = <<>>
BY DEF Rest

LEMMA RestTrailing ==
    ASSUME NEW f, NEW line, NEW i, ~(SkipBlanks(line, i) > Len(line)),
           SkipBlanks(line, i) <= Len(line), line[SkipBlanks(line, i)] = ":"
    PROVE  Rest(f, line, i) = <<SubSeq(line, SkipBlanks(line, i) + 1, Len(line))>>
BY DEF Rest, Trailing

LEMMA RestWord ==
    ASSUME NEW f, NEW line, NEW i, ~(SkipBlanks(line, i) > Len(line)),
           line[SkipBlanks(line, i)] # ":"
    PROVE  Rest(f, line, i) =
             <<Word(line, SkipBlanks(line, i))>> \o f[WordEnd(line, SkipBlanks(line, i))]
BY DEF Rest, Trailing

\* It depends on what comes later only.
LEMMA RestLooksAhead ==
    ASSUME NEW line, Len(line) \in Nat, NEW i \in 1 .. Len(line) + 1, NEW f, NEW g,
           \A j \in i + 1 .. Len(line) + 1 : f[j] = g[j]
    PROVE  Rest(f, line, i) = Rest(g, line, i)
<1> DEFINE p == SkipBlanks(line, i)
<1>1. p \in i .. Len(line) + 1 /\ (p <= Len(line) => line[p] \notin Blanks)
  BY SkipBlanksProperties
<1>2. CASE p > Len(line)
  <2>1. ~(p <= Len(line))
    BY <1>1, <1>2
  <2>2. QED
    BY <1>2, <2>1, RestAtEnd
<1>3. CASE ~(p > Len(line)) /\ line[p] = ":"
  <2>1. p <= Len(line)
    BY <1>1, <1>3
  <2>2. QED
    BY <1>3, <2>1, RestTrailing
<1>4. CASE ~(p > Len(line)) /\ line[p] # ":"
  <2>1. p \in 1 .. Len(line) /\ line[p] \notin Blanks
    BY <1>1, <1>4
  <2>2. WordEnd(line, p) \in i + 1 .. Len(line) + 1
    BY <1>1, <2>1, WordAdvances
  <2>3. f[WordEnd(line, p)] = g[WordEnd(line, p)]
    BY <2>2
  <2>4. QED
    BY <1>4, <2>3, RestWord
<1>5. QED
  BY <1>2, <1>3, <1>4

\* f is what the loop makes of the line, from the i-th position on.
Afters(f, line, i) == f = [j \in i .. Len(line) + 1 |-> Rest(f, line, j)]

LEMMA AftersExist ==
    ASSUME NEW line, Len(line) \in Nat, NEW i \in 1 .. Len(line) + 1
    PROVE  \E f : Afters(f, line, i)
<1> DEFINE N == Len(line) + 1
           None == {k \in 0 .. Len(line) : ~ \E f : Afters(f, line, N - k)}
<1>1. ASSUME None # {} PROVE FALSE
  <2>1. None \subseteq Nat
    OBVIOUS
  <2>2. PICK k \in None : \A j \in None : k <= j
    BY <1>1, <2>1, HasMin
  <2> DEFINE n == N - k
  <2>3. n \in 1 .. N /\ n + 1 \in Nat /\ ~ \E f : Afters(f, line, n)
    OBVIOUS
  <2>4. \E f : \A j \in n + 1 .. N : f[j] = Rest(f, line, j)
    <3>1. CASE n = N
      <4>1. n + 1 .. N = {}
        BY <3>1
      <4>2. QED
        BY <4>1
    <3>2. CASE n # N
      <4>1. k - 1 \in 0 .. Len(line) /\ ~(k <= k - 1) /\ N - (k - 1) = n + 1
        BY <2>3, <3>2
      <4>2. PICK f : Afters(f, line, n + 1)
        BY <2>2, <4>1
      <4>3. \A j \in n + 1 .. N : f[j] = Rest(f, line, j)
        BY <4>2 DEF Afters
      <4>4. QED
        BY <4>3
    <3>3. QED
      BY <3>1, <3>2
  <2>5. PICK f : \A j \in n + 1 .. N : f[j] = Rest(f, line, j)
    BY <2>4
  <2> DEFINE g == [j \in n .. N |-> Rest(f, line, j)]
  <2>6. \A j \in n + 1 .. N : g[j] = f[j]
    BY <2>3, <2>5
  <2>7. ASSUME NEW j \in n .. N PROVE Rest(g, line, j) = Rest(f, line, j)
    <3>1. j \in 1 .. Len(line) + 1 /\ \A l \in j + 1 .. Len(line) + 1 : g[l] = f[l]
      <4>1. j \in 1 .. Len(line) + 1
        BY <2>3
      <4>2. ASSUME NEW l \in j + 1 .. Len(line) + 1 PROVE l \in n + 1 .. N
        BY <2>3
      <4> HIDE DEF g
      <4>3. QED
        BY <2>6, <4>1, <4>2
    <3> HIDE DEF g
    <3>2. QED
      BY <3>1, RestLooksAhead
  <2>8. g = [j \in n .. N |-> Rest(g, line, j)]
    BY <2>7
  <2>9. Afters(g, line, n)
    BY <2>8 DEF Afters
  <2>10. QED
    BY <2>3, <2>9
<1>2. Len(line) + 1 - i \in 0 .. Len(line) /\ N - (Len(line) + 1 - i) = i
  OBVIOUS
<1>3. QED
  BY <1>1, <1>2

LEMMA ParamsFromRest ==
    ASSUME NEW line, Len(line) \in Nat, NEW i \in 1 .. Len(line) + 1
    PROVE  ParamsFrom(line)[i] = Rest(ParamsFrom(line), line, i)
<1>1. \E f : Afters(f, line, 1)
  BY AftersExist
<1> DEFINE after == CHOOSE f : Afters(f, line, 1)
<1>2. Afters(after, line, 1)
  BY <1>1
<1>3. ParamsFrom(line) = after
  BY DEF ParamsFrom, Afters, Rest
<1> HIDE DEF after
<1>4. after[i] = Rest(after, line, i)
  BY <1>2 DEF Afters
<1>5. QED
  BY <1>3, <1>4

\* From i on there are blanks, and then
\* the word from p to e,
LEMMA TakesWord ==
    ASSUME NEW line, Len(line) \in Nat, NEW i \in 1 .. Len(line) + 1,
           NEW p \in i .. Len(line), NEW e \in p + 1 .. Len(line) + 1,
           \A q \in i .. p - 1 : line[q] \in Blanks,
           \A q \in p .. e - 1 : line[q] \notin Blanks,
           e <= Len(line) => line[e] \in Blanks, line[p] # ":"
    PROVE  ParamsFrom(line)[i] = <<SubSeq(line, p, e - 1)>> \o ParamsFrom(line)[e]
<1>1. SkipBlanks(line, i) = p
  <2>1. p \in i .. Len(line) + 1 /\ line[p] \notin Blanks
    OBVIOUS
  <2>2. QED
    BY <2>1, SkipBlanksIs
<1>2. WordEnd(line, p) = e
  <2>1. p \in 1 .. Len(line) + 1 /\ e \in p .. Len(line) + 1
    OBVIOUS
  <2>2. QED
    BY <2>1, WordEndIs
<1>3. ~(p > Len(line))
  OBVIOUS
<1>4. QED
  BY <1>1, <1>2, <1>3, ParamsFromRest, RestWord DEF Word

\* or a colon at p,
LEMMA TakesTrailing ==
    ASSUME NEW line, Len(line) \in Nat, NEW i \in 1 .. Len(line) + 1,
           NEW p \in i .. Len(line),
           \A q \in i .. p - 1 : line[q] \in Blanks, line[p] = ":"
    PROVE  ParamsFrom(line)[i] = <<SubSeq(line, p + 1, Len(line))>>
<1>1. SkipBlanks(line, i) = p
  <2>1. p \in i .. Len(line) + 1 /\ line[p] \notin Blanks
    <3>1. ":" \notin Blanks
      BY DEF Blanks
    <3>2. QED
      BY <3>1
  <2>2. p <= Len(line) => line[p] \notin Blanks
    BY <2>1
  <2>3. QED
    BY <2>1, <2>2, SkipBlanksIs
<1>2. ~(p > Len(line)) /\ p <= Len(line)
  OBVIOUS
<1>3. QED
  BY <1>1, <1>2, ParamsFromRest, RestTrailing

\* or nothing.
LEMMA TakesNothing ==
    ASSUME NEW line, Len(line) \in Nat, NEW i \in 1 .. Len(line) + 1,
           \A q \in i .. Len(line) : line[q] \in Blanks
    PROVE  ParamsFrom(line)[i] = <<>>
<1>1. SkipBlanks(line, i) = Len(line) + 1
  <2>1. /\ Len(line) + 1 \in i .. Len(line) + 1 /\ Len(line) + 1 - 1 = Len(line)
        /\ ~(Len(line) + 1 <= Len(line))
    OBVIOUS
  <2>2. QED
    BY <2>1, SkipBlanksIs
<1>2. Len(line) + 1 > Len(line) /\ ~(Len(line) + 1 <= Len(line))
  OBVIOUS
<1>3. QED
  BY <1>1, <1>2, ParamsFromRest, RestAtEnd

LEMMA OneByte ==
    ASSUME NEW S, NEW s \in Seq(S), NEW i \in 1 .. Len(s)
    PROVE  SubSeq(s, i, i) = <<s[i]>>
<1> DEFINE u == SubSeq(s, i, i)
           v == <<s[i]>>
<1>1. i \in Nat \ {0} /\ i \in Int /\ i <= Len(s) /\ s[i] \in S /\ i - i + 1 = 1 /\ 1 + i - 1 = i
  BY ElementOfSeq
<1>2. u \in Seq(S) /\ Len(u) = 1 /\ u[1] = s[i]
  BY <1>1, Piece
<1>3. v \in Seq(S) /\ Len(v) = 1 /\ v[1] = s[i]
  BY <1>1
<1> HIDE DEF u, v
<1>4. u = v
  BY <1>2, <1>3, SeqEqual
<1>5. QED
  BY <1>4 DEF u, v

LEMMA PairOf ==
    ASSUME NEW x, NEW y
    PROVE  <<x>> \o <<y>> = <<x, y>> /\ <<x>> \o (<<y>> \o <<>>) = <<x, y>>
<1> DEFINE S == {x, y}
           u == <<x>>
           v == <<y>>
           w == <<x, y>>
<1>1. /\ u \in Seq(S) /\ Len(u) = 1 /\ u[1] = x
      /\ v \in Seq(S) /\ Len(v) = 1 /\ v[1] = y
      /\ w \in Seq(S) /\ Len(w) = 2 /\ w[1] = x /\ w[2] = y
  OBVIOUS
<1>2. v \o <<>> = v
  BY <1>1, ConcatEmptySeq
<1> HIDE DEF S, u, v, w
<1>3. /\ u \o v \in Seq(S) /\ Len(u \o v) = 2
      /\ (u \o v)[1] = x /\ (u \o v)[2] = y
  BY <1>1, ConcatProperties
<1>4. \A i \in 1 .. Len(u \o v) : (u \o v)[i] = w[i]
  BY <1>1, <1>3
<1>5. u \o v = w
  BY <1>1, <1>3, <1>4, SeqEqual
<1>6. QED
  BY <1>2, <1>5, Zenon DEF u, v, w

\* What can be named in the middle of a line.
IsWord(w) == w # <<>> /\ (\A i \in DOMAIN w : w[i] \notin Blanks) /\ w[1] # ":"

LEMMA WordNamed ==
    ASSUME NEW C, NEW w \in Seq(C), IsWord(w)
    PROVE  MiddleParams(w) = <<w, <<"a">>>>
<1> DEFINE S == C \cup {"a", " "}
           front == <<"a", " ">>
           back == <<" ", "a">>
           line == Between(front, w, back)
           n == Len(w)
<1>1. /\ front \in Seq(S) /\ Len(front) = 2 /\ front[1] = "a" /\ front[2] = " "
      /\ back \in Seq(S) /\ Len(back) = 2 /\ back[1] = " " /\ back[2] = "a"
  OBVIOUS
<1>2. /\ w \in Seq(S) /\ n \in Nat \ {0}
      /\ \A i \in 1 .. n : w[i] \notin Blanks
      /\ w[1] # ":"
  <2>1. DOMAIN w = 1 .. n /\ n \in Nat /\ n # 0
    BY EmptySeq DEF IsWord
  <2>2. C \subseteq S
    OBVIOUS
  <2> HIDE DEF S
  <2>3. w \in Seq(S)
    BY <2>2
  <2>4. QED
    BY <2>1, <2>3 DEF IsWord
<1>3. /\ line \in Seq(S) /\ Len(line) = Len(front) + n + Len(back)
      /\ \A i \in 1 .. Len(front) : line[i] = front[i]
      /\ \A i \in 1 .. n : line[Len(front) + i] = w[i]
      /\ \A i \in 1 .. Len(back) : line[Len(front) + n + i] = back[i]
      /\ SubSeq(line, Len(front) + 1, Len(front) + n) = w
  <2> HIDE DEF S, front, back, line, n
  <2>1. front \in Seq(S) /\ w \in Seq(S) /\ back \in Seq(S)
    BY <1>1, <1>2
  <2>2. IsBetween(S, Between(front, w, back), front, w, back)
    BY <2>1, BetweenProperties
  <2>3. QED
    BY <2>2, Zenon DEF IsBetween, line, n
<1>4. MiddleParams(w) = ParamsFrom(line)[WordEnd(line, CommandStart(line))]
  BY DEF MiddleParams, parse, Between
<1> HIDE DEF S, front, back, line, n
<1>5. /\ Len(line) = n + 4 /\ Len(line) \in Nat
      /\ line[1] = "a" /\ line[2] = " "
      /\ line[n + 3] = " " /\ line[n + 4] = "a"
      /\ SubSeq(line, 3, n + 2) = w
  <2>1. Len(front) = 2 /\ Len(back) = 2 /\ n \in Nat
    BY <1>1, <1>2
  <2>2. 2 + n + 2 = n + 4 /\ 2 + 1 = 3 /\ 2 + n = n + 2 /\ 2 + n + 1 = n + 3 /\ n + 4 \in Nat
    BY <2>1
  <2>3. 1 \in 1 .. 2 /\ 2 \in 1 .. 2
    OBVIOUS
  <2>4. line[2 + n + 1] = back[1] /\ line[2 + n + 2] = back[2]
    BY <1>3, <2>1, <2>3, Zenon
  <2>5. line[1] = front[1] /\ line[2] = front[2]
    BY <1>3, <2>1, <2>3, Zenon
  <2>6. Len(line) = n + 4 /\ SubSeq(line, 3, n + 2) = w
    BY <1>3, <2>1, <2>2, Zenon
  <2>7. QED
    BY <1>1, <2>2, <2>4, <2>5, <2>6, Zenon
<1>6. n \in Nat \ {0} /\ Len(line) \in Nat /\ Len(line) = n + 4
  BY <1>2, <1>5
<1>6a. line \in Seq(S)
  BY <1>3
<1>7. ASSUME NEW q \in 1 .. n PROVE line[q + 2] \notin Blanks /\ line[q + 2] = w[q]
  <2>1. Len(front) = 2 /\ 2 + q = q + 2
    <3>1. Len(front) = 2
      BY <1>1, Zenon
    <3>2. QED
      BY <1>6, <3>1
  <2>2. line[q + 2] = w[q]
    BY <1>3, <2>1, Zenon
  <2>3. QED
    BY <1>2, <2>2
<1>8. "a" \notin Blanks /\ " " \in Blanks /\ "a" # ":"
  BY DEF Blanks
<1>9. /\ line[1] \notin Blanks /\ line[2] \in Blanks /\ line[n + 3] \in Blanks
      /\ line[n + 4] \notin Blanks /\ line[1] # ":" /\ line[n + 4] # ":"
  BY <1>5, <1>8
<1>10. CommandStart(line) = 1
  <2>1. /\ 1 \in 1 .. Len(line) + 1 /\ \A q \in 1 .. 1 - 1 : line[q] \in Blanks
        /\ (1 <= Len(line) => line[1] \notin Blanks)
    <3>1. 1 \in 1 .. Len(line) + 1 /\ 1 .. 1 - 1 = {}
      BY <1>6
    <3>2. QED
      BY <1>9, <3>1
  <2>2. SkipBlanks(line, 1) = 1
    BY <1>6, <2>1, SkipBlanksIs
  <2>3. QED
    BY <1>9, <2>2 DEF CommandStart
<1>11. WordEnd(line, 1) = 2
  <2>1. /\ 1 \in 1 .. Len(line) + 1 /\ 2 \in 1 .. Len(line) + 1
        /\ \A q \in 1 .. 2 - 1 : q = 1
    BY <1>6
  <2>2. \A q \in 1 .. 2 - 1 : line[q] \notin Blanks
    BY <1>9, <2>1
  <2>3. 2 <= Len(line) => line[2] \in Blanks
    BY <1>9
  <2>4. QED
    BY <1>6, <2>1, <2>2, <2>3, WordEndIs
<1>12. ParamsFrom(line)[2] = <<w>> \o ParamsFrom(line)[n + 3]
  <2>1. /\ 2 \in 1 .. Len(line) + 1 /\ 3 \in 2 .. Len(line) /\ n + 3 \in 3 + 1 .. Len(line) + 1
        /\ (n + 3) - 1 = n + 2 /\ \A q \in 2 .. 3 - 1 : q = 2
    BY <1>6
  <2>2. \A q \in 2 .. 3 - 1 : line[q] \in Blanks
    BY <1>9, <2>1
  <2>3. ASSUME NEW q \in 3 .. (n + 3) - 1 PROVE line[q] \notin Blanks
    <3>1. q - 2 \in 1 .. n /\ (q - 2) + 2 = q
      BY <1>6
    <3>2. QED
      BY <1>7, <3>1
  <2>4. n + 3 <= Len(line) => line[n + 3] \in Blanks
    BY <1>9
  <2>5. line[3] # ":"
    <3>1. 1 \in 1 .. n /\ 1 + 2 = 3
      BY <1>6
    <3>2. line[3] = w[1]
      BY <1>7, <3>1
    <3>3. QED
      BY <1>2, <3>2
  <2>6. ParamsFrom(line)[2] = <<SubSeq(line, 3, (n + 3) - 1)>> \o ParamsFrom(line)[n + 3]
    BY <1>6, <2>1, <2>2, <2>3, <2>4, <2>5, TakesWord
  <2>7. QED
    BY <1>5, <2>1, <2>6
<1>13. ParamsFrom(line)[n + 3] = <<<<"a">>>> \o ParamsFrom(line)[n + 5]
  <2>1. /\ n + 3 \in 1 .. Len(line) + 1 /\ n + 4 \in n + 3 .. Len(line)
        /\ n + 5 \in (n + 4) + 1 .. Len(line) + 1 /\ n + 4 \in 1 .. Len(line)
        /\ (n + 5) - 1 = n + 4 /\ \A q \in n + 3 .. (n + 4) - 1 : q = n + 3
        /\ \A q \in n + 4 .. (n + 5) - 1 : q = n + 4
        /\ ~(n + 5 <= Len(line))
    BY <1>6
  <2>2. \A q \in n + 3 .. (n + 4) - 1 : line[q] \in Blanks
    BY <1>9, <2>1
  <2>3. \A q \in n + 4 .. (n + 5) - 1 : line[q] \notin Blanks
    BY <1>9, <2>1
  <2>4. n + 5 <= Len(line) => line[n + 5] \in Blanks
    BY <2>1
  <2>5. ParamsFrom(line)[n + 3] = <<SubSeq(line, n + 4, (n + 5) - 1)>> \o ParamsFrom(line)[n + 5]
    <3>1. /\ n + 3 \in 1 .. Len(line) + 1 /\ n + 4 \in n + 3 .. Len(line)
          /\ n + 5 \in (n + 4) + 1 .. Len(line) + 1
          /\ Len(line) \in Nat /\ line[n + 4] # ":"
      BY <1>6, <1>9, <2>1
    <3>2. QED
      BY <3>1, <2>2, <2>3, <2>4, TakesWord
  <2>6. SubSeq(line, n + 4, n + 4) = <<line[n + 4]>>
    <3>1. line \in Seq(S) /\ n + 4 \in 1 .. Len(line)
      BY <1>6a, <2>1
    <3>2. QED
      BY <3>1, OneByte
  <2>7. QED
    BY <1>5, <2>1, <2>5, <2>6
<1>14. ParamsFrom(line)[n + 5] = <<>>
  <2>1. n + 5 \in 1 .. Len(line) + 1 /\ n + 5 .. Len(line) = {}
    BY <1>6
  <2>2. QED
    BY <1>6, <2>1, TakesNothing
<1>15. MiddleParams(w) = <<w>> \o (<<<<"a">>>> \o <<>>)
  BY <1>4, <1>10, <1>11, <1>12, <1>13, <1>14
<1>16. QED
  BY <1>15, PairOf

LEMMA NicknameIsWord ==
    ASSUME NEW C, NEW s \in Seq(C), checkNickValid(s)
    PROVE  IsWord(s) /\ s[1] # "#"
<1>1. Len(s) \in Nat \ {0} /\ DOMAIN s = 1 .. Len(s)
  BY DEF checkNickValid
<1>2. s # <<>>
  BY <1>1, EmptySeq
<1>3. \A c \in Letters \cup Digits \cup Special \cup {"-"} : c \notin Blanks /\ c # ":" /\ c # "#"
  <2>1. \A c \in Letters \cup Digits \cup Special : c \notin {" ", "\t", ":", "#"}
    BY CharacterAssumption
  <2>2. "-" # " " /\ "-" # "\t" /\ "-" # ":" /\ "-" # "#"
    OBVIOUS
  <2>3. QED
    BY <2>1, <2>2, Zenon DEF Blanks
<1>4. s[1] \in Letters \cup Digits \cup Special \cup {"-"}
  BY DEF checkNickValid
<1>5. ASSUME NEW i \in 1 .. Len(s) PROVE s[i] \notin Blanks
  <2>1. CASE i = 1
    BY <1>3, <1>4, <2>1
  <2>2. CASE i # 1
    <3>1. i \in 2 .. Len(s)
      BY <1>1, <2>2
    <3>2. s[i] \in Letters \cup Digits \cup Special \cup {"-"}
      BY <3>1 DEF checkNickValid
    <3>3. QED
      BY <1>3, <3>2
  <2>3. QED
    BY <2>1, <2>2
<1>6. QED
  BY <1>1, <1>2, <1>3, <1>4, <1>5 DEF IsWord

LEMMA ChannelNameIsWord ==
    ASSUME NEW C, NEW s \in Seq(C), validChannelName(s), \A i \in DOMAIN s : s[i] # "\t"
    PROVE  IsWord(s) /\ s[1] = "#"
<1>1. Len(s) \in Nat \ {0} /\ DOMAIN s = 1 .. Len(s) /\ s[1] = "#"
  <2>1. Len(s) >= 2 /\ s[1] = "#"
    BY DEF validChannelName
  <2>2. QED
    BY <2>1
<1>2. s # <<>>
  BY <1>1, EmptySeq
<1>3. s[1] \notin Blanks /\ s[1] # ":"
  BY <1>1 DEF Blanks
<1>4. ASSUME NEW i \in 1 .. Len(s) PROVE s[i] \notin Blanks
  <2>1. CASE i = 1
    BY <1>3, <2>1
  <2>2. CASE i # 1
    <3>1. i \in 2 .. Len(s)
      BY <1>1, <2>2
    <3>2. s[i] \notin {" ", ",", ":", "\r", "\n"}
      BY <3>1 DEF validChannelName
    <3>3. s[i] # "\t"
      BY <1>1
    <3>4. QED
      BY <3>2, <3>3 DEF Blanks
  <2>3. QED
    BY <2>1, <2>2
<1>5. QED
  BY <1>1, <1>2, <1>3, <1>4 DEF IsWord

\* The same three cases for any line.
LEMMA LoopCases ==
    ASSUME NEW line, Len(line) \in Nat, NEW i \in 1 .. Len(line) + 1
    PROVE  \/ ParamsFrom(line)[i] = <<>>
           \/ \E p \in i .. Len(line) :
                ParamsFrom(line)[i] = <<SubSeq(line, p + 1, Len(line))>>
           \/ \E p \in i .. Len(line) : \E e \in p + 1 .. Len(line) + 1 :
                /\ line[p] # ":"
                /\ \A q \in p .. e - 1 : line[q] \notin Blanks
                /\ ParamsFrom(line)[i] = <<SubSeq(line, p, e - 1)>> \o ParamsFrom(line)[e]
<1> DEFINE p == SkipBlanks(line, i)
           e == WordEnd(line, p)
<1>1. p \in i .. Len(line) + 1 /\ (p <= Len(line) => line[p] \notin Blanks)
  BY SkipBlanksProperties
<1> HIDE DEF p
<1>2. ParamsFrom(line)[i] = Rest(ParamsFrom(line), line, i)
  BY ParamsFromRest
<1>3. CASE p > Len(line)
  <2>1. ~(p <= Len(line))
    BY <1>1, <1>3
  <2>2. QED
    BY <1>2, <1>3, <2>1, RestAtEnd DEF p
<1>4. CASE p <= Len(line) /\ line[p] = ":"
  <2>1. ~(p > Len(line)) /\ p \in i .. Len(line)
    BY <1>1, <1>4
  <2>2. ParamsFrom(line)[i] = <<SubSeq(line, p + 1, Len(line))>>
    BY <1>2, <1>4, <2>1, RestTrailing DEF p
  <2>3. QED
    BY <2>1, <2>2
<1>5. CASE p <= Len(line) /\ line[p] # ":"
  <2>1. ~(p > Len(line)) /\ p \in i .. Len(line) /\ p \in 1 .. Len(line) + 1
        /\ p \in 1 .. Len(line) /\ line[p] \notin Blanks
    BY <1>1, <1>5
  <2>2. e \in p + 1 .. Len(line) + 1
    BY <2>1, WordAdvances
  <2>3. \A q \in p .. e - 1 : line[q] \notin Blanks
    BY <2>1, WordEndProperties
  <2>4. ParamsFrom(line)[i] = <<SubSeq(line, p, e - 1)>> \o ParamsFrom(line)[e]
    BY <1>2, <1>5, <2>1, RestWord DEF p, Word
  <2> HIDE DEF e
  <2>5. QED
    BY <1>5, <2>1, <2>2, <2>3, <2>4
<1>6. p > Len(line) \/ p <= Len(line)
  BY <1>1
<1>7. QED
  BY <1>3, <1>4, <1>5, <1>6, Zenon

\* Every parameter is a piece of the line.
LEMMA ParamsTyped ==
    ASSUME NEW C, NEW line \in Seq(C), NEW i \in 1 .. Len(line) + 1
    PROVE  ParamsFrom(line)[i] \in Seq(Seq(C))
<1> DEFINE N == Len(line) + 1
           Bad == {k \in 0 .. Len(line) : ParamsFrom(line)[N - k] \notin Seq(Seq(C))}
<1>1. Len(line) \in Nat
  OBVIOUS
<1>2. ASSUME Bad # {} PROVE FALSE
  <2>1. Bad \subseteq Nat
    BY <1>1
  <2>2. PICK k \in Bad : \A j \in Bad : k <= j
    BY <1>2, <2>1, HasMin
  <2> DEFINE n == N - k
  <2>3. k \in 0 .. Len(line) /\ ParamsFrom(line)[n] \notin Seq(Seq(C))
    OBVIOUS
  <2>4. n \in 1 .. N
    BY <1>1, <2>3
  <2>5. ASSUME NEW e \in n + 1 .. N PROVE ParamsFrom(line)[e] \in Seq(Seq(C))
    <3>1. N - e \in 0 .. Len(line) /\ ~(k <= N - e) /\ N - (N - e) = e
      BY <1>1, <2>3
    <3>2. N - e \notin Bad
      BY <2>2, <3>1
    <3>3. ParamsFrom(line)[N - (N - e)] \in Seq(Seq(C))
      BY <3>1, <3>2
    <3>4. QED
      BY <3>1, <3>3
  <2> HIDE DEF Bad, n
  <2>6. CASE ParamsFrom(line)[n] = <<>>
    BY <2>3, <2>6
  <2>7. ASSUME NEW p \in n .. Len(line),
               ParamsFrom(line)[n] = <<SubSeq(line, p + 1, Len(line))>>
        PROVE  FALSE
    <3>1. p + 1 \in Nat \ {0} /\ Len(line) \in Int /\ Len(line) <= Len(line)
      BY <1>1, <2>4
    <3>2. SubSeq(line, p + 1, Len(line)) \in Seq(C)
      BY <3>1, Piece
    <3>3. QED
      BY <2>3, <2>7, <3>2
  <2>8. ASSUME NEW p \in n .. Len(line), NEW e \in p + 1 .. Len(line) + 1,
               ParamsFrom(line)[n] = <<SubSeq(line, p, e - 1)>> \o ParamsFrom(line)[e]
        PROVE  FALSE
    <3>1. /\ p \in Nat \ {0} /\ e - 1 \in Int /\ e - 1 <= Len(line) /\ e \in n + 1 .. N
      BY <1>1, <2>4
    <3>2. SubSeq(line, p, e - 1) \in Seq(C)
      BY <3>1, Piece
    <3>3. <<SubSeq(line, p, e - 1)>> \in Seq(Seq(C))
      BY <3>2
    <3>4. ParamsFrom(line)[e] \in Seq(Seq(C))
      BY <2>5, <3>1
    <3>5. <<SubSeq(line, p, e - 1)>> \o ParamsFrom(line)[e] \in Seq(Seq(C))
      BY <3>3, <3>4, ConcatProperties
    <3>6. QED
      BY <2>3, <2>8, <3>5, Zenon
  <2>9. QED
    BY <1>1, <2>4, <2>6, <2>7, <2>8, LoopCases
<1>3. Len(line) + 1 - i \in 0 .. Len(line) /\ N - (Len(line) + 1 - i) = i
  BY <1>1
<1>4. QED
  BY <1>2, <1>3

LEMMA PieceIsWord ==
    ASSUME NEW C, NEW line \in Seq(C), NEW p \in 1 .. Len(line),
           NEW e \in p + 1 .. Len(line) + 1,
           \A q \in p .. e - 1 : line[q] \notin Blanks, line[p] # ":"
    PROVE  SubSeq(line, p, e - 1) \in Seq(C) /\ IsWord(SubSeq(line, p, e - 1))
<1> DEFINE w == SubSeq(line, p, e - 1)
<1>1. /\ p \in Nat \ {0} /\ e - 1 \in Int /\ e - 1 <= Len(line) /\ p <= e - 1
      /\ e - 1 - p + 1 \in Nat \ {0}
  OBVIOUS
<1>2. /\ w \in Seq(C) /\ Len(w) = e - 1 - p + 1
      /\ \A i \in 1 .. e - 1 - p + 1 : w[i] = line[i + p - 1]
  BY <1>1, Piece
<1> HIDE DEF w
<1>3. DOMAIN w = 1 .. e - 1 - p + 1
  BY <1>2
<1>4. w # <<>>
  BY <1>1, <1>2, EmptySeq
<1>5. ASSUME NEW i \in DOMAIN w PROVE w[i] \notin Blanks
  <2>1. i \in 1 .. e - 1 - p + 1
    BY <1>3
  <2>2. i + p - 1 \in p .. e - 1
    BY <1>1, <2>1
  <2>3. w[i] = line[i + p - 1]
    BY <1>2, <2>1
  <2>4. QED
    BY <2>2, <2>3
<1>6. w[1] = line[p]
  <2>1. 1 \in 1 .. e - 1 - p + 1 /\ 1 + p - 1 = p
    BY <1>1
  <2>2. QED
    BY <1>2, <2>1
<1>7. QED
  BY <1>2, <1>4, <1>5, <1>6 DEF IsWord, w

\* Of two parameters, the first is a word.
LEMMA FirstIsWord ==
    ASSUME NEW C, NEW line \in Seq(C), NEW i \in 1 .. Len(line) + 1,
           Len(ParamsFrom(line)[i]) >= 2
    PROVE  /\ ParamsFrom(line)[i] \in Seq(Seq(C))
           /\ IsWord(ParamsFrom(line)[i][1])
<1> DEFINE params == ParamsFrom(line)[i]
<1>1. params \in Seq(Seq(C)) /\ Len(line) \in Nat
  BY ParamsTyped
<1>2. params # <<>>
  BY EmptySeq
<1>3. ASSUME NEW p \in i .. Len(line), params = <<SubSeq(line, p + 1, Len(line))>>
      PROVE  FALSE
  <2>1. Len(params) = 1
    BY <1>3
  <2>2. QED
    BY <2>1
<1>4. ASSUME NEW p \in i .. Len(line), NEW e \in p + 1 .. Len(line) + 1,
             line[p] # ":", \A q \in p .. e - 1 : line[q] \notin Blanks,
             params = <<SubSeq(line, p, e - 1)>> \o ParamsFrom(line)[e]
      PROVE  IsWord(params[1])
  <2>1. p \in 1 .. Len(line) /\ e \in 1 .. Len(line) + 1
    BY <1>1
  <2> DEFINE w == SubSeq(line, p, e - 1)
             rest == ParamsFrom(line)[e]
  <2>2. w \in Seq(C) /\ IsWord(w)
    BY <1>4, <2>1, PieceIsWord
  <2>3. rest \in Seq(Seq(C))
    BY <2>1, ParamsTyped
  <2> HIDE DEF w, rest, params
  <2>4. (<<w>> \o rest)[1] = w
    <3>1. <<w>> \in Seq(Seq(C)) /\ Len(<<w>>) = 1 /\ <<w>>[1] = w
      BY <2>2
    <3>2. 1 \in 1 .. 1 + Len(rest) /\ 1 <= 1
      BY <2>3
    <3>3. (<<w>> \o rest)[1] = <<w>>[1]
      BY <2>3, <3>1, <3>2, ConcatProperties
    <3>4. QED
      BY <3>1, <3>3
  <2>5. params = <<w>> \o rest
    BY <1>4 DEF w, rest
  <2>6. QED
    BY <2>2, <2>4, <2>5, Zenon
<1>5. QED
  BY <1>1, <1>2, <1>3, <1>4, LoopCases

\* w is s and then x.
AddsOne(S, w, s, x) ==
    /\ w \in Seq(S) /\ Len(w) = Len(s) + 1
    /\ \A i \in 1 .. Len(s) : w[i] = s[i]
    /\ w[Len(s) + 1] = x

LEMMA AddOne ==
    ASSUME NEW S, NEW s \in Seq(S), NEW x \in S
    PROVE  AddsOne(S, s \o <<x>>, s, x)
<1>1. s \o <<x>> = Append(s, x)
  BY AppendIsConcat
<1>2. AddsOne(S, Append(s, x), s, x)
  BY DEF AddsOne
<1>3. QED
  BY <1>1, <1>2, Zenon

\* What stands before the target of a relayed line, c the colon and b the blank.
Opening(c, a, b) == <<c>> \o <<a>> \o <<b>> \o <<a>> \o <<b>>

LEMMA OpeningIs ==
    ASSUME NEW S, NEW c \in S, NEW a \in S, NEW b \in S
    PROVE  /\ Opening(c, a, b) \in Seq(S) /\ Len(Opening(c, a, b)) = 5
           /\ Opening(c, a, b)[1] = c /\ Opening(c, a, b)[2] = a /\ Opening(c, a, b)[3] = b
           /\ Opening(c, a, b)[4] = a /\ Opening(c, a, b)[5] = b
<1> DEFINE s1 == <<c>>
           s2 == s1 \o <<a>>
           s3 == s2 \o <<b>>
           s4 == s3 \o <<a>>
           s5 == s4 \o <<b>>
<1>1. s1 \in Seq(S) /\ Len(s1) = 1 /\ s1[1] = c
  OBVIOUS
<1> HIDE DEF s1
<1>2. s2 \in Seq(S) /\ Len(s2) = 2 /\ s2[1] = c /\ s2[2] = a
  <2>1. AddsOne(S, s2, s1, a)
    BY <1>1, AddOne
  <2> HIDE DEF s2
  <2>2. QED
    BY <1>1, <2>1 DEF AddsOne
<1> HIDE DEF s2
<1>3. s3 \in Seq(S) /\ Len(s3) = 3 /\ s3[1] = c /\ s3[2] = a /\ s3[3] = b
  <2>1. AddsOne(S, s3, s2, b)
    BY <1>2, AddOne
  <2> HIDE DEF s3
  <2>2. QED
    BY <1>2, <2>1 DEF AddsOne
<1> HIDE DEF s3
<1>4. /\ s4 \in Seq(S) /\ Len(s4) = 4
      /\ s4[1] = c /\ s4[2] = a /\ s4[3] = b /\ s4[4] = a
  <2>1. AddsOne(S, s4, s3, a)
    BY <1>3, AddOne
  <2> HIDE DEF s4
  <2>2. QED
    BY <1>3, <2>1 DEF AddsOne
<1> HIDE DEF s4
<1>5. /\ s5 \in Seq(S) /\ Len(s5) = 5
      /\ s5[1] = c /\ s5[2] = a /\ s5[3] = b /\ s5[4] = a /\ s5[5] = b
  <2>1. AddsOne(S, s5, s4, b)
    BY <1>4, AddOne
  <2> HIDE DEF s5
  <2>2. QED
    BY <1>4, <2>1 DEF AddsOne
<1>6. Opening(c, a, b) = s5
  BY Zenon DEF Opening, s1, s2, s3, s4
<1>7. QED
  BY <1>5, <1>6, Zenon

\* A line in two ways: around the target t, and before the text x.
SplitTwo(S, line, f, t, back, x) ==
    /\ line = Between(f, t, back \o x)
    /\ line = Between(Between(f, t, back), x, <<>>)
    /\ back \o x \in Seq(S)
    /\ Between(f, t, back) \in Seq(S)

LEMMA SplitTwice ==
    ASSUME NEW S, NEW f \in Seq(S), NEW t \in Seq(S), NEW back \in Seq(S), NEW x \in Seq(S)
    PROVE  SplitTwo(S, ((f \o t) \o back) \o x, f, t, back, x)
<1> DEFINE line == ((f \o t) \o back) \o x
           mid == (f \o t) \o back
<1>1. f \o t \in Seq(S) /\ back \o x \in Seq(S)
  BY ConcatProperties
<1>2. line = (f \o t) \o (back \o x)
  BY <1>1, ConcatAssociative
<1>3. line = Between(f, t, back \o x)
  BY <1>2, Zenon DEF Between
<1>4. mid \in Seq(S)
  BY <1>1, ConcatProperties
<1>5. mid = Between(f, t, back)
  BY Zenon DEF Between
<1> HIDE DEF mid
<1>6. mid \o x \in Seq(S)
  BY <1>4, ConcatProperties
<1>7. (mid \o x) \o <<>> = mid \o x
  BY <1>6, ConcatEmptySeq
<1>8. line = Between(mid, x, <<>>)
  BY <1>7, Zenon DEF Between, mid
<1>9. QED
  BY <1>1, <1>3, <1>4, <1>5, <1>8, Zenon DEF SplitTwo

IsRelayed(line, c, a, b, t, x) == line = ((Opening(c, a, b) \o t) \o <<b, c>>) \o x

LEMMA RelayedIs ==
    ASSUME NEW t, NEW x
    PROVE  IsRelayed(Relayed(<<"a">>, <<"a">>, t, x), ":", "a", " ", t, x)
BY Zenon DEF IsRelayed, Relayed, Opening

LEMMA FirstTwo ==
    ASSUME NEW S, NEW s \in Seq(S), Len(s) >= 2
    PROVE  s[1] \in S /\ s[2] \in S /\ SubSeq(s, 1, 2) = <<s[1], s[2]>>
<1> DEFINE u == SubSeq(s, 1, 2)
           v == <<s[1], s[2]>>
<1>1. /\ 1 \in Nat \ {0} /\ 2 \in Int /\ 2 <= Len(s) /\ 2 - 1 + 1 = 2 /\ 1 <= 2
      /\ 1 + 1 - 1 = 1 /\ 2 + 1 - 1 = 2 /\ s[1] \in S /\ s[2] \in S
  OBVIOUS
<1>2. /\ u \in Seq(S) /\ Len(u) = 2
      /\ \A i \in 1 .. 2 : u[i] = s[i + 1 - 1]
  BY <1>1, Piece
<1>3. u[1] = s[1] /\ u[2] = s[2]
  BY <1>1, <1>2
<1>4. v \in Seq(S) /\ Len(v) = 2 /\ v[1] = s[1] /\ v[2] = s[2]
  BY <1>1
<1> HIDE DEF u, v
<1>5. \A i \in 1 .. Len(u) : u[i] = v[i]
  BY <1>2, <1>3, <1>4
<1>6. u = v
  BY <1>2, <1>4, <1>5, SeqEqual
<1>7. QED
  BY <1>1, <1>6, Zenon DEF u, v

LEMMA TwoBytes ==
    ASSUME NEW S, NEW s \in Seq(S), Len(s) >= 2
    PROVE  Tail(SubSeq(s, 1, 2)) = <<s[2]>>
<1>1. Tail(<<s[1], s[2]>>) = <<s[2]>>
  OBVIOUS
<1>2. SubSeq(s, 1, 2) = <<s[1], s[2]>>
  BY FirstTwo
<1>3. QED
  BY <1>1, <1>2, Zenon

\* The bytes of a relayed line.
HasBytes(S, line, c, a, b, t, x) ==
    /\ line \in Seq(S) /\ Len(line) = Len(t) + 7 + Len(x)
    /\ line[1] = c /\ line[2] = a /\ line[3] = b /\ line[4] = a /\ line[5] = b
    /\ \A i \in 1 .. Len(t) : line[5 + i] = t[i]
    /\ line[Len(t) + 6] = b /\ line[Len(t) + 7] = c
    /\ SubSeq(line, 6, Len(t) + 5) = t
    /\ SubSeq(line, Len(t) + 8, Len(line)) = x

LEMMA RelayedBytes ==
    ASSUME NEW S, NEW c \in S, NEW a \in S, NEW b \in S, NEW t \in Seq(S), NEW x \in Seq(S),
           NEW line, IsRelayed(line, c, a, b, t, x)
    PROVE  HasBytes(S, line, c, a, b, t, x)
<1> DEFINE f == Opening(c, a, b)
           back == <<b, c>>
           end == back \o x
           mid == Between(f, t, back)
<1>1. /\ f \in Seq(S) /\ Len(f) = 5
      /\ f[1] = c /\ f[2] = a /\ f[3] = b /\ f[4] = a /\ f[5] = b
  BY OpeningIs
<1>2. back \in Seq(S) /\ Len(back) = 2 /\ back[1] = b /\ back[2] = c /\ <<>> \in Seq(S)
  OBVIOUS
<1>3. line = ((f \o t) \o back) \o x
  BY Zenon DEF IsRelayed
<1> HIDE DEF f, back
<1>4. /\ line = Between(f, t, end) /\ line = Between(mid, x, <<>>)
      /\ end \in Seq(S) /\ mid \in Seq(S)
  <2>1. f \in Seq(S) /\ back \in Seq(S)
    BY <1>1, <1>2
  <2>2. SplitTwo(S, ((f \o t) \o back) \o x, f, t, back, x)
    BY <2>1, SplitTwice
  <2>3. QED
    BY <1>3, <2>2, Zenon DEF SplitTwo
<1> HIDE DEF end, mid
<1>5. IsBetween(S, line, f, t, end)
  <2>1. IsBetween(S, Between(f, t, end), f, t, end)
    BY <1>1, <1>4, BetweenProperties
  <2>2. QED
    BY <1>3, <1>4, <2>1, Zenon
<1>6. IsBetween(S, line, mid, x, <<>>)
  <2>1. IsBetween(S, Between(mid, x, <<>>), mid, x, <<>>)
    BY <1>2, <1>4, BetweenProperties
  <2>2. QED
    BY <1>3, <1>4, <2>1, Zenon
<1>7. IsBetween(S, mid, f, t, back)
  BY <1>1, <1>2, BetweenProperties DEF mid
<1>8. Len(t) \in Nat /\ Len(x) \in Nat /\ Len(<<>>) = 0
  OBVIOUS
<1>9. Len(mid) = Len(t) + 7
  <2>1. Len(mid) = Len(f) + Len(t) + Len(back)
    BY <1>7, Zenon DEF IsBetween
  <2>2. QED
    BY <1>1, <1>2, <1>8, <2>1
<1>10. Len(line) = Len(t) + 7 + Len(x)
  <2>1. Len(line) = Len(mid) + Len(x) + Len(<<>>)
    BY <1>6, Zenon DEF IsBetween
  <2>2. QED
    BY <1>8, <1>9, <2>1
<1>11. line[1] = c /\ line[2] = a /\ line[3] = b /\ line[4] = a /\ line[5] = b
  <2>1. \A i \in 1 .. 5 : line[i] = f[i]
    BY <1>1, <1>5, Zenon DEF IsBetween
  <2>2. 1 \in 1 .. 5 /\ 2 \in 1 .. 5 /\ 3 \in 1 .. 5 /\ 4 \in 1 .. 5 /\ 5 \in 1 .. 5
    OBVIOUS
  <2>3. QED
    BY <1>1, <2>1, <2>2, Zenon
<1>12. \A i \in 1 .. Len(t) : line[5 + i] = t[i]
  BY <1>1, <1>5, Zenon DEF IsBetween
<1>13. line[Len(t) + 6] = b /\ line[Len(t) + 7] = c
  <2>1. /\ Len(t) + 6 \in 1 .. Len(mid) /\ Len(t) + 7 \in 1 .. Len(mid)
        /\ 5 + Len(t) + 1 = Len(t) + 6 /\ 5 + Len(t) + 2 = Len(t) + 7
        /\ 1 \in 1 .. 2 /\ 2 \in 1 .. 2
    BY <1>8, <1>9
  <2>2. line[Len(t) + 6] = mid[Len(t) + 6] /\ line[Len(t) + 7] = mid[Len(t) + 7]
    BY <1>6, <2>1, Zenon DEF IsBetween
  <2>3. \A i \in 1 .. 2 : mid[5 + Len(t) + i] = back[i]
    BY <1>1, <1>2, <1>7, Zenon DEF IsBetween
  <2>4. mid[Len(t) + 6] = back[1] /\ mid[Len(t) + 7] = back[2]
    BY <2>1, <2>3, Zenon
  <2>5. QED
    BY <1>2, <2>2, <2>4
<1>14. SubSeq(line, 6, Len(t) + 5) = t
  <2>1. SubSeq(line, 5 + 1, 5 + Len(t)) = t
    BY <1>1, <1>5, Zenon DEF IsBetween
  <2>2. 5 + 1 = 6 /\ 5 + Len(t) = Len(t) + 5
    BY <1>8
  <2>3. QED
    BY <2>1, <2>2, Zenon
<1>15. SubSeq(line, Len(t) + 8, Len(line)) = x
  <2>1. SubSeq(line, Len(mid) + 1, Len(mid) + Len(x)) = x
    BY <1>6, Zenon DEF IsBetween
  <2>2. Len(mid) + 1 = Len(t) + 8 /\ Len(mid) + Len(x) = Len(line)
    BY <1>8, <1>9, <1>10
  <2>3. QED
    BY <2>1, <2>2, Zenon
<1>16. line \in Seq(S)
  BY <1>5, Zenon DEF IsBetween
<1>17. QED
  BY <1>10, <1>11, <1>12, <1>13, <1>14, <1>15, <1>16, Zenon DEF HasBytes

\* What is read of it.
LEMMA RelayedRead ==
    ASSUME NEW C, NEW t \in Seq(C), IsWord(t), NEW x \in Seq(C),
           NEW c, NEW a, NEW b, c = ":", a \notin Blanks, a # ":", b \in Blanks,
           NEW line, IsRelayed(line, c, a, b, t, x)
    PROVE  parse(line) = [prefix |-> <<a>>, cmd |-> <<a>>, params |-> <<t, x>>]
<1> DEFINE S == C \cup {c, a, b}
           n == Len(t)
<1>1. /\ n \in Nat \ {0} /\ t[1] # ":"
      /\ \A i \in 1 .. n : t[i] \notin Blanks
  <2>1. DOMAIN t = 1 .. n /\ n \in Nat /\ n # 0
    BY EmptySeq DEF IsWord
  <2>2. QED
    BY <2>1 DEF IsWord
<1>2. c \in S /\ a \in S /\ b \in S /\ C \subseteq S
  OBVIOUS
<1> HIDE DEF S
<1>3. t \in Seq(S) /\ x \in Seq(S)
  BY <1>2, SeqWidens, Zenon
<1>4. /\ line \in Seq(S) /\ Len(line) = n + 7 + Len(x)
      /\ line[1] = c /\ line[2] = a /\ line[3] = b /\ line[4] = a /\ line[5] = b
      /\ \A i \in 1 .. n : line[5 + i] = t[i]
      /\ line[n + 6] = b /\ line[n + 7] = c
      /\ SubSeq(line, 6, n + 5) = t
      /\ SubSeq(line, n + 8, Len(line)) = x
  <2>1. HasBytes(S, line, c, a, b, t, x)
    BY <1>2, <1>3, RelayedBytes, Zenon
  <2>2. QED
    BY <2>1, Zenon DEF HasBytes, n
<1> HIDE DEF n
<1>5. Len(x) \in Nat
  OBVIOUS
<1>6. /\ n \in Nat \ {0} /\ Len(line) \in Nat /\ Len(line) >= n + 7
  <2>1. Len(line) = n + 7 + Len(x)
    BY <1>4, Zenon
  <2>2. QED
    BY <1>1, <1>5, <2>1
<1>7. /\ line[1] \notin Blanks /\ line[1] = ":" /\ line[2] \notin Blanks /\ line[3] \in Blanks
      /\ line[4] \notin Blanks /\ line[4] # ":" /\ line[5] \in Blanks
      /\ line[n + 6] \in Blanks /\ line[n + 7] = ":"
  <2>1. ":" \notin Blanks
    BY DEF Blanks
  <2>2. QED
    BY <1>4, <2>1, Zenon
<1>8. ASSUME NEW q \in 6 .. n + 5 PROVE line[q] \notin Blanks /\ (q = 6 => line[q] # ":")
  <2>1. q - 5 \in 1 .. n /\ 5 + (q - 5) = q /\ (q = 6 => q - 5 = 1)
    BY <1>6
  <2>2. line[q] = t[q - 5]
    BY <1>4, <2>1, Zenon
  <2>3. QED
    BY <1>1, <2>1, <2>2
<1>9. SkipBlanks(line, 1) = 1
  <2>1. 1 \in 1 .. Len(line) + 1 /\ 1 .. 1 - 1 = {}
    BY <1>6
  <2>2. /\ \A q \in 1 .. 1 - 1 : line[q] \in Blanks
        /\ (1 <= Len(line) => line[1] \notin Blanks)
    BY <1>7, <2>1
  <2>3. QED
    BY <1>6, <2>1, <2>2, SkipBlanksIs
<1>10. WordEnd(line, 1) = 3
  <2>1. /\ 1 \in 1 .. Len(line) + 1 /\ 3 \in 1 .. Len(line) + 1
    BY <1>6
  <2>2. \A q \in 1 .. 3 - 1 : q = 1 \/ q = 2
    OBVIOUS
  <2>3. \A q \in 1 .. 3 - 1 : line[q] \notin Blanks
    BY <1>7, <2>2
  <2>4. 3 <= Len(line) => line[3] \in Blanks
    BY <1>7
  <2>5. QED
    BY <1>6, <2>1, <2>3, <2>4, WordEndIs
<1>11. SkipBlanks(line, 3) = 4
  <2>1. 3 \in 1 .. Len(line) + 1 /\ 4 \in 3 .. Len(line) + 1 /\ \A q \in 3 .. 4 - 1 : q = 3
    BY <1>6
  <2>2. /\ \A q \in 3 .. 4 - 1 : line[q] \in Blanks
        /\ (4 <= Len(line) => line[4] \notin Blanks)
    BY <1>7, <2>1
  <2>3. QED
    BY <1>6, <2>1, <2>2, SkipBlanksIs
<1>12. WordEnd(line, 4) = 5
  <2>1. 4 \in 1 .. Len(line) + 1 /\ 5 \in 4 .. Len(line) + 1 /\ \A q \in 4 .. 5 - 1 : q = 4
    BY <1>6
  <2>2. /\ \A q \in 4 .. 5 - 1 : line[q] \notin Blanks
        /\ (5 <= Len(line) => line[5] \in Blanks)
    BY <1>7, <2>1
  <2>3. QED
    BY <1>6, <2>1, <2>2, WordEndIs
<1>13. CommandStart(line) = 4
  <2>1. 1 <= Len(line)
    BY <1>6
  <2>2. QED
    BY <1>7, <1>9, <1>10, <1>11, <2>1, Zenon DEF CommandStart
<1>14. Prefix(line) = <<a>>
  <2>1. 1 <= Len(line) /\ Len(line) >= 2 /\ 3 - 1 = 2
    BY <1>6
  <2>2. Tail(SubSeq(line, 1, 2)) = <<line[2]>>
    <3>1. line \in Seq(S)
      BY <1>4
    <3>2. QED
      BY <2>1, <3>1, TwoBytes
  <2>3. Tail(SubSeq(line, 1, 3 - 1)) = <<a>>
    BY <1>4, <2>1, <2>2, Zenon
  <2>4. QED
    BY <1>7, <1>9, <1>10, <2>1, <2>3, Zenon DEF Prefix, Word
<1>15. Word(line, 4) = <<a>>
  <2>1. 4 \in 1 .. Len(line) /\ 5 - 1 = 4
    BY <1>6
  <2>2. line \in Seq(S)
    BY <1>4
  <2>3. SubSeq(line, 4, 4) = <<line[4]>>
    BY <2>1, <2>2, OneByte
  <2>4. QED
    BY <1>4, <1>12, <2>1, <2>3, Zenon DEF Word
<1>16. ParamsFrom(line)[5] = <<t>> \o ParamsFrom(line)[n + 6]
  <2>1. /\ 5 \in 1 .. Len(line) + 1 /\ 6 \in 5 .. Len(line) /\ n + 6 \in 6 + 1 .. Len(line) + 1
        /\ (n + 6) - 1 = n + 5 /\ Len(line) \in Nat /\ 6 \in 6 .. n + 5
    BY <1>6
  <2>2. \A q \in 5 .. 6 - 1 : q = 5
    OBVIOUS
  <2>3. \A q \in 5 .. 6 - 1 : line[q] \in Blanks
    BY <1>7, <2>2
  <2>4. \A q \in 6 .. (n + 6) - 1 : line[q] \notin Blanks
    BY <1>8, <2>1
  <2>5. /\ n + 6 <= Len(line) => line[n + 6] \in Blanks
        /\ line[6] # ":"
    BY <1>7, <1>8, <2>1
  <2>6. ParamsFrom(line)[5] = <<SubSeq(line, 6, (n + 6) - 1)>> \o ParamsFrom(line)[n + 6]
    <3>1. /\ 5 \in 1 .. Len(line) + 1 /\ 6 \in 5 .. Len(line) /\ Len(line) \in Nat
          /\ n + 6 \in 6 + 1 .. Len(line) + 1 /\ line[6] # ":"
      BY <2>1, <2>5
    <3>2. n + 6 <= Len(line) => line[n + 6] \in Blanks
      BY <2>5
    <3>3. QED
      BY <2>3, <2>4, <3>1, <3>2, TakesWord
  <2>7. QED
    BY <1>4, <2>1, <2>6, Zenon
<1>17. ParamsFrom(line)[n + 6] = <<x>>
  <2>1. /\ n + 6 \in 1 .. Len(line) + 1 /\ n + 7 \in n + 6 .. Len(line) /\ Len(line) \in Nat
        /\ n + 7 + 1 = n + 8
    BY <1>6
  <2>2. \A q \in n + 6 .. (n + 7) - 1 : q = n + 6
    BY <1>6
  <2>3. \A q \in n + 6 .. (n + 7) - 1 : line[q] \in Blanks
    BY <1>7, <2>2
  <2>4. ParamsFrom(line)[n + 6] = <<SubSeq(line, n + 7 + 1, Len(line))>>
    BY <1>7, <2>1, <2>3, TakesTrailing
  <2>5. QED
    BY <1>4, <2>1, <2>4, Zenon
<1>18. <<t>> \o <<x>> = <<t, x>>
  BY PairOf
<1>19. QED
  BY <1>12, <1>13, <1>14, <1>15, <1>16, <1>17, <1>18, Zenon DEF parse

LEMMA RelayedParsed ==
    ASSUME NEW C, NEW t \in Seq(C), IsWord(t), NEW x \in Seq(C)
    PROVE  parse(Relayed(<<"a">>, <<"a">>, t, x)) =
             [prefix |-> <<"a">>, cmd |-> <<"a">>, params |-> <<t, x>>]
<1>1. "a" \notin Blanks /\ "a" # ":"
  BY DEF Blanks
<1>2. " " \in Blanks
  BY DEF Blanks
<1> DEFINE line == Relayed(<<"a">>, <<"a">>, t, x)
<1>3. IsRelayed(line, ":", "a", " ", t, x)
  BY RelayedIs
<1> HIDE DEF line
<1>4. ASSUME NEW c, c = ":", NEW a, a = "a", NEW b, b = " "
      PROVE  parse(line) = [prefix |-> <<a>>, cmd |-> <<a>>, params |-> <<t, x>>]
  <2>1. a \notin Blanks /\ a # ":" /\ b \in Blanks /\ IsRelayed(line, c, a, b, t, x)
    BY <1>1, <1>2, <1>3, <1>4, Zenon
  <2>2. QED
    BY <1>4, <2>1, RelayedRead, Zenon
<1>5. QED
  BY <1>4, Zenon DEF line

LEMMA RelaysRight ==
    ASSUME NEW C, text \in Seq(C)
    PROVE  RelaysWhatWasSaid
<1> DEFINE i == CommandStart(text)
           j == WordEnd(text, i)
           params == ParamsFrom(text)[j]
<1>1. i \in 1 .. Len(text) + 1 /\ Len(text) \in Nat
  <2>1. Len(text) \in Nat /\ 1 \in 1 .. Len(text) + 1
    OBVIOUS
  <2> DEFINE p == SkipBlanks(text, 1)
             e == WordEnd(text, p)
  <2>2. p \in 1 .. Len(text) + 1
    BY <2>1, SkipBlanksProperties
  <2> HIDE DEF p
  <2>3. e \in p .. Len(text) + 1
    BY <2>1, <2>2, WordEndProperties
  <2>4. e \in 1 .. Len(text) + 1
    BY <2>1, <2>2, <2>3
  <2> HIDE DEF e
  <2>5. SkipBlanks(text, e) \in e .. Len(text) + 1
    BY <2>1, <2>4, SkipBlanksProperties
  <2>6. SkipBlanks(text, e) \in 1 .. Len(text) + 1
    BY <2>1, <2>4, <2>5
  <2>7. i = SkipBlanks(text, e) \/ i = p
    BY Zenon DEF CommandStart, p, e
  <2>8. QED
    BY <2>1, <2>2, <2>6, <2>7
<1> HIDE DEF i
<1>2. j \in 1 .. Len(text) + 1
  <2>1. j \in i .. Len(text) + 1
    BY <1>1, WordEndProperties
  <2>2. QED
    BY <1>1, <2>1
<1>3. parse(text).params = params
  BY DEF parse, i
<1> HIDE DEF j
<1>4. ASSUME Len(params) >= 2
      PROVE  /\ params[1] # <<>>
             /\ parse(Relayed(<<"a">>, <<"a">>, params[1], params[2])) =
                  [prefix |-> <<"a">>, cmd |-> <<"a">>, params |-> SubSeq(params, 1, 2)]
  <2>1. params \in Seq(Seq(C)) /\ IsWord(params[1])
    BY <1>2, <1>4, FirstIsWord
  <2> HIDE DEF params
  <2>2. /\ params[1] \in Seq(C) /\ params[2] \in Seq(C)
        /\ SubSeq(params, 1, 2) = <<params[1], params[2]>>
    BY <1>4, <2>1, FirstTwo
  <2>3. parse(Relayed(<<"a">>, <<"a">>, params[1], params[2])) =
          [prefix |-> <<"a">>, cmd |-> <<"a">>, params |-> <<params[1], params[2]>>]
    BY <2>1, <2>2, RelayedParsed, Zenon
  <2>4. params[1] # <<>>
    BY <2>1, Zenon DEF IsWord
  <2>5. QED
    BY <2>2, <2>3, <2>4, Zenon
<1> HIDE DEF params
<1>5. QED
  BY <1>3, <1>4, Zenon DEF RelaysWhatWasSaid

-----------------------------------------------------------------------------
(* The words of a line.                                                    *)

\* The words that begin before i, and how many they are.
StartsBefore(line, i) == {q \in WordStarts(line) : q < i}

Seen(line, i) == Cardinality(StartsBefore(line, i))

\* i is not inside a word.
Boundary(line, i) ==
    /\ i \in 1 .. Len(line) + 1
    /\ i <= Len(line) /\ line[i] \notin Blanks => i \in WordStarts(line)

LEMMA StartsType ==
    ASSUME NEW C, NEW line \in Seq(C)
    PROVE  /\ Len(line) \in Nat
           /\ WordStarts(line) \subseteq 1 .. Len(line)
           /\ \A p \in WordStarts(line) :
                line[p] \notin Blanks /\ (p = 1 \/ line[p - 1] \in Blanks)
           /\ \A p \in 1 .. Len(line) :
                line[p] \notin Blanks /\ (p = 1 \/ line[p - 1] \in Blanks)
                  => p \in WordStarts(line)
<1>1. Len(line) \in Nat /\ DOMAIN line = 1 .. Len(line)
  OBVIOUS
<1>2. QED
  BY <1>1, Zenon DEF WordStarts

LEMMA SeenType ==
    ASSUME NEW C, NEW line \in Seq(C), NEW i
    PROVE  IsFiniteSet(StartsBefore(line, i)) /\ Seen(line, i) \in Nat
<1>1. IsFiniteSet(1 .. Len(line))
  BY FS_Interval
<1>2. WordStarts(line) \subseteq 1 .. Len(line)
  BY StartsType
<1>3. StartsBefore(line, i) \subseteq 1 .. Len(line)
  BY <1>2 DEF StartsBefore
<1>4. IsFiniteSet(StartsBefore(line, i))
  BY <1>1, <1>3, FS_Subset
<1>5. QED
  BY <1>4, FS_CardinalityType DEF Seen

\* One more behind a word that begins.
LEMMA OneMore ==
    ASSUME NEW C, NEW line \in Seq(C), NEW p \in WordStarts(line), NEW S,
           S = StartsBefore(line, p) \cup {p}
    PROVE  IsFiniteSet(S) /\ Cardinality(S) = Seen(line, p) + 1
<1>1. p \in Nat
  BY StartsType
<1>2. p \notin StartsBefore(line, p)
  BY <1>1 DEF StartsBefore
<1>3. IsFiniteSet(StartsBefore(line, p))
  BY SeenType
<1>4. /\ IsFiniteSet(StartsBefore(line, p) \cup {p})
      /\ Cardinality(StartsBefore(line, p) \cup {p}) = Cardinality(StartsBefore(line, p)) + 1
  BY <1>2, <1>3, FS_AddElement
<1>5. QED
  BY <1>4, Zenon DEF Seen

LEMMA SeenGrows ==
    ASSUME NEW C, NEW line \in Seq(C), NEW p \in WordStarts(line), NEW j \in Int, p < j
    PROVE  Seen(line, p) + 1 <= Seen(line, j)
<1> DEFINE S == StartsBefore(line, p) \cup {p}
<1>1. IsFiniteSet(S) /\ Cardinality(S) = Seen(line, p) + 1
  BY OneMore
<1>2. p \in Nat /\ \A q \in WordStarts(line) : q \in Nat
  BY StartsType
<1>3. S \subseteq StartsBefore(line, j)
  <2>1. ASSUME NEW q \in S PROVE q \in WordStarts(line) /\ q < j
    <3>1. CASE q = p
      BY <3>1
    <3>2. CASE q \in WordStarts(line) /\ q < p
      BY <1>2, <3>2
    <3>3. QED
      BY <3>1, <3>2 DEF StartsBefore
  <2> HIDE DEF S
  <2>2. QED
    BY <2>1 DEF StartsBefore
<1>4. IsFiniteSet(StartsBefore(line, j))
  BY SeenType
<1> HIDE DEF S
<1>5. Cardinality(S) <= Cardinality(StartsBefore(line, j))
  BY <1>3, <1>4, FS_Subset
<1>6. QED
  BY <1>1, <1>5 DEF Seen

\* The words up to p.
UpTo(line, p) == {q \in WordStarts(line) : q <= p}

LEMMA RankIs ==
    ASSUME NEW C, NEW line \in Seq(C), NEW p \in WordStarts(line)
    PROVE  Cardinality(UpTo(line, p)) = Seen(line, p) + 1
<1>1. p \in Nat /\ \A q \in WordStarts(line) : q \in Nat
  BY StartsType
<1>2. UpTo(line, p) = StartsBefore(line, p) \cup {p}
  <2>1. \A q \in WordStarts(line) : (q <= p) <=> (q < p \/ q = p)
    BY <1>1
  <2>2. QED
    BY <2>1, Zenon DEF UpTo, StartsBefore
<1>3. QED
  BY <1>2, OneMore

\* Words of the same number.
WithRank(line, n) == {p \in WordStarts(line) : Cardinality(UpTo(line, p)) = n}

LEMMA NthWordIs ==
    ASSUME NEW line, NEW n
    PROVE  NthWord(line, n) =
             IF WithRank(line, n) = {} THEN <<>> ELSE Word(line, Max(WithRank(line, n)))
BY Zenon DEF NthWord, WithRank, UpTo

LEMMA NthIs ==
    ASSUME NEW C, NEW line \in Seq(C), NEW p \in WordStarts(line)
    PROVE  NthWord(line, Seen(line, p) + 1) = Word(line, p)
<1> DEFINE n == Seen(line, p) + 1
           W == WithRank(line, n)
<1>1. p \in W
  BY RankIs DEF WithRank
<1>2. ASSUME NEW q \in W PROVE q = p
  <2>1. q \in WordStarts(line) /\ Cardinality(UpTo(line, q)) = n
    BY DEF WithRank
  <2>2. Seen(line, q) = Seen(line, p)
    <3>1. Seen(line, q) + 1 = Seen(line, p) + 1
      BY <2>1, RankIs
    <3>2. Seen(line, q) \in Nat /\ Seen(line, p) \in Nat
      BY SeenType
    <3>3. QED
      BY <3>1, <3>2
  <2>3. p \in Nat /\ q \in Nat /\ Seen(line, p) \in Nat
    BY <2>1, StartsType, SeenType
  <2>4. ~(p < q)
    <3>1. p < q => Seen(line, p) + 1 <= Seen(line, q)
      BY <2>3, SeenGrows
    <3>2. QED
      BY <2>2, <2>3, <3>1
  <2>5. ~(q < p)
    <3>1. q < p => Seen(line, q) + 1 <= Seen(line, p)
      BY <2>1, <2>3, SeenGrows
    <3>2. QED
      BY <2>2, <2>3, <3>1
  <2>6. QED
    BY <2>3, <2>4, <2>5
<1> HIDE DEF W
<1>3. W = {p}
  BY <1>1, <1>2
<1>4. Max({p}) = p
  <2>1. p \in Nat
    BY StartsType
  <2>2. \E x \in {p} : \A y \in {p} : x >= y
    BY <2>1
  <2>3. Max({p}) \in {p}
    BY <2>2 DEF Max
  <2>4. QED
    BY <2>3
<1>5. W # {} /\ Max(W) = p
  BY <1>3, <1>4, Zenon
<1>6. QED
  BY <1>5, NthWordIs DEF W

LEMMA NthNone ==
    ASSUME NEW C, NEW line \in Seq(C), NEW n \in Nat, Seen(line, Len(line) + 1) < n
    PROVE  NthWord(line, n) = <<>>
<1>1. ASSUME NEW p \in WithRank(line, n) PROVE FALSE
  <2>1. p \in WordStarts(line) /\ Cardinality(UpTo(line, p)) = n
    BY DEF WithRank
  <2>2. Seen(line, p) + 1 = n
    BY <2>1, RankIs
  <2>3. p < Len(line) + 1 /\ Len(line) + 1 \in Int
    BY <2>1, StartsType
  <2>4. Seen(line, p) + 1 <= Seen(line, Len(line) + 1)
    BY <2>1, <2>3, SeenGrows
  <2>5. Seen(line, p) \in Nat /\ Seen(line, Len(line) + 1) \in Nat
    BY SeenType
  <2>6. QED
    BY <2>2, <2>4, <2>5
<1>2. WithRank(line, n) = {}
  BY <1>1, Zenon
<1>3. QED
  BY <1>2, NthWordIs

\* The words that begin at i or later.
Args(line, i) == {p \in WordStarts(line) : p >= i}

\* Blanks hold no word,
LEMMA ScanBlanks ==
    ASSUME NEW C, NEW line \in Seq(C), NEW i, Boundary(line, i), NEW p,
           p = SkipBlanks(line, i)
    PROVE  /\ p \in 1 .. Len(line) + 1 /\ i \in 1 .. Len(line) + 1 /\ p >= i
           /\ p <= Len(line) => p \in WordStarts(line)
           /\ Args(line, i) = Args(line, p)
           /\ Seen(line, p) = Seen(line, i)
<1>1. Len(line) \in Nat /\ i \in 1 .. Len(line) + 1
  BY DEF Boundary
<1>2. /\ p \in i .. Len(line) + 1
      /\ \A q \in i .. p - 1 : line[q] \in Blanks
      /\ p <= Len(line) => line[p] \notin Blanks
  BY <1>1, SkipBlanksProperties
<1>3. ASSUME p <= Len(line) PROVE p \in WordStarts(line)
  <2>1. CASE p = i
    BY <1>2, <1>3, <2>1 DEF Boundary
  <2>2. CASE p # i
    <3>1. p - 1 \in i .. p - 1 /\ p \in 1 .. Len(line)
      BY <1>1, <1>2, <1>3, <2>2
    <3>2. line[p - 1] \in Blanks /\ line[p] \notin Blanks
      BY <1>2, <1>3, <3>1
    <3>3. QED
      BY <3>1, <3>2, StartsType
  <2>3. QED
    BY <2>1, <2>2
<1>4. ASSUME NEW q \in WordStarts(line) PROVE (q >= i <=> q >= p) /\ (q < i <=> q < p)
  <2>1. q \in 1 .. Len(line) /\ line[q] \notin Blanks
    BY StartsType
  <2>2. ~(q \in i .. p - 1)
    BY <1>2, <2>1
  <2>3. QED
    BY <1>1, <1>2, <2>1, <2>2
<1>5. Args(line, i) = Args(line, p) /\ StartsBefore(line, i) = StartsBefore(line, p)
  BY <1>4, Zenon DEF Args, StartsBefore
<1>6. p \in 1 .. Len(line) + 1 /\ p >= i
  BY <1>1, <1>2
<1>7. QED
  BY <1>1, <1>3, <1>5, <1>6, Zenon DEF Seen

\* and a word holds one.
LEMMA ScanWord ==
    ASSUME NEW C, NEW line \in Seq(C), NEW p \in WordStarts(line), NEW e,
           e = WordEnd(line, p)
    PROVE  /\ e \in p + 1 .. Len(line) + 1 /\ Boundary(line, e)
           /\ Args(line, p) = {p} \cup Args(line, e) /\ \A q \in Args(line, e) : p < q
           /\ Seen(line, e) = Seen(line, p) + 1
<1>1. p \in 1 .. Len(line) /\ line[p] \notin Blanks /\ Len(line) \in Nat
  BY StartsType
<1>2. e \in p + 1 .. Len(line) + 1
  BY <1>1, WordAdvances
<1>3. /\ \A q \in p .. e - 1 : line[q] \notin Blanks
      /\ e <= Len(line) => line[e] \in Blanks
  BY <1>1, WordEndProperties
<1>4. Boundary(line, e)
  <2>1. e \in 1 .. Len(line) + 1
    BY <1>1, <1>2
  <2>2. QED
    BY <1>3, <2>1 DEF Boundary
<1>5. ASSUME NEW q \in WordStarts(line)
      PROVE  (q >= p <=> (q = p \/ q >= e)) /\ (q < e <=> (q < p \/ q = p)) /\ (q >= e => p < q)
  <2>1. q \in 1 .. Len(line) /\ (q = 1 \/ line[q - 1] \in Blanks)
    BY StartsType
  <2>2. ~(q \in p + 1 .. e - 1)
    <3>1. q \in p + 1 .. e - 1 => q - 1 \in p .. e - 1 /\ q # 1
      BY <1>1, <1>2, <2>1
    <3>2. QED
      BY <1>3, <2>1, <3>1
  <2>3. QED
    BY <1>1, <1>2, <2>1, <2>2
<1>6. p >= p /\ ~(p < p)
  BY <1>1
<1>7. Args(line, p) = {p} \cup Args(line, e)
  BY <1>5, <1>6, Zenon DEF Args
<1>8. StartsBefore(line, e) = StartsBefore(line, p) \cup {p}
  BY <1>5, <1>6, Zenon DEF StartsBefore
<1>9. Seen(line, e) = Seen(line, p) + 1
  BY <1>8, OneMore DEF Seen
<1>10. \A q \in Args(line, e) : p < q
  BY <1>5 DEF Args
<1>11. QED
  BY <1>2, <1>4, <1>7, <1>9, <1>10

\* Of the words A of a line, those that begin with a colon, and those up to the
\* first of these.
Colons(line, A) == {p \in A : line[p] = ":"}

Counted(line, A) == {p \in A : \A q \in Colons(line, A) : p <= q}

\* The parameters that the words A are when there are k words before them.
ParamsRight(line, A, k, ps) ==
    /\ Len(ps) = Cardinality(Counted(line, A))
    /\ \A n \in DOMAIN ps :
         IF n = Len(ps) /\ Colons(line, A) # {}
         THEN ps[n] = SubSeq(line, Min(Colons(line, A)) + 1, Len(line))
         ELSE ps[n] = NthWord(line, k + n)

LEMMA NoParams ==
    ASSUME NEW line, NEW k
    PROVE  ParamsRight(line, {}, k, <<>>)
<1>1. Counted(line, {}) = {}
  BY DEF Counted
<1>2. Len(<<>>) = 0 /\ DOMAIN <<>> = {}
  OBVIOUS
<1>3. QED
  BY <1>1, <1>2, FS_EmptySet, Zenon DEF ParamsRight

LEMMA LastParam ==
    ASSUME NEW line, NEW k, NEW A, A \subseteq Nat, NEW p \in A, line[p] = ":",
           \A q \in A : p <= q
    PROVE  ParamsRight(line, A, k, <<SubSeq(line, p + 1, Len(line))>>)
<1> DEFINE K == Colons(line, A)
           x == SubSeq(line, p + 1, Len(line))
           ps == <<x>>
<1>1. p \in K /\ \A q \in K : p <= q /\ q \in Nat
  BY DEF Colons
<1>2. Min(K) = p
  <2>1. \E y \in K : \A z \in K : y =< z
    BY <1>1
  <2>2. Min(K) \in K /\ \A z \in K : Min(K) =< z
    BY <2>1 DEF Min
  <2>3. Min(K) \in Nat /\ p \in Nat /\ p <= Min(K) /\ Min(K) <= p
    BY <1>1, <2>2, Zenon
  <2>4. QED
    BY <2>3
<1>3. Counted(line, A) = {p}
  <2>1. ASSUME NEW r \in A PROVE (\A q \in K : r <= q) <=> r = p
    <3>1. r \in Nat /\ p \in Nat /\ p <= r
      OBVIOUS
    <3>2. (\A q \in K : r <= q) => r <= p
      BY <1>1, Zenon
    <3>3. r <= p => r = p
      BY <3>1
    <3>4. r = p => \A q \in K : r <= q
      BY <1>1, Zenon
    <3>5. QED
      BY <3>2, <3>3, <3>4, Zenon
  <2>2. QED
    BY <2>1, Zenon DEF Counted
<1>4. Len(ps) = 1 /\ DOMAIN ps = 1 .. 1 /\ ps[1] = x
  OBVIOUS
<1>5. \A n \in 1 .. 1 : n = 1
  OBVIOUS
<1>6. Cardinality({p}) = 1
  BY FS_Singleton
<1> HIDE DEF ps
<1>7. Len(ps) = Cardinality(Counted(line, A))
  BY <1>3, <1>4, <1>6
<1>8. \A n \in DOMAIN ps : n = Len(ps) /\ ps[n] = SubSeq(line, Min(K) + 1, Len(line))
  BY <1>2, <1>4, <1>5, Zenon
<1>9. K # {}
  BY <1>1
<1>10. ParamsRight(line, A, k, ps)
  BY <1>7, <1>8, <1>9, Zenon DEF ParamsRight
<1>11. QED
  BY <1>10, Zenon DEF ps

LEMMA OneMoreParam ==
    ASSUME NEW C, NEW line, NEW k \in Nat, NEW N \in Nat, NEW B, B \subseteq 1 .. N,
           NEW p, \A q \in B : p < q, p \in Nat, line[p] # ":",
           NEW D, NEW rest \in Seq(D), ParamsRight(line, B, k + 1, rest),
           NEW w \in D, NthWord(line, k + 1) = w
    PROVE  ParamsRight(line, {p} \cup B, k, <<w>> \o rest)
<1> DEFINE A == {p} \cup B
           K == Colons(line, B)
           ps == <<w>> \o rest
<1>1. Colons(line, A) = K
  BY Zenon DEF Colons
<1>2. \A q \in B : p <= q /\ p # q
  BY SMT
<1>3. Counted(line, A) = Counted(line, B) \cup {p}
  <2>1. \A q \in K : q \in B
    BY Zenon DEF Colons
  <2>2. QED
    BY <1>1, <1>2, <2>1, Zenon DEF Counted
<1>4. IsFiniteSet(Counted(line, B)) /\ p \notin Counted(line, B)
  <2>1. IsFiniteSet(1 .. N)
    BY FS_Interval
  <2>2. Counted(line, B) \subseteq 1 .. N
    BY DEF Counted
  <2>3. p \notin Counted(line, B)
    BY <1>2, Zenon DEF Counted
  <2>4. QED
    BY <2>1, <2>2, <2>3, FS_Subset
<1>5. Cardinality(Counted(line, A)) = Cardinality(Counted(line, B)) + 1
  BY <1>3, <1>4, FS_AddElement
<1>6. Len(rest) = Cardinality(Counted(line, B)) /\ Len(rest) \in Nat
  BY DEF ParamsRight
<1>7. /\ ps \in Seq(D) /\ Len(ps) = 1 + Len(rest) /\ ps[1] = w
      /\ \A n \in 2 .. 1 + Len(rest) : ps[n] = rest[n - 1]
  <2>1. <<w>> \in Seq(D) /\ Len(<<w>>) = 1 /\ <<w>>[1] = w
    OBVIOUS
  <2>2. /\ ps \in Seq(D) /\ Len(ps) = Len(<<w>>) + Len(rest)
        /\ \A n \in 1 .. Len(<<w>>) + Len(rest) :
             ps[n] = IF n <= Len(<<w>>) THEN <<w>>[n] ELSE rest[n - Len(<<w>>)]
    BY <2>1, ConcatProperties
  <2> HIDE DEF ps
  <2>3. 1 \in 1 .. 1 + Len(rest) /\ 1 <= 1
    BY <1>6
  <2>4. ps[1] = w
    BY <2>1, <2>2, <2>3
  <2>5. \A n \in 2 .. 1 + Len(rest) : n \in 1 .. 1 + Len(rest) /\ ~(n <= 1)
    BY <1>6
  <2>6. \A n \in 2 .. 1 + Len(rest) : ps[n] = rest[n - 1]
    BY <2>1, <2>2, <2>5, Zenon
  <2>7. QED
    BY <2>1, <2>2, <2>4, <2>6, Zenon
<1> HIDE DEF ps
<1>8. Len(ps) = Cardinality(Counted(line, A))
  BY <1>5, <1>6, <1>7
<1>9. DOMAIN ps = 1 .. 1 + Len(rest) /\ DOMAIN rest = 1 .. Len(rest)
  BY <1>7
<1>10. ASSUME K # {} PROVE Len(rest) # 0
  <2>1. K \subseteq Nat
    <3>1. K \subseteq B
      BY Zenon DEF Colons
    <3> HIDE DEF K
    <3>2. QED
      BY <3>1
  <2>2. PICK m \in K : \A q \in K : m <= q
    BY <1>10, <2>1, HasMin
  <2>3. m \in Counted(line, B)
    BY <2>2, Zenon DEF Counted, Colons
  <2>4. Cardinality(Counted(line, B)) # 0
    BY <1>4, <2>3, FS_EmptySet, Zenon
  <2>5. QED
    BY <1>6, <2>4
<1>11. ASSUME NEW n \in DOMAIN ps
       PROVE  IF n = Len(ps) /\ K # {}
              THEN ps[n] = SubSeq(line, Min(K) + 1, Len(line))
              ELSE ps[n] = NthWord(line, k + n)
  <2>1. n \in 1 .. 1 + Len(rest) /\ n \in Nat
    BY <1>6, <1>9
  <2>2. CASE n = 1
    <3>1. ~(n = Len(ps) /\ K # {})
      <4>1. n = Len(ps) => Len(rest) = 0
        BY <1>6, <1>7, <2>2
      <4>2. QED
        BY <1>10, <4>1, Zenon
    <3>2. ps[n] = NthWord(line, k + n)
      BY <1>7, <2>2
    <3>3. QED
      BY <3>1, <3>2, Zenon
  <2>3. CASE n # 1
    <3>1. /\ n \in 2 .. 1 + Len(rest) /\ n - 1 \in 1 .. Len(rest)
          /\ k + 1 + (n - 1) = k + n /\ (n = 1 + Len(rest) <=> n - 1 = Len(rest))
      BY <1>6, <2>1, <2>3
    <3>2. ps[n] = rest[n - 1]
      BY <1>7, <3>1, Zenon
    <3>3. IF n - 1 = Len(rest) /\ K # {}
          THEN rest[n - 1] = SubSeq(line, Min(K) + 1, Len(line))
          ELSE rest[n - 1] = NthWord(line, k + 1 + (n - 1))
      BY <1>9, <3>1, Zenon DEF ParamsRight
    <3>4. n = Len(ps) <=> n - 1 = Len(rest)
      BY <1>7, <3>1, Zenon
    <3>5. QED
      BY <3>1, <3>2, <3>3, <3>4, Zenon
  <2>4. QED
    BY <2>2, <2>3, Zenon
<1>12. ParamsRight(line, A, k, ps)
  BY <1>1, <1>8, <1>11, Zenon DEF ParamsRight
<1>13. QED
  BY <1>12, Zenon DEF ps

\* What the loop makes of the words from i on.
RightFrom(line, i) ==
    Boundary(line, i) => ParamsRight(line, Args(line, i), Seen(line, i), ParamsFrom(line)[i])

LEMMA ParamsStep ==
    ASSUME NEW C, NEW line \in Seq(C), NEW i, Boundary(line, i),
           \A e \in i + 1 .. Len(line) + 1 : RightFrom(line, e)
    PROVE  ParamsRight(line, Args(line, i), Seen(line, i), ParamsFrom(line)[i])
<1> DEFINE p == SkipBlanks(line, i)
           e == WordEnd(line, p)
           k == Seen(line, i)
<1>1. /\ p \in 1 .. Len(line) + 1 /\ i \in 1 .. Len(line) + 1 /\ p >= i
      /\ p <= Len(line) => p \in WordStarts(line)
      /\ Args(line, i) = Args(line, p)
      /\ Seen(line, p) = k
  BY ScanBlanks
<1> HIDE DEF p, k
<1>2. Len(line) \in Nat /\ WordStarts(line) \subseteq 1 .. Len(line)
  BY StartsType
<1>3. ParamsFrom(line)[i] = Rest(ParamsFrom(line), line, i)
  BY <1>1, <1>2, ParamsFromRest
<1>4. CASE p > Len(line)
  <2>1. ~(p <= Len(line)) /\ \A q \in 1 .. Len(line) : ~(q >= p)
    BY <1>1, <1>2, <1>4
  <2>2. Args(line, p) = {}
    BY <1>2, <2>1, Zenon DEF Args
  <2>3. ParamsFrom(line)[i] = <<>>
    BY <1>3, <1>4, <2>1, RestAtEnd DEF p
  <2>4. QED
    BY <1>1, <2>2, <2>3, NoParams, Zenon DEF k
<1>5. CASE p <= Len(line) /\ line[p] = ":"
  <2>1. ~(p > Len(line)) /\ p >= p
    BY <1>1, <1>2, <1>5
  <2>2. ParamsFrom(line)[i] = <<SubSeq(line, p + 1, Len(line))>>
    BY <1>3, <1>5, <2>1, RestTrailing DEF p
  <2>3. p \in Args(line, p)
    BY <1>1, <1>5, <2>1 DEF Args
  <2>4. Args(line, p) \subseteq Nat /\ \A q \in Args(line, p) : p <= q
    <3>1. ASSUME NEW q \in Args(line, p) PROVE q \in Nat /\ p <= q
      <4>1. q \in 1 .. Len(line) /\ q >= p
        BY <1>2 DEF Args
      <4>2. QED
        BY <1>1, <1>2, <4>1
    <3>2. QED
      BY <3>1
  <2>5. ParamsRight(line, Args(line, p), k, <<SubSeq(line, p + 1, Len(line))>>)
    BY <1>5, <2>3, <2>4, LastParam
  <2>6. QED
    BY <1>1, <2>2, <2>5, Zenon DEF k
<1>6. CASE p <= Len(line) /\ line[p] # ":"
  <2>1. ~(p > Len(line)) /\ p \in WordStarts(line) /\ p \in Nat
    BY <1>1, <1>2, <1>6
  <2> DEFINE rest == ParamsFrom(line)[e]
             w == Word(line, p)
             B == Args(line, e)
  <2>2. /\ e \in p + 1 .. Len(line) + 1 /\ Boundary(line, e)
        /\ Args(line, p) = {p} \cup B /\ \A q \in B : p < q
        /\ Seen(line, e) = Seen(line, p) + 1
    BY <2>1, ScanWord
  <2>3. ParamsFrom(line)[i] = <<w>> \o rest
    BY <1>3, <1>6, <2>1, RestWord DEF p
  <2>4. e \in 1 .. Len(line) + 1 /\ e \in i + 1 .. Len(line) + 1
    BY <1>1, <1>2, <2>2
  <2>5. rest \in Seq(Seq(C))
    BY <2>4, ParamsTyped
  <2>6. w \in Seq(C)
    <3>1. p \in Nat \ {0} /\ e - 1 \in Int /\ e - 1 <= Len(line)
      BY <1>1, <1>2, <2>2
    <3> HIDE DEF e
    <3>2. SubSeq(line, p, e - 1) \in Seq(C)
      BY <3>1, Piece
    <3>3. QED
      BY <3>2, Zenon DEF Word, e
  <2>7. NthWord(line, k + 1) = w
    BY <1>1, <2>1, NthIs
  <2>8. ParamsRight(line, B, k + 1, rest)
    <3>1. RightFrom(line, e)
      BY <2>4, Zenon
    <3>2. ParamsRight(line, B, Seen(line, e), rest)
      BY <2>2, <3>1, Zenon DEF RightFrom
    <3>3. Seen(line, e) = k + 1
      BY <1>1, <2>2, Zenon
    <3>4. QED
      BY <3>2, <3>3, Zenon
  <2>9. B \subseteq 1 .. Len(line) /\ k \in Nat
    BY <1>2, SeenType DEF Args, k
  <2> HIDE DEF e, rest, w, B
  <2>10. ParamsRight(line, {p} \cup B, k, <<w>> \o rest)
    BY <1>2, <1>6, <2>1, <2>2, <2>5, <2>6, <2>7, <2>8, <2>9, OneMoreParam
  <2>11. QED
    BY <1>1, <2>2, <2>3, <2>10, Zenon DEF k
<1>7. p > Len(line) \/ p <= Len(line)
  BY <1>1, <1>2
<1>8. QED
  BY <1>4, <1>5, <1>6, <1>7, Zenon

LEMMA ParamsOfWords ==
    ASSUME NEW C, NEW line \in Seq(C), NEW i \in 1 .. Len(line) + 1
    PROVE  RightFrom(line, i)
<1> DEFINE N == Len(line) + 1
           Bad == {k \in 0 .. Len(line) : ~RightFrom(line, N - k)}
<1>1. Len(line) \in Nat
  OBVIOUS
<1>2. ASSUME Bad # {} PROVE FALSE
  <2>1. Bad \subseteq Nat
    BY <1>1
  <2>2. PICK k \in Bad : \A j \in Bad : k <= j
    BY <1>2, <2>1, HasMin
  <2> DEFINE n == N - k
  <2>3. k \in 0 .. Len(line) /\ ~RightFrom(line, n)
    OBVIOUS
  <2>4. ASSUME NEW e \in n + 1 .. N PROVE RightFrom(line, e)
    <3>1. N - e \in 0 .. Len(line) /\ ~(k <= N - e) /\ N - (N - e) = e
      BY <1>1, <2>3
    <3>2. N - e \notin Bad
      BY <2>2, <3>1
    <3>3. RightFrom(line, N - (N - e))
      BY <3>1, <3>2
    <3>4. QED
      BY <3>1, <3>3
  <2> HIDE DEF Bad, n
  <2>5. Boundary(line, n) /\ ~ParamsRight(line, Args(line, n), Seen(line, n), ParamsFrom(line)[n])
    BY <2>3, Zenon DEF RightFrom
  <2>6. QED
    BY <2>4, <2>5, ParamsStep, Zenon
<1>3. Len(line) + 1 - i \in 0 .. Len(line) /\ N - (Len(line) + 1 - i) = i
  BY <1>1
<1>4. QED
  BY <1>2, <1>3

LEMMA WordAt ==
    ASSUME NEW C, NEW line \in Seq(C), NEW p \in 1 .. Len(line), line[p] \notin Blanks
    PROVE  Word(line, p) # <<>> /\ Word(line, p)[1] = line[p]
<1> DEFINE e == WordEnd(line, p)
           w == SubSeq(line, p, e - 1)
<1>1. e \in p + 1 .. Len(line) + 1 /\ Len(line) \in Nat
  BY WordAdvances
<1> HIDE DEF e
<1>2. /\ p \in Nat \ {0} /\ e - 1 \in Int /\ e - 1 <= Len(line) /\ p <= e - 1
      /\ e - 1 - p + 1 # 0 /\ 1 \in 1 .. e - 1 - p + 1 /\ 1 + p - 1 = p
  BY <1>1
<1>3. /\ w \in Seq(C) /\ Len(w) = e - 1 - p + 1
      /\ \A i \in 1 .. e - 1 - p + 1 : w[i] = line[i + p - 1]
  BY <1>2, Piece
<1> HIDE DEF w
<1>4. w[1] = line[p]
  BY <1>2, <1>3
<1>5. w # <<>>
  BY <1>2, <1>3, EmptySeq
<1>6. QED
  BY <1>4, <1>5, Zenon DEF Word, w, e

\* The word that a scan from i finds is the next one.
LEMMA NextWord ==
    ASSUME NEW C, NEW line \in Seq(C), NEW i, Boundary(line, i), NEW p,
           p = SkipBlanks(line, i)
    PROVE  NthWord(line, Seen(line, i) + 1) = Word(line, p)
<1>1. /\ p \in 1 .. Len(line) + 1
      /\ p <= Len(line) => p \in WordStarts(line)
      /\ Seen(line, p) = Seen(line, i) /\ Len(line) \in Nat
  BY ScanBlanks
<1>2. CASE p <= Len(line)
  BY <1>1, <1>2, NthIs
<1>3. CASE p = Len(line) + 1
  <2>1. Seen(line, i) \in Nat
    BY SeenType
  <2>2. Seen(line, i) + 1 \in Nat /\ Seen(line, i) < Seen(line, i) + 1
    BY <2>1
  <2>3. Seen(line, Len(line) + 1) < Seen(line, i) + 1
    BY <1>1, <1>3, <2>2, Zenon
  <2>4. NthWord(line, Seen(line, i) + 1) = <<>>
    BY <2>2, <2>3, NthNone
  <2>5. WordEnd(line, p) = Len(line) + 1
    <3>1. WordEnd(line, p) \in p .. Len(line) + 1
      BY <1>1, WordEndProperties
    <3>2. QED
      BY <1>1, <1>3, <3>1
  <2> DEFINE w == SubSeq(line, Len(line) + 1, Len(line) + 1 - 1)
  <2>6. /\ Len(line) + 1 \in Nat \ {0} /\ Len(line) + 1 - 1 \in Int
        /\ Len(line) + 1 - 1 <= Len(line) /\ ~(Len(line) + 1 <= Len(line) + 1 - 1)
    BY <1>1
  <2>7. w \in Seq(C) /\ Len(w) = 0
    BY <2>6, Piece
  <2> HIDE DEF w
  <2>8. w = <<>>
    BY <2>7, EmptySeq
  <2>9. Word(line, p) = w
    BY <1>3, <2>5, SMT DEF Word, w
  <2>10. QED
    BY <2>4, <2>8, <2>9, Zenon
<1>4. p <= Len(line) \/ p = Len(line) + 1
  BY <1>1
<1>5. QED
  BY <1>2, <1>3, <1>4, Zenon

\* The words behind the first k.
Behind(line, k) == {p \in WordStarts(line) : Seen(line, p) >= k}

LEMMA ArgsAreBehind ==
    ASSUME NEW C, NEW line \in Seq(C), NEW i, Boundary(line, i), NEW p,
           p = SkipBlanks(line, i), NEW k, k = Seen(line, i) + 1
    PROVE  ParamsRight(line, Behind(line, k), k, ParamsFrom(line)[WordEnd(line, p)])
<1> DEFINE e == WordEnd(line, p)
<1>1. /\ p \in 1 .. Len(line) + 1
      /\ p <= Len(line) => p \in WordStarts(line)
      /\ Seen(line, p) = Seen(line, i) /\ Len(line) \in Nat
  BY ScanBlanks
<1>2. \A q \in WordStarts(line) : q \in 1 .. Len(line)
  BY StartsType
<1>3. \A q : Seen(line, q) \in Nat
  BY SeenType
<1>4. k = Seen(line, p) + 1
  BY <1>1, Zenon
<1>5. CASE p <= Len(line)
  <2>1. p \in WordStarts(line) /\ p \in Nat
    BY <1>1, <1>5
  <2>2. /\ e \in p + 1 .. Len(line) + 1 /\ Boundary(line, e)
        /\ Args(line, p) = {p} \cup Args(line, e)
        /\ Seen(line, e) = Seen(line, p) + 1
    BY <2>1, ScanWord
  <2> HIDE DEF e
  <2>3. ASSUME NEW q \in WordStarts(line) PROVE Seen(line, q) >= k <=> q >= e
    <3>1. q \in Nat /\ e \in Nat /\ p < e /\ p \in Nat
      BY <1>2, <2>1, <2>2
    <3>2. Seen(line, q) \in Nat /\ Seen(line, p) \in Nat
      BY <1>3
    <3>3. CASE q >= e
      <4>1. p < q
        BY <3>1, <3>3
      <4>2. Seen(line, p) + 1 <= Seen(line, q)
        BY <2>1, <3>1, <4>1, SeenGrows
      <4>3. Seen(line, q) >= k
        BY <1>4, <3>2, <4>2
      <4>4. QED
        BY <3>3, <4>3, Zenon
    <3>4. CASE ~(q >= e)
      <4>1. ~(p < q)
        <5>1. q \notin Args(line, e)
          BY <3>4, Zenon DEF Args
        <5>2. p < q => q >= p /\ q # p
          BY <3>1
        <5>3. q >= p => q \in Args(line, p)
          BY Zenon DEF Args
        <5>4. QED
          BY <2>2, <5>1, <5>2, <5>3, Zenon
      <4>2. q = p \/ q < p
        BY <3>1, <4>1
      <4>3. CASE q = p
        <5>1. ~(Seen(line, q) >= k)
          BY <1>4, <3>2, <4>3
        <5>2. QED
          BY <3>4, <5>1, Zenon
      <4>4. CASE q < p
        <5>1. Seen(line, q) + 1 <= Seen(line, p)
          BY <3>1, <4>4, SeenGrows
        <5>2. ~(Seen(line, q) >= k)
          BY <1>4, <3>2, <5>1
        <5>3. QED
          BY <3>4, <5>2, Zenon
      <4>5. QED
        BY <4>2, <4>3, <4>4, Zenon
    <3>5. QED
      BY <3>3, <3>4, Zenon
  <2>4. Behind(line, k) = Args(line, e)
    BY <2>3, Zenon DEF Behind, Args
  <2>5. e \in 1 .. Len(line) + 1
    BY <2>1, <2>2
  <2>6. ParamsRight(line, Args(line, e), Seen(line, e), ParamsFrom(line)[e])
    BY <2>2, <2>5, ParamsOfWords, Zenon DEF RightFrom
  <2>7. Seen(line, e) = k
    BY <1>4, <2>2, Zenon
  <2>8. QED
    BY <2>4, <2>6, <2>7, Zenon DEF e
<1>6. CASE p = Len(line) + 1
  <2>1. e = Len(line) + 1
    <3>1. e \in p .. Len(line) + 1
      BY <1>1, WordEndProperties
    <3>2. QED
      BY <1>1, <1>6, <3>1
  <2> HIDE DEF e
  <2>2. ASSUME NEW q \in WordStarts(line) PROVE ~(Seen(line, q) >= k)
    <3>1. q < p /\ p \in Int
      BY <1>1, <1>2, <1>6
    <3>2. Seen(line, q) + 1 <= Seen(line, p)
      BY <3>1, SeenGrows
    <3>3. Seen(line, q) \in Nat /\ Seen(line, p) \in Nat
      BY <1>3
    <3>4. QED
      BY <1>4, <3>2, <3>3
  <2>3. Behind(line, k) = {}
    BY <2>2, Zenon DEF Behind
  <2>4. ParamsFrom(line)[e] = <<>>
    <3>1. e \in 1 .. Len(line) + 1 /\ e .. Len(line) = {}
      BY <1>1, <2>1
    <3>2. QED
      BY <1>1, <3>1, TakesNothing
  <2>5. QED
    BY <2>3, <2>4, NoParams, Zenon DEF e
<1>7. p <= Len(line) \/ p = Len(line) + 1
  BY <1>1
<1>8. QED
  BY <1>5, <1>6, <1>7, Zenon

\* A message that has the words of the line is the one it means.
LEMMA HasMeaning ==
    ASSUME NEW line, NEW msg, NEW prefixed \in BOOLEAN, NEW k,
           prefixed <=> (NthWord(line, 1) # <<>> /\ NthWord(line, 1)[1] = ":"),
           k = (IF prefixed THEN 2 ELSE 1),
           msg.cmd = NthWord(line, k),
           msg.prefix = (IF prefixed THEN Tail(NthWord(line, 1)) ELSE <<>>),
           ParamsRight(line, Behind(line, k), k, msg.params)
    PROVE  MeansMessage(line, msg)
<1>1. k = IF NthWord(line, 1) # <<>> /\ NthWord(line, 1)[1] = ":" THEN 2 ELSE 1
  BY Zenon
<1>2. msg.prefix = IF NthWord(line, 1) # <<>> /\ NthWord(line, 1)[1] = ":"
                   THEN Tail(NthWord(line, 1)) ELSE <<>>
  BY Zenon
<1>3. QED
  BY <1>1, <1>2, Zenon
     DEF MeansMessage, ParamsRight, Behind, Seen, StartsBefore, Colons, Counted

LEMMA WordsParsed ==
    ASSUME NEW C, NEW line \in Seq(C)
    PROVE  MeansMessage(line, parse(line))
<1> DEFINE p == SkipBlanks(line, 1)
           prefixed == p <= Len(line) /\ line[p] = ":"
           k == IF prefixed THEN 2 ELSE 1
           start == CommandStart(line)
           params == ParamsFrom(line)[WordEnd(line, start)]
<1>1. Len(line) \in Nat
  OBVIOUS
<1>2. Boundary(line, 1)
  <2>1. 1 \in 1 .. Len(line) + 1
    BY <1>1
  <2>2. 1 <= Len(line) => 1 \in 1 .. Len(line)
    BY <1>1
  <2>3. 1 <= Len(line) /\ line[1] \notin Blanks => 1 \in WordStarts(line)
    BY <2>2, StartsType
  <2>4. QED
    BY <2>1, <2>3, Zenon DEF Boundary
<1>3. Seen(line, 1) = 0
  <2>1. \A q \in WordStarts(line) : ~(q < 1)
    BY StartsType
  <2>2. StartsBefore(line, 1) = {}
    BY <2>1, Zenon DEF StartsBefore
  <2>3. QED
    BY <2>2, FS_EmptySet, Zenon DEF Seen
<1>4. /\ p \in 1 .. Len(line) + 1
      /\ p <= Len(line) => p \in WordStarts(line)
      /\ Seen(line, p) = 0
  BY <1>2, <1>3, ScanBlanks
<1>5. NthWord(line, 1) = Word(line, p)
  <2>1. NthWord(line, Seen(line, 1) + 1) = Word(line, p)
    BY <1>2, NextWord
  <2>2. Seen(line, 1) + 1 = 1
    BY <1>3
  <2>3. QED
    BY <2>1, <2>2, Zenon
<1>6. prefixed <=> (NthWord(line, 1) # <<>> /\ NthWord(line, 1)[1] = ":")
  <2>1. CASE p <= Len(line)
    <3>1. p \in 1 .. Len(line) /\ line[p] \notin Blanks
      BY <1>4, <2>1, StartsType
    <3>2. Word(line, p) # <<>> /\ Word(line, p)[1] = line[p]
      BY <3>1, WordAt
    <3>3. QED
      BY <1>5, <2>1, <3>2, Zenon
  <2>2. CASE ~(p <= Len(line))
    <3>1. p = Len(line) + 1
      BY <1>1, <1>4, <2>2
    <3>2. Seen(line, Len(line) + 1) < 1 /\ 1 \in Nat
      BY <1>4, <3>1
    <3>3. NthWord(line, 1) = <<>>
      BY <3>2, NthNone
    <3>4. QED
      BY <2>2, <3>3, Zenon
  <2>3. QED
    BY <2>1, <2>2, Zenon
\* The command is the next word behind i,
<1>7. PICK i : Boundary(line, i) /\ start = SkipBlanks(line, i) /\ k = Seen(line, i) + 1
  <2>1. CASE prefixed
    <3>1. p \in WordStarts(line)
      BY <1>4, <2>1
    <3>2. Boundary(line, WordEnd(line, p)) /\ Seen(line, WordEnd(line, p)) = Seen(line, p) + 1
      BY <3>1, ScanWord
    <3>3. start = SkipBlanks(line, WordEnd(line, p))
      BY <2>1, Zenon DEF CommandStart
    <3>4. 0 + 1 = 1 /\ 1 + 1 = 2
      OBVIOUS
    <3>5. k = 2
      BY <2>1, Zenon
    <3>6. k = Seen(line, WordEnd(line, p)) + 1
      BY <1>4, <3>2, <3>4, <3>5, Zenon
    <3>7. QED
      BY <3>2, <3>3, <3>6, Zenon
  <2>2. CASE ~prefixed
    <3>1. start = p
      BY <2>2, Zenon DEF CommandStart
    <3>2. k = Seen(line, 1) + 1
      <4>1. k = 1
        BY <2>2, Zenon
      <4>2. QED
        BY <1>3, <4>1
    <3>3. QED
      BY <1>2, <3>1, <3>2, Zenon
  <2>3. QED
    BY <2>1, <2>2, Zenon
<1> HIDE DEF p, k, start
<1>8. Word(line, start) = NthWord(line, k)
  BY <1>7, NextWord, Zenon
\* and the parameters are those behind it.
<1>9. ParamsRight(line, Behind(line, k), k, params)
  BY <1>7, ArgsAreBehind, Zenon
<1>10. Prefix(line) = IF prefixed THEN Tail(NthWord(line, 1)) ELSE <<>>
  BY <1>5, Zenon DEF Prefix, p
<1>11. prefixed \in BOOLEAN /\ k = IF prefixed THEN 2 ELSE 1
  BY Zenon DEF k
<1> DEFINE msg == parse(line)
<1>12. msg.prefix = Prefix(line) /\ msg.cmd = Word(line, start) /\ msg.params = params
  BY DEF parse, start
<1> HIDE DEF prefixed, params, msg
<1>13. MeansMessage(line, msg)
  <2>1. /\ msg.cmd = NthWord(line, k)
        /\ msg.prefix = IF prefixed THEN Tail(NthWord(line, 1)) ELSE <<>>
        /\ ParamsRight(line, Behind(line, k), k, msg.params)
    BY <1>8, <1>9, <1>10, <1>12, Zenon
  <2>2. QED
    BY <1>6, <1>11, <2>1, HasMeaning, Zenon
<1>14. QED
  BY <1>13, Zenon DEF msg

\* Every text is made of the alphabet.
LEMMA TextTyped == TextSpec => [](text \in Seq(Alphabet))
<1>1. Init => text \in Seq(Alphabet)
  BY DEF Init
<1>2. text \in Seq(Alphabet) /\ [Next]_text => (text \in Seq(Alphabet))'
  <2>1. ASSUME text \in Seq(Alphabet), Next PROVE text' \in Seq(Alphabet)
    <3>1. PICK c \in Alphabet : text' = Append(text, c)
      BY <2>1, Zenon DEF Next, Grow
    <3>2. QED
      BY <2>1, <3>1
  <2>2. Alphabet' = Alphabet
    BY DEF Alphabet, Blanks
  <2>3. QED
    BY <2>1, <2>2
<1>3. QED
  BY <1>1, <1>2, PTL DEF TextSpec
-----------------------------------------------------------------------------
\* Parser::parse reads a line of any length as its words say.
THEOREM LinesParsedAsWords == TextSpec => []ParsesWords
<1>1. text \in Seq(Alphabet) => ParsesWords
  BY WordsParsed DEF ParsesWords
<1>2. QED
  BY <1>1, TextTyped, PTL

\* What PRIVMSG and TOPIC relay is read as it was said, whatever the line was
\* (relay_message, Parser::parse).
THEOREM RelayedAsSaid == TextSpec => []RelaysWhatWasSaid
<1>1. text \in Seq(Alphabet) => RelaysWhatWasSaid
  BY RelaysRight
<1>2. QED
  BY <1>1, TextTyped, PTL

\* A nickname that NICK accepts is one word in the middle of a line, and PRIVMSG
\* never takes it for a channel (checkNickValid, Parser::parse), whatever its
\* characters and its length.
THEOREM NicknamesCanBeNamed == TextSpec => []NicknamesAddressable
<1>1. text \in Seq(Alphabet) => NicknamesAddressable
  BY NicknameIsWord, WordNamed DEF NicknamesAddressable, NamesChannel
<1>2. QED
  BY <1>1, TextTyped, PTL

\* A channel name that JOIN accepts, if it has no tab, is one word in the middle of
\* a line and is taken for a channel (validChannelName, Parser::parse).
THEOREM ChannelsCanBeNamed == TextSpec => []ChannelsAddressable
<1>1. text \in Seq(Alphabet) => ChannelsAddressable
  BY ChannelNameIsWord, WordNamed DEF ChannelsAddressable, NamesChannel
<1>2. QED
  BY <1>1, TextTyped, PTL

\* A limit that MODE +l sets is the number its parameter denotes whenever int can
\* hold it, and never larger, whatever the widths of int and long (limited_usage).
THEOREM LimitsSetAsAnnounced == TextSpec => []LimitAsAnnounced
<1>1. text \in Seq(Alphabet) => LimitAsAnnounced
  BY LimitRight DEF LimitAsAnnounced
<1>2. QED
  BY <1>1, TextTyped, PTL
=============================================================================
