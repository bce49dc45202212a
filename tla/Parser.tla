------------------------------- MODULE Parser -------------------------------
(***************************************************************************)
(* Parser::parse (srcs/parsser/Parser.cpp): what a line means.  A line is a *)
(* sequence of characters; the index i of the code is a position, and      *)
(* Len(line) + 1 is its end.                                               *)
(***************************************************************************)
EXTENDS Naturals, Sequences, FiniteSets, FiniteSetsExt

Blanks == {" ", "\t"}

\* "while (i < size && blank) i++" from i on.
SkipBlanks(line, i) ==
    Min({p \in i .. Len(line) + 1 : p > Len(line) \/ line[p] \notin Blanks})

\* "while (i < size && not blank)" from i on.
WordEnd(line, i) ==
    Min({p \in i .. Len(line) + 1 : p > Len(line) \/ line[p] \in Blanks})

Word(line, i) == SubSeq(line, i, WordEnd(line, i) - 1)

\* Where the command begins: behind a first word that begins with a colon.
CommandStart(line) ==
    LET i == SkipBlanks(line, 1) IN
    IF i <= Len(line) /\ line[i] = ":" THEN SkipBlanks(line, WordEnd(line, i)) ELSE i

Prefix(line) ==
    LET i == SkipBlanks(line, 1) IN
    IF i <= Len(line) /\ line[i] = ":" THEN Tail(Word(line, i)) ELSE <<>>

\* Faulty variant: a colon anywhere in a word ends the words.
TrailingInside(line, p) ==
    \E q \in p .. WordEnd(line, p) - 1 : line[q] = ":"

\* A parameter that begins with a colon is the rest of the line.
Trailing(line, p) == line[p] = ":"

\* The loop over the parameters, from each position on.
ParamsFrom(line) ==
    LET after[i \in 1 .. Len(line) + 1] ==
          LET p == SkipBlanks(line, i) IN
          CASE p > Len(line)     -> <<>>
            [] p <= Len(line) /\ Trailing(line, p) -> <<SubSeq(line, p + 1, Len(line))>>
            [] OTHER             -> <<Word(line, p)>> \o after[WordEnd(line, p)]
    IN after

parse(line) ==
    LET i == CommandStart(line) IN
    [prefix |-> Prefix(line),
     cmd    |-> Word(line, i),
     params |-> ParamsFrom(line)[WordEnd(line, i)]]
-----------------------------------------------------------------------------
(* The reference: a line is its words, runs of characters that are not     *)
(* blank, and what the colons make of them.                                *)

WordStarts(line) ==
    {p \in DOMAIN line : line[p] \notin Blanks /\ (p = 1 \/ line[p - 1] \in Blanks)}

\* The n-th word of the line, empty if it has fewer.
NthWord(line, n) ==
    LET nth == {p \in WordStarts(line) :
                  Cardinality({q \in WordStarts(line) : q <= p}) = n} IN
    IF nth = {} THEN <<>> ELSE Word(line, Max(nth))

\* The message that a line with these words is.
MeansMessage(line, msg) ==
    LET starts   == WordStarts(line)
        prefixed == NthWord(line, 1) # <<>> /\ NthWord(line, 1)[1] = ":"
        skipped  == IF prefixed THEN 2 ELSE 1
        args     == {p \in starts : Cardinality({q \in starts : q < p}) >= skipped}
        colons   == {p \in args : line[p] = ":"}
        counted  == {p \in args : \A q \in colons : p <= q} IN
    /\ msg.cmd = NthWord(line, skipped)
    /\ msg.prefix = IF prefixed THEN Tail(NthWord(line, 1)) ELSE <<>>
    /\ Len(msg.params) = Cardinality(counted)
    /\ \A n \in DOMAIN msg.params :
         IF n = Len(msg.params) /\ colons # {}
         THEN msg.params[n] = SubSeq(line, Min(colons) + 1, Len(line))
         ELSE msg.params[n] = NthWord(line, skipped + n)
=============================================================================
