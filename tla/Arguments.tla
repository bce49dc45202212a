------------------------------ MODULE Arguments ------------------------------
(***************************************************************************)
(* What the handlers ask of the text of a parameter before they use it:    *)
(* nicknames (checkNickValid), channel names (validChannelName), member    *)
(* limits (limited_usage), and the lines that relay a parameter to others. *)
(***************************************************************************)
EXTENDS Integers, SequencesExt

CONSTANTS
    Letters,    \* the characters of isalpha that occur
    Special,    \* the characters of checkSpecailChar that occur
    Digits,     \* the characters of isdigit that occur
    DigitValue, \* their values
    MaxNick,    \* longest nickname (9 in the code)
    IntMax,     \* INT_MAX
    LongMax     \* LONG_MAX

ASSUME WidthAssumption == IntMax \in Nat /\ LongMax \in Nat /\ IntMax <= LongMax

ASSUME CharacterAssumption ==
    /\ (Letters \cup Special \cup Digits) \cap {" ", "\t", ":", "#"} = {}
    /\ DigitValue \in [Digits -> 0 .. 9]
-----------------------------------------------------------------------------
\* Faulty variant: the first character is not looked at.
checkNickTail(nick) ==
    /\ Len(nick) \in 1 .. MaxNick
    /\ \A i \in 2 .. Len(nick) : nick[i] \in Letters \cup Digits \cup Special \cup {"-"}

checkNickValid(nick) ==
    /\ Len(nick) \in 1 .. MaxNick
    /\ nick[1] \in Letters \cup Special
    /\ \A i \in 2 .. Len(nick) : nick[i] \in Letters \cup Digits \cup Special \cup {"-"}

\* Faulty variant: blanks are not looked for.
validNameBlanks(name) ==
    /\ Len(name) >= 2 /\ name[1] = "#"
    /\ \A i \in 2 .. Len(name) : name[i] \notin {",", ":", "\r", "\n"}

validChannelName(name) ==
    /\ Len(name) >= 2 /\ name[1] = "#"
    /\ \A i \in 2 .. Len(name) : name[i] \notin {" ", ",", ":", "\r", "\n"}

\* How PRIVMSG and TOPIC tell a channel from a nickname.
NamesChannel(target) == target[1] = "#"
-----------------------------------------------------------------------------
(* The limit of MODE +l.                                                   *)

\* The number that digits denote.
Numeral(s) ==
    LET value[n \in 0 .. Len(s)] ==
          IF n = 0 THEN 0 ELSE 10 * value[n - 1] + DigitValue[s[n]]
    IN value[Len(s)]

\* strtol: the largest long stands for every number beyond it.
strtol(s) == IF Numeral(s) > LongMax THEN LongMax ELSE Numeral(s)

\* The numbers that an int can hold.
IntValues == 2 * (IntMax + 1)

\* atoi of digits: the low bits of strtol's result, as an int.  (The standard
\* leaves a number beyond int undefined; this is what glibc does.)
atoi(s) ==
    LET low == strtol(s) % IntValues IN
    IF low > IntMax THEN low - IntValues ELSE low

\* Faulty variant: only the first character is looked at, and atoi reads on.
startsWithDigit(s) == s # <<>> /\ s[1] \in Digits

isNumber(s) == s # <<>> /\ \A i \in DOMAIN s : s[i] \in Digits

\* What atoi makes of text that begins with digits: it stops behind them.
Leading(s) ==
    LET n == SelectInSeq(s, LAMBDA c : c \notin Digits) IN
    IF n = 0 THEN s ELSE SubSeq(s, 1, n - 1)

\* Faulty variant: only 0 is refused, not what has wrapped around to a negative int.
limited_usageSigned(s) == IF isNumber(s) THEN atoi(Leading(s)) ELSE 0

\* The limit that +l with this parameter sets, 0 when the parameter is refused.
limited_usage(s) ==
    IF isNumber(s) /\ atoi(Leading(s)) > 0 THEN atoi(Leading(s)) ELSE 0
-----------------------------------------------------------------------------
\* Faulty variant: the text goes out as a word.
RelayedAsWord(nick, cmd, target, text) ==
    <<":">> \o nick \o <<" ">> \o cmd \o <<" ">> \o target \o <<" ">> \o text

\* ":nick PRIVMSG target :text", and the same for TOPIC.
Relayed(nick, cmd, target, text) ==
    <<":">> \o nick \o <<" ">> \o cmd \o <<" ">> \o target \o <<" ", ":">> \o text
=============================================================================
