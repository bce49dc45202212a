-------------------------------- MODULE Text --------------------------------
(***************************************************************************)
(* Parser and Arguments together: every text, as a line and as a parameter *)
(* of one.                                                                 *)
(***************************************************************************)
EXTENDS Parser, Arguments

CONSTANTS
    Narrow,     \* characters of the long texts: they make words and colons
    MaxShort,   \* longest text over the whole alphabet
    MaxLong     \* longest text over Narrow

VARIABLE text

Alphabet == Blanks \cup Letters \cup Special \cup Digits \cup {":", "#", ",", "-"}

Init == text = <<>>

\* The text grows by a character.
Grow(c) ==
    /\ \/ Len(text) < MaxShort
       \/ /\ Len(text) < MaxLong
          /\ {text[i] : i \in DOMAIN text} \cup {c} \subseteq Narrow
    /\ text' = Append(text, c)

Next == \E c \in Alphabet : Grow(c)

TextSpec == Init /\ [][Next]_text

\* The parameters of "w p w" with the text as p: those of a request that names
\* something in the middle of its line.
MiddleParams(p) == parse(<<"a", " ">> \o p \o <<" ", "a">>).params
-----------------------------------------------------------------------------
\* Parser::parse reads each line as its words say: the prefix, the command, and
\* the parameters up to the first that begins with a colon, which is the rest.
ParsesWords == MeansMessage(text, parse(text))

\* PRIVMSG and TOPIC relay the target and the text of a request as trailing
\* text: whoever reads the relayed line by the same rules sees the same two,
\* whether or not the text had a colon, blanks, or nothing in it.
RelaysWhatWasSaid ==
    LET params == parse(text).params IN
    Len(params) >= 2 =>
        /\ params[1] # <<>>
        /\ parse(Relayed(<<"a">>, <<"a">>, params[1], params[2])) =
             [prefix |-> <<"a">>, cmd |-> <<"a">>, params |-> SubSeq(params, 1, 2)]

\* A nickname that NICK accepts can be named by others: it is one word, never read
\* as trailing text, and PRIVMSG never takes it for a channel.
NicknamesAddressable ==
    checkNickValid(text) =>
        MiddleParams(text) = <<text, <<"a">>>> /\ ~NamesChannel(text)

\* A channel name that JOIN accepts can be named by the other commands, and is
\* taken for a channel; a tab in it, which JOIN accepts in trailing text, is the
\* one exception.
ChannelsAddressable ==
    validChannelName(text) /\ (\A i \in DOMAIN text : text[i] # "\t") =>
        MiddleParams(text) = <<text, <<"a">>>> /\ NamesChannel(text)

\* The members hear the number that MODE +l was given.  It is a number, and what JOIN
\* will enforce is that number if int can hold it; beyond int it is another one, but
\* still a limit, and never one that admits more members than was announced.
LimitAsAnnounced ==
    limited_usage(text) # 0 =>
        /\ \A i \in DOMAIN text : text[i] \in Digits
        /\ limited_usage(text) \in 1 .. IntMax
        /\ limited_usage(text) <= Numeral(text)
        /\ Numeral(text) <= IntMax => limited_usage(text) = Numeral(text)
=============================================================================
