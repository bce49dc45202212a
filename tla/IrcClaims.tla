----------------------------- MODULE IrcClaims -----------------------------
(***************************************************************************)
(* What README.md and testing.py say of the commands where the handlers do *)
(* something else.  A reply does not carry the request it answers, so the  *)
(* specification records the two requests the claims are about.            *)
(***************************************************************************)
EXTENDS IrcCommands

VARIABLE asked      \* the request just handled: a record, or Nothing

Nothing == [req |-> "none"]

ClaimInit == Init /\ asked = Nothing

\* MODE ch -k, sent by an operator of ch.
AskRemoveKey(c, ch) ==
    /\ ModeError(c, ch, "-k") = OK
    /\ secret_key(c, ch, "-k", Absent)
    /\ asked' = [req |-> "MODE -k", from |-> c, chan |-> ch]

\* MODE ch, sent by a member of ch.
AskModes(c, ch) ==
    /\ ch \in chans /\ c \in Members(ch)
    /\ modes(c, ch, Absent)
    /\ asked' = [req |-> "MODE", from |-> c, chan |-> ch]

ClaimNext ==
    \/ Next /\ asked' = Nothing
    \/ \E c \in conns, ch \in Names : AskRemoveKey(c, ch) \/ AskModes(c, ch)

ClaimSpec == ClaimInit /\ [][ClaimNext]_<<vars, asked>>
-----------------------------------------------------------------------------
\* README.md, "Remove the key: MODE #42 -k", and test 48 of testing.py: an
\* operator removes the key without giving it.
RemoveKeyWithoutParameter ==
    asked.req = "MODE -k" => channel[asked.chan].key = NoKey

\* Test 38 of testing.py: a member who asks for the modes receives 324.
ModeQueryAnswered ==
    asked.req = "MODE" =>
        \E i \in DOMAIN out[asked.from] : out[asked.from][i].cmd = "324"

\* README.md on NICK, "This informs the other clients that the nickname has
\* changed": those who share a channel with the client are told.
NickChangeAnnounced ==
    [][\A f \in conns \cap conns' :
         client[f].registered /\ client'[f].nickname # client[f].nickname =>
             \A ch \in chans : f \in Members(ch) =>
                 \A g \in Members(ch) :
                     \E i \in DOMAIN out'[g] :
                         /\ out'[g][i].cmd = "NICK"
                         /\ client'[f].nickname \in out'[g][i].who]_<<vars, asked>>
=============================================================================
