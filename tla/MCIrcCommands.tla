--------------------------- MODULE MCIrcCommands ---------------------------
(* Instances of IrcCommands for TLC.                                        *)
EXTENDS IrcCommands, TLC

\* Descriptors and nicknames are interchangeable.
FdNickSymmetry == Permutations(Fds) \cup Permutations(Nicks)

\* No handler reads out: with this view, states that differ in what the last
\* step said are one.  Action properties are still evaluated on every step.
ServerView == <<conns, client, chans, channel>>
=============================================================================
