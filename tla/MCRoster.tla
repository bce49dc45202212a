------------------------------ MODULE MCRoster ------------------------------
(* Instance of Roster for TLC.                                              *)
EXTENDS Roster, TLC

\* Descriptors and nicknames are interchangeable.
FdNickSymmetry == Permutations(Fds) \cup Permutations(Nicks)

\* No step reads what the last one said.
RosterView == <<conns, client, chans, channel, known>>
=============================================================================
