---------------------------- MODULE MCIrcClaims ----------------------------
(* Instances of IrcClaims for TLC.                                          *)
EXTENDS IrcClaims, TLC

FdNickSymmetry == Permutations(Fds) \cup Permutations(Nicks)
=============================================================================
