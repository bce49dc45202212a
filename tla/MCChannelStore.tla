--------------------------- MODULE MCChannelStore ---------------------------
(* Instance of ChannelStore for TLC.                                        *)
EXTENDS ChannelStore, TLC

CONSTANT MaxInvited     \* invitations open at once (bound of the instance)

\* Descriptors and names are interchangeable.
StoreSymmetry == Permutations(Fds) \cup Permutations(Names)

InvitationBound ==
    FoldSeq(LAMBDA chan, n : n + Len(chan.invitedFds), 0, channels) <= MaxInvited
=============================================================================
