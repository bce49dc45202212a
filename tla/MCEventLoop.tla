---------------------------- MODULE MCEventLoop ----------------------------
(* Instances of EventLoop for TLC.                                          *)
EXTENDS EventLoop

\* Descriptors are interchangeable (safety only).
FdSymmetry == Permutations(Fds)
=============================================================================
