------------------------- MODULE MCOutboundScheduler -------------------------
(* Instances of OutboundScheduler for TLC. *)
EXTENDS OutboundScheduler, TLC

CONSTANTS f1, f2, f3, f4, f5

\* The frames differ only in the lane they are given, which Init chooses, and in
\* whether their context can end.
FrameSymmetry == Permutations(Cancellable) \cup Permutations(Frames \ Cancellable)
==============================================================================
