----------------------------- MODULE MCEmailReplies -----------------------------
(* EmailReplies on small instances, for TLC.                                 *)
EXTENDS EmailReplies, TLC

MCSymmetry == Permutations(Processes)
================================================================================
