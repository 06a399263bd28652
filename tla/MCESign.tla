--------------------------------- MODULE MCESign ---------------------------------
(* ESign on a small instance, for TLC.                                        *)
EXTENDS ESign, TLC

MCSymmetry == Permutations(Submissions) \cup Permutations(Requests)
    \cup Permutations(Processes)
================================================================================
