---------------------------- MODULE MCPausedCreate ----------------------------
(* PausedCreate on small instances, for TLC.                                 *)
EXTENDS PausedCreate, TLC

CONSTANTS w1, w2, w3, d1, d2

MCWorkers1 == {w1}
MCWorkers2 == {w1, w2}
MCWorkers3 == {w1, w2, w3}
MCDispatchers == {d1, d2}
MCCampaigns1 == MCWorkers1 \cup {Preexisting}
MCCampaigns2 == MCWorkers2 \cup {Preexisting}
MCCampaigns3 == MCWorkers3 \cup {Preexisting}

\* Claimants are interchangeable: no definition names one of them.
MCSymmetry == Permutations(Workers) \cup Permutations(Dispatchers)
================================================================================
