---------------------------- MODULE MCOwnerApproval ----------------------------
(* OwnerApproval on a small instance, for TLC.                               *)
EXTENDS OwnerApproval, TLC

CONSTANTS k1, k2, k3, owner, staff, d1

\* Two keys of an owner, the first with a signature counter, and a key of an
\* employee who is no protected owner.
MCKeys == {k1, k2, k3}
MCOwnerOf == k1 :> owner @@ k2 :> owner @@ k3 :> staff
MCCounting == {k1}

\* Requests, challenges and nonces are interchangeable.
MCSymmetry == Permutations(Attempts) \cup Permutations(Challenges)
    \cup Permutations(StepUps) \cup Permutations(Approvals) \cup Permutations(Nonces)

\* Two ceremonies, two step-ups and two approvals over two probes, with one
\* key and nobody logging in.
Approving ==
    /\ retired \subseteq {k2}
    /\ \A k \in Keys \ {k2} : credential[k] = None /\ device[k] = 0
    /\ \A c \in Challenges : challenge[c] = "new"

\* Two login attempts beside one ceremony and one step-up, with every key;
\* the employee's is registered and removed but signs nothing.
LoggingIn ==
    /\ device[k3] = 0
    /\ Cardinality({n \in Nonces : nonce[n] # None}) <= 1
    /\ Cardinality({r \in StepUps : stepUp[r] # IdleStepUp}) <= 1
    /\ \A q \in Approvals : approval[q] = IdleApproval
    /\ probe[2] = "idle"

\* Bound on the states that are explored.
MCFocus == Approving \/ LoggingIn
================================================================================
