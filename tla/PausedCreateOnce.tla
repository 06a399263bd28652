---------------------------- MODULE PausedCreateOnce ----------------------------
(***************************************************************************)
(* What the paused-create pipeline promises its operators: from one approval *)
(* at most one campaign is made, only behind the fence, the authority ends    *)
(* with a campaign that exists, and the dispatch of the work ends exactly     *)
(* once, or is given up.  No claimants, leases, retries or crashes.          *)
(***************************************************************************)
CONSTANTS Campaigns, Preexisting, None

VARIABLES
    phase,     \* how far the authority has come
    made,      \* the campaigns at the provider
    result,    \* the campaign the authority refers to
    dispatch   \* what became of the request to do the work

onceVars == <<phase, made, result, dispatch>>

OnceInit ==
    /\ phase = "unapproved"
    /\ made \in {{}, {Preexisting}}
    /\ result = None
    /\ dispatch = "none"

Approval ==
    /\ phase = "unapproved"
    /\ phase' = "approved" /\ dispatch' = "open"
    /\ UNCHANGED <<made, result>>

Fencing ==
    /\ phase = "approved"
    /\ phase' = "fenced"
    /\ UNCHANGED <<made, result, dispatch>>

Making ==
    /\ phase = "fenced" /\ made = {}
    /\ \E c \in Campaigns : made' = {c}
    /\ UNCHANGED <<phase, result, dispatch>>

Finishing ==
    /\ phase = "fenced"
    /\ phase' = "created"
    /\ \E c \in made : result' = c
    /\ UNCHANGED <<made, dispatch>>

\* The last attempt may be given up although the create is just finishing.
GivingUp ==
    /\ dispatch = "open"
    /\ dispatch' = "given up"
    /\ UNCHANGED <<phase, made, result>>

Settling ==
    /\ phase = "created" /\ dispatch \in {"open", "given up"}
    /\ dispatch' = "settled"
    /\ UNCHANGED <<phase, made, result>>

OnceNext == Approval \/ Fencing \/ Making \/ Finishing \/ GivingUp \/ Settling

OnceSpec == OnceInit /\ [][OnceNext]_onceVars
================================================================================
