----------------------------- MODULE OwnerApproval -----------------------------
(******************************************************************************)
(* How an owner approves the paused create: the access-evidence job           *)
(* (scripts/google_ads_access_evidence_job.py), the step-up ceremony          *)
(* (auth/google_ads_step_up_routes.py over FirestoreStepUpStore), and the     *)
(* approval route (google_ads_admin/approval_routes.py) with its              *)
(* transaction approve_paused_create_with_proof.  It composes Passkeys,       *)
(* whose credentials the ceremony shares with login, and AuthorityLedger,     *)
(* whose Approve it guards and whose other clients go on meanwhile.           *)
(*                                                                            *)
(* A step-up request reads the evidence, reads the key, and consumes the      *)
(* nonce, an approval request is one transaction; both transactions may time  *)
(* out for their caller and commit later, or never (_run_transaction).        *)
(*                                                                            *)
(* Abstractions.  Evidence is the number of the probe it comes from, in the   *)
(* order the probes observed; a nonce stands for the context, the proof and   *)
(* the evidence document made from it, which are all hashes over it.  Time    *)
(* since a nonce was issued goes through three ages.  The contract, the caps, *)
(* the runtime gates and the source revision are constant in a revision of    *)
(* the service and left out.                                                  *)
(******************************************************************************)
EXTENDS Passkeys

CONSTANTS
    Nonces,       \* step-up challenges
    StepUps,      \* step-up/complete requests
    Approvals,    \* paused-create-approval requests
    MaxProbe,     \* bound: runs of the access-evidence job
    Workers, Dispatchers, Campaigns, MaxAttempts  \* of the ledger

ASSUME NoneIsNoNonce == None \notin Nonces
ASSUME MaxProbeNat == MaxProbe \in Nat
ASSUME NoneIsNoClaimant == None \notin Workers \cup Dispatchers \cup Campaigns
ASSUME MaxAttemptsPositive == MaxAttempts \in Nat \ {0}

VARIABLES
    record, outbox,  \* the ledger
    access,    \* the document access_evidence/{check_key}
    probe,     \* per run of the job, how far it is
    nonce,     \* google_ads_owner_step_up_nonces and the proof below each
    stepUp,    \* the step-up/complete requests
    approval,  \* the approval requests
    marker     \* the document approval_proofs/{proof_id}

Ledger == INSTANCE AuthorityLedger

evidenceVars == <<access, probe>>
stepUpVars == <<nonce, stepUp>>
approvalVars == <<approval, marker>>
vars == <<passkeyVars, record, outbox, evidenceVars, stepUpVars, approvalVars>>

Probes == 1..MaxProbe
Evidence == [probe : Probes, passed : BOOLEAN, expired : BOOLEAN]

\* "live": the nonce can be consumed; "expired": it no longer can, but a proof
\* made from it may still approve; "over": 300 seconds after the verification,
\* when the proof and the reference signed for it have run out as well.
Ages == {"live", "expired", "over"}
Later == [live |-> "expired", expired |-> "over"]
\* key and count: what the device signed; by: the key that consumed the nonce.
Nonce == [owner : Users, probe : Probes, age : Ages,
          signed : Assertion \cup {None}, by : Keys \cup {None}]
StepUpSteps == {"idle", "lookup", "consume", "late", "answered", "lost"}
StepUp == [step : StepUpSteps, nonce : Nonces \cup {None},
           seen : Credential \cup {None}]
IdleStepUp == [step |-> "idle", nonce |-> None, seen |-> None]
ApprovalSteps == {"idle", "asked", "late", "approved", "replayed"}
Approval == [step : ApprovalSteps, nonce : Nonces \cup {None}]
IdleApproval == [step |-> "idle", nonce |-> None]

ASSUME NoneIsNoDocument == None \notin Nonce /\ None \notin Evidence

TypeOK ==
    /\ PasskeyTypeOK
    /\ Ledger!LedgerTypeOK
    /\ access \in Evidence \cup {None}
    /\ probe \in [Probes -> {"idle", "read", "stale", "done"}]
    /\ nonce \in [Nonces -> Nonce \cup {None}]
    /\ stepUp \in [StepUps -> StepUp]
    /\ approval \in [Approvals -> Approval]
    /\ marker \in Nonces \cup {None}

Init ==
    /\ PasskeyInit
    /\ Ledger!LedgerInit
    /\ access = None
    /\ probe = [p \in Probes |-> "idle"]
    /\ nonce = [n \in Nonces |-> None]
    /\ stepUp = [r \in StepUps |-> IdleStepUp]
    /\ approval = [q \in Approvals |-> IdleApproval]
    /\ marker = None

--------------------------------------------------------------------------------
(* Access evidence.                                                           *)

\* The job reads the authority's version and then observes; later runs observe
\* later.
StartProbe(p) ==
    /\ probe[p] = "idle"
    /\ \A q \in Probes : q < p => probe[q] # "idle"
    /\ record.state # "ABSENT"
    /\ probe' = [probe EXCEPT ![p] = "read"]
    /\ UNCHANGED <<passkeyVars, record, outbox, access, stepUpVars, approvalVars>>

Supersedes(p) == access # None => access.probe < p

\* record_access_evidence, with whatever the probe found: refused if the
\* authority was written since it was read, or if newer evidence is there.
FinishProbe(p) ==
    /\ probe[p] \in {"read", "stale"}
    /\ probe' = [probe EXCEPT ![p] = "done"]
    /\ \/ /\ probe[p] = "read" /\ Supersedes(p)
          /\ \E passed \in BOOLEAN :
                 access' = [probe |-> p, passed |-> passed, expired |-> FALSE]
       \/ UNCHANGED access
    /\ UNCHANGED <<passkeyVars, record, outbox, stepUpVars, approvalVars>>

EvidenceExpires ==
    /\ access # None /\ ~access.expired
    /\ access' = [access EXCEPT !.expired = TRUE]
    /\ UNCHANGED <<passkeyVars, record, outbox, probe, stepUpVars, approvalVars>>

\* Fresh PASSED evidence from probe p is the current one.
Green(p) == access # None /\ access.passed /\ ~access.expired /\ access.probe = p

--------------------------------------------------------------------------------
(* The step-up ceremony.                                                      *)

\* step-up/begin, for an owner with a key: the nonce is bound to the evidence
\* the owner is shown.
BeginStepUp(n, u) ==
    /\ nonce[n] = None
    /\ u \in Protected /\ HeldBy(u) # {}
    /\ \E p \in Probes :
           /\ Green(p)
           /\ nonce' = [nonce EXCEPT ![n] = [owner |-> u, probe |-> p,
                                             age |-> "live", signed |-> None,
                                             by |-> None]]
    /\ UNCHANGED <<passkeyVars, record, outbox, evidenceVars, stepUp, approvalVars>>

SignStepUp(n, k) ==
    /\ nonce[n] # None /\ nonce[n].signed = None /\ OwnerOf[k] = nonce[n].owner
    /\ Signs(k)
    /\ nonce' = [nonce EXCEPT ![n].signed = Signature(k)]
    /\ UNCHANGED <<loginVars, record, outbox, evidenceVars, stepUp, approvalVars>>

NonceAges(n) ==
    /\ nonce[n] # None /\ nonce[n].age # "over"
    /\ nonce' = [nonce EXCEPT ![n].age = Later[@]]
    /\ UNCHANGED <<passkeyVars, record, outbox, evidenceVars, stepUp, approvalVars>>

StepUpAt(r, step) == stepUp[r].step = step
StepUpGoes(r, step) == stepUp' = [stepUp EXCEPT ![r].step = step]
StepUpFails(r) == stepUp' = [stepUp EXCEPT ![r] = IdleStepUp]
NonceOf(r) == nonce[stepUp[r].nonce]

\* step-up/complete arrives, perhaps not for the first time: the challenge
\* cookie is alive and its context is still the current one.
SubmitStepUp(r, n) ==
    /\ StepUpAt(r, "idle")
    /\ nonce[n] # None /\ nonce[n].signed # None /\ nonce[n].age = "live"
    /\ Green(nonce[n].probe)
    /\ stepUp' = [stepUp EXCEPT ![r].step = "lookup", ![r].nonce = n]
    /\ UNCHANGED <<passkeyVars, record, outbox, evidenceVars, nonce, approvalVars>>

LookUpOwnerKey(r) ==
    /\ StepUpAt(r, "lookup")
    /\ LET signed == NonceOf(r).signed
           doc == credential[signed.key]
       IN IF doc # None /\ Verifies(signed, doc)
          THEN stepUp' = [stepUp EXCEPT ![r].step = "consume", ![r].seen = doc]
          ELSE StepUpFails(r)
    /\ UNCHANGED <<passkeyVars, record, outbox, evidenceVars, nonce, approvalVars>>

\* A nonce that was consumed is consumed again.
ConsumableSlip(r) ==
    /\ NonceOf(r).age = "live"
    /\ Green(NonceOf(r).probe)
    /\ UsageMatches(NonceOf(r).signed, stepUp[r].seen)

Consumable(r) ==
    /\ NonceOf(r).by = None /\ NonceOf(r).age = "live"
    /\ Green(NonceOf(r).probe)
    /\ UsageMatches(NonceOf(r).signed, stepUp[r].seen)

\* consume_and_record: nonce, proof and use of the key in one transaction.
\* Only a caller that still waits gets the signed proof reference.
ConsumeNonce(r) ==
    /\ stepUp[r].step \in {"consume", "late"}
    /\ IF Consumable(r)
       THEN /\ nonce' = [nonce EXCEPT ![stepUp[r].nonce].by = NonceOf(r).signed.key]
            /\ RecordsUse(NonceOf(r).signed, stepUp[r].seen)
            /\ StepUpGoes(r, IF StepUpAt(r, "consume") THEN "answered" ELSE "lost")
       ELSE StepUpFails(r) /\ UNCHANGED <<nonce, credentialVars>>
    /\ UNCHANGED <<loginVars, record, outbox, evidenceVars, approvalVars>>

StepUpTimesOut(r) ==
    /\ StepUpAt(r, "consume")
    /\ StepUpGoes(r, "late")
    /\ UNCHANGED <<passkeyVars, record, outbox, evidenceVars, nonce, approvalVars>>

--------------------------------------------------------------------------------
(* The approval.                                                              *)

ApprovalAt(q, step) == approval[q].step = step

\* The answer, if somebody still waits for it.
Tells(q, step) == approval' = IF ApprovalAt(q, "asked")
                              THEN [approval EXCEPT ![q].step = step]
                              ELSE [approval EXCEPT ![q] = IdleApproval]

\* The proof references handed out and not yet expired.
References == {n \in Nonces : /\ \E r \in StepUps : StepUpAt(r, "answered")
                                                    /\ stepUp[r].nonce = n
                              /\ nonce[n].age # "over"}

\* The owner presents a reference; the same one again when an answer was lost.
AskApproval(q) ==
    /\ ApprovalAt(q, "idle")
    /\ \E n \in References :
           approval' = [approval EXCEPT ![q] = [step |-> "asked", nonce |-> n]]
    /\ UNCHANGED <<passkeyVars, record, outbox, evidenceVars, stepUpVars, marker>>

\* The evidence is compared with the proof when the nonce is consumed only.
ApprovableSlip(n) ==
    /\ record.state = "SERVER_VALIDATED" /\ outbox.state = "ABSENT"
    /\ nonce[n].by # None /\ nonce[n].age # "over"

Approvable(n) ==
    /\ record.state = "SERVER_VALIDATED" /\ outbox.state = "ABSENT"
    /\ Green(nonce[n].probe)
    /\ nonce[n].by # None /\ nonce[n].age # "over"

Decided == marker # None \/ Ledger!Approved \/ Ledger!Created

\* Any proof of an owner is answered once the approval is there.
ReplaysSlip(n) == Decided

\* The proof that approved is presented again.
Replays(n) == Decided /\ marker = n

\* A probe that read the authority before it was written will be refused.
NoteVersion ==
    probe' = [p \in Probes |-> IF probe[p] = "read" /\ record' # record
                               THEN "stale" ELSE probe[p]]

\* approve_paused_create_with_proof. A replay reports what is there and writes
\* nothing; any other proof is refused.
DecideApproval(q) ==
    /\ approval[q].step \in {"asked", "late"}
    /\ LET n == approval[q].nonce
       IN \/ /\ Decided /\ Replays(n)
             /\ Tells(q, "replayed")
             /\ UNCHANGED <<record, outbox, marker>>
          \/ /\ ~Decided /\ Approvable(n)
             /\ Ledger!Approve
             /\ marker' = n
             /\ Tells(q, "approved")
          \/ /\ ~(IF Decided THEN Replays(n) ELSE Approvable(n))
             /\ approval' = [approval EXCEPT ![q] = IdleApproval]
             /\ UNCHANGED <<record, outbox, marker>>
    /\ NoteVersion
    /\ UNCHANGED <<passkeyVars, access, stepUpVars>>

ApprovalTimesOut(q) ==
    /\ ApprovalAt(q, "asked")
    /\ approval' = [approval EXCEPT ![q].step = "late"]
    /\ UNCHANGED <<passkeyVars, record, outbox, evidenceVars, stepUpVars, marker>>

--------------------------------------------------------------------------------
(* The parts together.                                                        *)

\* Everything the ledger's other clients do.
LedgerClients ==
    /\ Ledger!LedgerNext
    /\ record.state = "SERVER_VALIDATED" => record' = record
    /\ NoteVersion
    /\ UNCHANGED <<passkeyVars, access, stepUpVars, approvalVars>>

Login ==
    /\ PasskeyNext
    /\ UNCHANGED <<record, outbox, evidenceVars, stepUpVars, approvalVars>>

Next ==
    \/ Login \/ LedgerClients
    \/ EvidenceExpires
    \/ \E p \in Probes : StartProbe(p) \/ FinishProbe(p)
    \/ \E n \in Nonces :
           \/ NonceAges(n)
           \/ \E u \in Users : BeginStepUp(n, u)
           \/ \E k \in Keys : SignStepUp(n, k)
           \/ \E r \in StepUps : SubmitStepUp(r, n)
    \/ \E r \in StepUps :
           LookUpOwnerKey(r) \/ ConsumeNonce(r) \/ StepUpTimesOut(r)
    \/ \E q \in Approvals :
           AskApproval(q) \/ DecideApproval(q) \/ ApprovalTimesOut(q)

Spec == Init /\ [][Next]_vars

--------------------------------------------------------------------------------
(* Properties.                                                                *)

\* What the owner was shown when the ceremony began is what the approval rests
\* on: between the two no newer evidence came, passed or not, and none expired.
ApprovedAsSeen ==
    [][marker' # marker => /\ access # None /\ access.passed /\ ~access.expired
                           /\ access.probe = nonce[marker'].probe]_marker

\* One ceremony gives one proof: of the requests that submit its assertion, in
\* time or late, at most one consumes the nonce.
StepUpOnce ==
    \A r, t \in StepUps :
        {stepUp[r].step, stepUp[t].step} \subseteq {"answered", "lost"} /\ r # t
            => stepUp[r].nonce # stepUp[t].nonce

\* The deployment is approved once, by one proof, and every request that is
\* told so, when it happens or in a replay, presented that proof.
AnswersAgree ==
    LET told == {q \in Approvals : approval[q].step \in {"approved", "replayed"}}
    IN /\ \A q \in told : approval[q].nonce = marker
       /\ \A p, q \in told :
              ApprovalAt(p, "approved") /\ ApprovalAt(q, "approved") => p = q

\* "Concurrent replays still have at most one winner": of all requests that
\* saw a key in one state, login or step-up, in time or late, at most one gets
\* its use accepted.
OneWinnerPerReading ==
    LET wins == {[by |-> a, key |-> Presented(a).key, seen |-> attempt[a].seen] :
                     a \in {b \in Attempts : At(b, "session")}}
           \cup {[by |-> r, key |-> NonceOf(r).signed.key, seen |-> stepUp[r].seen] :
                     r \in {t \in StepUps : stepUp[t].step \in {"answered", "lost"}}}
    IN \A v, w \in wins : v.key = w.key /\ v.seen = w.seen => v = w
================================================================================
