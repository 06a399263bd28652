---------------------------- MODULE AuthorityLedger ----------------------------
(***************************************************************************)
(* FirestoreAuthorityLedger (database/google_ads_authority.py): the durable *)
(* authority record of one Google Ads deployment and the dispatch outbox    *)
(* beside it.  Every operation is ONE Firestore transaction, hence one      *)
(* action here; which process calls it, and when, is left to the modules    *)
(* that extend this one.  Next lets every caller run every transaction at   *)
(* any time, so what holds here holds for whatever clients do.              *)
(*                                                                          *)
(* Abstractions.  A claimant is a model value (the code hashes a fresh      *)
(* uuid); an expiry time is "live" or "expired" relative to now; an error   *)
(* code is present or absent; the version, which grows by one per write and *)
(* is compared only by the approval (2 exactly when SERVER_VALIDATED), the  *)
(* timestamps and the event document written with each version are left     *)
(* out.                                                                     *)
(*                                                                          *)
(* A definition named ...Slip is a plausible mistake in the one below it.   *)
(* No specification uses it: put in place of that definition it shows which *)
(* property notices.                                                        *)
(***************************************************************************)
EXTENDS Naturals

CONSTANTS
    Workers,      \* claimants of the create: one per worker execution
    Dispatchers,  \* claimants of the outbox: one per dispatcher execution
    Campaigns,    \* provider resources a completion may refer to
    MaxAttempts,  \* MAX_GOOGLE_ADS_DISPATCH_ATTEMPTS
    None          \* an absent (null) field

ASSUME NoneIsNoValue == None \notin Workers \cup Dispatchers \cup Campaigns
ASSUME MaxAttemptsPositive == MaxAttempts \in Nat \ {0}

VARIABLES
    record,  \* the document google_ads_deployments/{deployment_id}
    outbox   \* its document dispatch_outbox/paused-create

ledgerVars == <<record, outbox>>

States == {"ABSENT", "INTERNAL_DRAFT", "SERVER_VALIDATED",
           "PAUSED_CREATE_APPROVED", "PAUSED_CREATED"}
OutboxStates == {"ABSENT", "PENDING", "DISPATCHING", "DISPATCHED", "FAILED"}
Leases == {"none", "live", "expired"}

Record == [state : States, worker : Workers \cup {None}, lease : Leases,
           fenced : BOOLEAN, fencer : Workers \cup {None},
           ref : Campaigns \cup {None}, error : BOOLEAN]
Outbox == [state : OutboxStates, attempts : 0..MaxAttempts,
           dispatcher : Dispatchers \cup {None}, lease : Leases,
           error : BOOLEAN]

LedgerTypeOK == record \in Record /\ outbox \in Outbox

NoRecord == [state |-> "ABSENT", worker |-> None, lease |-> "none",
             fenced |-> FALSE, fencer |-> None, ref |-> None, error |-> FALSE]
NoOutbox == [state |-> "ABSENT", attempts |-> 0, dispatcher |-> None,
             lease |-> "none", error |-> FALSE]

LedgerInit == record = NoRecord /\ outbox = NoOutbox

Approved == record.state = "PAUSED_CREATE_APPROVED"
Created  == record.state = "PAUSED_CREATED"

--------------------------------------------------------------------------------
(* The road to approval: draft, server validation, owner approval.          *)

CreateDraft ==
    /\ record.state = "ABSENT"
    /\ record' = [NoRecord EXCEPT !.state = "INTERNAL_DRAFT"]
    /\ UNCHANGED outbox

ServerValidate ==
    /\ record.state = "INTERNAL_DRAFT"
    /\ record' = [NoRecord EXCEPT !.state = "SERVER_VALIDATED"]
    /\ UNCHANGED outbox

\* The only operation that writes both documents: approval and intent.
Approve ==
    /\ record.state = "SERVER_VALIDATED"
    /\ outbox.state = "ABSENT"
    /\ record' = [NoRecord EXCEPT !.state = "PAUSED_CREATE_APPROVED"]
    /\ outbox' = [NoOutbox EXCEPT !.state = "PENDING"]

--------------------------------------------------------------------------------
(* The outbox: claimed by a dispatcher, released by it, re-armed by the      *)
(* worker it started, settled once the authority is terminal.                *)

\* The limit is compared with > instead of >=.
ExhaustedSlip == outbox.attempts > MaxAttempts

Exhausted == outbox.attempts >= MaxAttempts

\* An expired dispatch is not taken over.
OutboxClaimableSlip == Approved /\ outbox.state = "PENDING"

OutboxClaimable ==
    /\ Approved
    /\ \/ outbox.state = "PENDING"
       \/ outbox.state = "DISPATCHING" /\ outbox.lease = "expired"

\* An exhausted outbox is failed by the same transaction, which then reports
\* that nothing was claimed.
ClaimOutbox(d) ==
    /\ OutboxClaimable
    /\ outbox' = IF Exhausted
                 THEN [outbox EXCEPT !.state = "FAILED", !.dispatcher = None,
                                     !.lease = "none", !.error = TRUE]
                 ELSE [state |-> "DISPATCHING",
                       attempts |-> outbox.attempts + 1,
                       dispatcher |-> d, lease |-> "live", error |-> FALSE]
    /\ UNCHANGED record

\* The claim is cleared, its expiry is not.
RearmedSlip == [outbox EXCEPT !.state = IF Exhausted THEN "FAILED" ELSE "PENDING",
                              !.dispatcher = None, !.error = TRUE]

\* Back to PENDING, or to FAILED when the last attempt is used up.
Rearmed == [outbox EXCEPT !.state = IF Exhausted THEN "FAILED" ELSE "PENDING",
                          !.dispatcher = None, !.lease = "none", !.error = TRUE]

DispatchedBy(d) == outbox.state = "DISPATCHING" /\ outbox.dispatcher = d

\* A rejected dispatch hands its attempt back.
ReleaseOutboxSlip(d) ==
    /\ DispatchedBy(d)
    /\ outbox' = [Rearmed EXCEPT !.attempts = outbox.attempts - 1]
    /\ UNCHANGED record

ReleaseOutbox(d) ==
    /\ DispatchedBy(d)
    /\ outbox' = Rearmed
    /\ UNCHANGED record

SettledOutbox == [outbox EXCEPT !.state = "DISPATCHED", !.dispatcher = None,
                                !.lease = "none", !.error = FALSE]

\* The outbox is settled without looking at the authority.
SettleableSlip == outbox.state \notin {"ABSENT", "DISPATCHED"}

\* A failed outbox is taken for settled.
SettleableHealSlip == Created /\ outbox.state \in {"PENDING", "DISPATCHING"}

\* When reconcile_terminal_paused_create_outbox writes.
Settleable == Created /\ outbox.state \notin {"ABSENT", "DISPATCHED"}

SettleOutbox ==
    /\ Settleable
    /\ outbox' = SettledOutbox
    /\ UNCHANGED record

\* The dispatcher claim of the worker is not compared with the outbox.
RecordWorkerFailureSlip(d) ==
    /\ \/ Created /\ outbox.state # "ABSENT" /\ outbox' = SettledOutbox
       \/ Approved /\ outbox.state = "DISPATCHING" /\ outbox' = Rearmed
    /\ UNCHANGED record

\* record_paused_create_worker_failure, called with the dispatcher claim the
\* worker read before it ran: settles a terminal authority, re-arms its own
\* dispatch, and refuses any other.
RecordWorkerFailure(d) ==
    /\ \/ Created /\ outbox.state # "ABSENT" /\ outbox' = SettledOutbox
       \/ Approved /\ DispatchedBy(d) /\ outbox' = Rearmed
    /\ UNCHANGED record

--------------------------------------------------------------------------------
(* The create: claimed under a lease, fenced once and for all before the    *)
(* provider is called, completed with what the provider made.               *)

LiveClaim == record.worker # None /\ record.lease = "live"
HeldBy(w) == w \in {record.worker, record.fencer}

\* An expired claim is taken over although the create is fenced.
CreateClaimableSlip == Approved /\ outbox.state = "DISPATCHING" /\ ~LiveClaim

CreateClaimable ==
    Approved /\ outbox.state = "DISPATCHING" /\ ~LiveClaim /\ ~record.fenced

ClaimCreate(w) ==
    /\ CreateClaimable
    /\ record' = [record EXCEPT !.worker = w, !.lease = "live", !.error = FALSE]
    /\ UNCHANGED outbox

\* The holder of the fence, or of its reconciliation, may ask again and is
\* told it holds it.
MayFence(w) ==
    /\ Approved
    /\ IF record.fenced THEN HeldBy(w)
                        ELSE record.worker = w /\ record.lease = "live"

FenceCreate(w) ==
    /\ MayFence(w)
    /\ record' = IF record.fenced
                 THEN record
                 ELSE [record EXCEPT !.fenced = TRUE, !.fencer = w,
                                     !.error = FALSE]
    /\ UNCHANGED outbox

\* Unlike ClaimCreate, the transaction does not look at the outbox.
Reconcilable == Approved /\ record.fenced /\ ~LiveClaim

\* The reconciliation takes the fence over with the claim.
ClaimReconciliationSlip(w) ==
    /\ Reconcilable
    /\ record' = [record EXCEPT !.worker = w, !.lease = "live",
                                !.fencer = w, !.error = FALSE]
    /\ UNCHANGED outbox

ClaimReconciliation(w) ==
    /\ Reconcilable
    /\ record' = [record EXCEPT !.worker = w, !.lease = "live", !.error = FALSE]
    /\ UNCHANGED outbox

MayComplete(w, c) ==
    \/ Created /\ record.ref = c
    \/ Approved /\ record.fenced /\ record.lease # "none" /\ HeldBy(w)

\* A second completion overwrites the first.
CompleteCreateSlip(w, c) ==
    /\ record.fenced
    /\ record' = [record EXCEPT !.state = "PAUSED_CREATED",
                      !.worker = None, !.lease = "none",
                      !.fencer = None, !.ref = c, !.error = FALSE]
    /\ UNCHANGED outbox

CompleteCreate(w, c) ==
    /\ MayComplete(w, c)
    /\ record' = IF Created
                 THEN record
                 ELSE [record EXCEPT !.state = "PAUSED_CREATED",
                           !.worker = None, !.lease = "none",
                           !.fencer = None, !.ref = c, !.error = FALSE]
    /\ UNCHANGED outbox

\* The release forgets that a fenced create keeps its claim.
ReleaseClaimSlip(w) ==
    /\ Approved
    /\ record.worker = w
    /\ record' = [record EXCEPT !.worker = None, !.lease = "none",
                                !.error = TRUE]
    /\ UNCHANGED outbox

ReleaseClaim(w) ==
    /\ Approved
    /\ record.worker = w
    /\ ~record.fenced
    /\ record' = [record EXCEPT !.worker = None, !.lease = "none",
                                !.error = TRUE]
    /\ UNCHANGED outbox

MarkFencedFailure(w) ==
    /\ Approved /\ record.fenced /\ HeldBy(w)
    /\ record' = [record EXCEPT !.error = TRUE]
    /\ UNCHANGED outbox

--------------------------------------------------------------------------------
(* Time passes: a lease granted earlier is over.                            *)

CreateLeaseExpires ==
    /\ record.lease = "live"
    /\ record' = [record EXCEPT !.lease = "expired"]
    /\ UNCHANGED outbox

OutboxLeaseExpires ==
    /\ outbox.lease = "live"
    /\ outbox' = [outbox EXCEPT !.lease = "expired"]
    /\ UNCHANGED record

LedgerNext ==
    \/ CreateDraft \/ ServerValidate \/ Approve
    \/ SettleOutbox \/ CreateLeaseExpires \/ OutboxLeaseExpires
    \/ \E d \in Dispatchers :
           ClaimOutbox(d) \/ ReleaseOutbox(d) \/ RecordWorkerFailure(d)
    \/ \E w \in Workers :
           \/ ClaimCreate(w) \/ FenceCreate(w) \/ ClaimReconciliation(w)
           \/ ReleaseClaim(w) \/ MarkFencedFailure(w)
           \/ \E c \in Campaigns : CompleteCreate(w, c)

LedgerSpec == LedgerInit /\ [][LedgerNext]_ledgerVars

--------------------------------------------------------------------------------
(* Properties of the ledger, whatever its clients do.                       *)

\* Every document the transactions write satisfies the validator of
\* GoogleAdsDeploymentRecord.  The validator runs on every read and write and
\* fails closed, so a record that broke it could never be worked on again.
RecordValid ==
    /\ (record.worker = None) <=> (record.lease = "none")
    /\ record.worker # None \/ record.error => Approved
    /\ Created => record.ref # None /\ record.fenced /\ record.fencer = None
    /\ record.ref # None => Created
    /\ record.fenced => Approved \/ Created
    /\ record.fenced /\ Approved => record.worker # None /\ record.fencer # None
    /\ record.fencer # None => record.fenced
    /\ record.error /\ record.worker # None => record.fenced

\* The same for GoogleAdsPausedCreateOutboxRecord, and the two documents agree:
\* an outbox exists exactly from the approval on.
OutboxValid ==
    /\ (outbox.dispatcher = None) <=> (outbox.lease = "none")
    /\ outbox.state = "DISPATCHING" <=> outbox.dispatcher # None
    /\ outbox.state = "DISPATCHED" => ~outbox.error
    /\ outbox.state = "PENDING" /\ outbox.error => outbox.attempts >= 1
    /\ outbox.state = "FAILED" => outbox.attempts = MaxAttempts /\ outbox.error
    /\ outbox.state = "ABSENT" <=> ~(Approved \/ Created)

\* "Cloud Run's acceptance is not provider success": the outbox counts as
\* dispatched only when the authority records the finished create.
DispatchedOnlyWhenCreated == outbox.state = "DISPATCHED" => Created

\* A fence is never lifted, and while the create is open it stays with the
\* claimant that took it: no reconciliation, failure or late release reopens
\* the provider mutation.
FenceIsPermanent ==
    [][record.fenced => /\ record'.fenced
                        /\ Approved' => record'.fencer = record.fencer]_ledgerVars

\* A completed authority is never rewritten: a stale worker that completes,
\* releases or fails late changes nothing.
CreatedIsFinal == [][Created => record' = record]_ledgerVars

\* The dispatch budget is spent forwards only, and a failed outbox leaves that
\* state only because the create turned out to be complete.
FailedOnlyHeals ==
    [][/\ outbox'.attempts >= outbox.attempts
       /\ outbox.state = "FAILED" /\ outbox'.state # "FAILED"
            => outbox'.state = "DISPATCHED" /\ Created]_ledgerVars
================================================================================
