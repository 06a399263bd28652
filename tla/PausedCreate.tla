------------------------------ MODULE PausedCreate ------------------------------
(***************************************************************************)
(* The jobs that drive the authority ledger and the ad provider they call:  *)
(* dispatcher executions (scripts/google_ads_paused_dispatcher_job.py),      *)
(* worker executions (scripts/google_ads_paused_worker_job.py around         *)
(* PausedCreateWorker.run in scripts/google_ads_paused_worker.py), and the   *)
(* Google Ads API as scripts/google_ads_paused_provider.py sees it.          *)
(*                                                                          *)
(* Each step of an execution is one ledger transaction, one ledger read or   *)
(* one provider call, so any interleaving of executions, lease expiries and  *)
(* provider work between two of them is a behaviour.  An execution can       *)
(* crash at any step.  A transaction can also time out for its caller while  *)
(* it goes on in the ledger's thread pool and commits later, or never        *)
(* (_run_transaction): it moves to "late".                                   *)
(*                                                                          *)
(* A claimant is a fresh uuid.  A member of Workers or Dispatchers stands    *)
(* for it and can be used again once nothing refers to it any more.          *)
(***************************************************************************)
EXTENDS AuthorityLedger

CONSTANTS
    Preexisting,  \* a campaign the provider may have had from the start
    MaxFaults     \* bound: timeouts and crashes in one behaviour

ASSUME CampaignsAreNamedByCreator == Campaigns = Workers \cup {Preexisting}
ASSUME PreexistingIsNoWorker == Preexisting \notin Workers
ASSUME MaxFaultsNat == MaxFaults \in Nat

VARIABLES
    worker,      \* per claimant, the worker execution using it
    dispatcher,  \* per claimant, where its dispatcher execution stands
    late,        \* transactions whose caller saw a timeout
    inflight,    \* create requests the provider has neither done nor refused
    campaigns,   \* campaigns the provider has made, named by their creator
    visible,     \* those a search by the contract label already returns
    faults       \* timeouts and crashes so far

procVars == <<worker, dispatcher, late, faults>>
providerVars == <<inflight, campaigns, visible>>
vars == <<ledgerVars, procVars, providerVars>>

WorkerSteps == {"idle", "get", "claim", "claimFenced", "refresh", "preflight",
                "find", "fence", "fenceFound", "create", "response", "reconcile",
                "complete", "release", "mark", "rearm", "settle"}
DispatcherSteps == {"idle", "claim", "heal", "invoke", "rejected", "release"}

\* dispatch: the dispatcher claim the job read in the outbox before it began;
\* sawFence: create_fenced_at in the record the worker read after its claim;
\* found: the campaign the provider gave it.
WorkerState == [step : WorkerSteps, dispatch : Dispatchers \cup {None},
                sawFence : BOOLEAN, found : Campaigns \cup {None}]
IdleWorker == [step |-> "idle", dispatch |-> None, sawFence |-> FALSE,
               found |-> None]

\* A transaction on its own: the operation, its claimant and its argument.
ClaimantOps == {"claim", "fence", "claimFenced", "release", "mark"}
OutboxOps == {"claimOutbox", "releaseOutbox", "rearm"}
LateOps == [op : ClaimantOps, by : Workers, arg : {None}]
      \cup [op : {"complete"}, by : Workers, arg : Campaigns]
      \cup [op : OutboxOps, by : Dispatchers, arg : {None}]
      \cup [op : {"settle"}, by : {None}, arg : {None}]

TypeOK ==
    /\ LedgerTypeOK
    /\ worker \in [Workers -> WorkerState]
    /\ dispatcher \in [Dispatchers -> DispatcherSteps]
    /\ late \subseteq LateOps
    /\ inflight \subseteq Workers
    /\ campaigns \subseteq Campaigns
    /\ visible \subseteq campaigns
    /\ faults \in 0..MaxFaults

Init ==
    /\ LedgerInit
    /\ worker = [w \in Workers |-> IdleWorker]
    /\ dispatcher = [d \in Dispatchers |-> "idle"]
    /\ late = {}
    /\ inflight = {}
    /\ campaigns \in {{}, {Preexisting}}
    /\ visible = campaigns
    /\ faults = 0

Op(name, by, arg) == [op |-> name, by |-> by, arg |-> arg]

\* What a transaction does when it commits.
Transaction(t) ==
    \/ t.op = "claim" /\ ClaimCreate(t.by)
    \/ t.op = "fence" /\ FenceCreate(t.by)
    \/ t.op = "claimFenced" /\ ClaimReconciliation(t.by)
    \/ t.op = "complete" /\ CompleteCreate(t.by, t.arg)
    \/ t.op = "release" /\ ReleaseClaim(t.by)
    \/ t.op = "mark" /\ MarkFencedFailure(t.by)
    \/ t.op = "claimOutbox" /\ ClaimOutbox(t.by)
    \/ t.op = "releaseOutbox" /\ ReleaseOutbox(t.by)
    \/ t.op = "rearm" /\ RecordWorkerFailure(t.by)
    \/ t.op = "settle" /\ SettleOutbox

Fault == faults < MaxFaults /\ faults' = faults + 1

\* The caller gives up on t (LedgerWriteError); t may still commit.
TimesOut(t) ==
    /\ Fault
    /\ late' = late \cup {t}
    /\ UNCHANGED ledgerVars

\* t answers its caller: with its effect, or with a refusal and none.
Commits(t) == Transaction(t) /\ UNCHANGED <<late, faults>>
Refused(refusal) == refusal /\ UNCHANGED <<ledgerVars, late, faults>>

GoTo(w, step) == worker' = [worker EXCEPT ![w].step = step]
Exit(w) == worker' = [worker EXCEPT ![w] = IdleWorker]
At(w, step) == worker[w].step = step

--------------------------------------------------------------------------------
(* A worker execution.                                                      *)

\* The uuid of a new execution occurs nowhere yet.
FreshWorker(w) ==
    /\ At(w, "idle")
    /\ ~HeldBy(w)
    /\ w \notin inflight \cup campaigns
    /\ \A t \in late : t.by # w

\* The job reads authority and outbox.  It is inert unless the create is
\* finished, and then only settles the outbox, or being dispatched.  Without
\* fresh PASSED access evidence it gives the dispatch back at once.
StartWorker(w) ==
    /\ FreshWorker(w)
    /\ \/ Created /\ GoTo(w, "settle")
       \/ /\ Approved /\ outbox.state = "DISPATCHING"
          /\ \E step \in {"get", "rearm"} :
                 worker' = [worker EXCEPT ![w].step = step,
                                          ![w].dispatch = outbox.dispatcher]
    /\ UNCHANGED <<ledgerVars, dispatcher, late, faults, providerVars>>

\* PausedCreateWorker.run reads the record and picks its path.
GetRecord(w) ==
    /\ At(w, "get")
    /\ GoTo(w, IF Created THEN "settle"
               ELSE IF record.fenced THEN "claimFenced" ELSE "claim")
    /\ UNCHANGED <<ledgerVars, dispatcher, late, faults, providerVars>>

\* A transaction of w and the step that follows each of its three outcomes.
Transact(w, t, refused, done, otherwise, failed) ==
    /\ \/ Commits(t) /\ GoTo(w, done)
       \/ Refused(refused) /\ GoTo(w, otherwise)
       \/ TimesOut(t) /\ GoTo(w, failed)
    /\ UNCHANGED <<dispatcher, providerVars>>

Claim(w) ==
    /\ At(w, "claim")
    /\ Transact(w, Op("claim", w, None), ~CreateClaimable,
                "preflight", "refresh", "rearm")

\* Account currency is checked next.  That it could not be is no error the
\* ledger can record: marking it is always refused.
ClaimFenced(w) ==
    /\ At(w, "claimFenced")
    /\ \E done \in {"reconcile", "rearm"} :
           Transact(w, Op("claimFenced", w, None), ~Reconcilable,
                    done, "refresh", "rearm")

\* Claimed elsewhere: the record is read again, and only a finished one is
\* worked on.
Refresh(w) ==
    /\ At(w, "refresh")
    /\ IF Created THEN GoTo(w, "settle") ELSE Exit(w)
    /\ UNCHANGED <<ledgerVars, dispatcher, late, faults, providerVars>>

\* The record is read back; account currency, contract and create graph are
\* checked and the provider validates the graph.  A release because of the
\* currency is always refused, and the claim stays.
Preflight(w) ==
    /\ At(w, "preflight")
    /\ \E step \in {"find", "release", "rearm"} :
           worker' = [worker EXCEPT ![w].step = step,
                                    ![w].sawFence = record.fenced]
    /\ UNCHANGED <<ledgerVars, dispatcher, late, faults, providerVars>>

\* A search by the contract label answers only when it is unambiguous.
LabelFinds(c) == visible = {c}

\* The search before the create: a campaign that is already there is taken
\* over, none at all leads to the fence, an error releases the claim.
Find(w) ==
    /\ At(w, "find")
    /\ \/ GoTo(w, "release")
       \/ visible = {} /\ GoTo(w, "fence")
       \/ \E c \in visible :
              /\ LabelFinds(c)
              /\ worker' = [worker EXCEPT
                     ![w].found = c,
                     ![w].step = IF worker[w].sawFence THEN "complete"
                                 ELSE "fenceFound"]
    /\ UNCHANGED <<ledgerVars, dispatcher, late, faults, providerVars>>

\* A fence that timed out is taken for one that holds.
FenceSlip(w) ==
    /\ At(w, "fence")
    /\ Transact(w, Op("fence", w, None), ~MayFence(w),
                "create", "rearm", "create")

\* A fence whose outcome is unknown is never followed by a create.
Fence(w) ==
    /\ At(w, "fence")
    /\ Transact(w, Op("fence", w, None), ~MayFence(w),
                "create", "rearm", "rearm")

FenceFound(w) ==
    /\ At(w, "fenceFound")
    /\ Transact(w, Op("fence", w, None), ~MayFence(w),
                "complete", "rearm", "rearm")

\* The create request leaves, or fails before it does.
Create(w) ==
    /\ At(w, "create")
    /\ \/ inflight' = inflight \cup {w} /\ GoTo(w, "response")
       \/ GoTo(w, "mark") /\ UNCHANGED inflight
    /\ UNCHANGED <<ledgerVars, dispatcher, late, faults, campaigns, visible>>

\* An uncertain answer is taken for success.
ResponseSlip(w) ==
    /\ At(w, "response")
    /\ worker' = [worker EXCEPT ![w].step = "complete", ![w].found = w]
    /\ UNCHANGED <<ledgerVars, dispatcher, late, faults, providerVars>>

\* What create_paused returns: the campaign read back; an error of the read
\* back, or a definite rejection of the request; or nothing certain, and the
\* worker searches for what may have been made.
Response(w) ==
    /\ At(w, "response")
    /\ \/ /\ w \in campaigns
          /\ \E c \in visible :
                 /\ LabelFinds(c)
                 /\ worker' = [worker EXCEPT ![w].step = "complete", ![w].found = c]
          /\ UNCHANGED inflight
       \/ w \in campaigns /\ GoTo(w, "mark") /\ UNCHANGED inflight
       \/ w \in inflight /\ GoTo(w, "mark") /\ inflight' = inflight \ {w}
       \/ GoTo(w, "reconcile") /\ UNCHANGED inflight
    /\ UNCHANGED <<ledgerVars, dispatcher, late, faults, campaigns, visible>>

\* A search that finds nothing leads to another create.
ReconcileSlip(w) ==
    /\ At(w, "reconcile")
    /\ \/ visible = {} /\ GoTo(w, "create")
       \/ \E c \in visible :
              /\ LabelFinds(c)
              /\ worker' = [worker EXCEPT ![w].step = "complete", ![w].found = c]
    /\ UNCHANGED <<ledgerVars, dispatcher, late, faults, providerVars>>

\* The search that decides an open outcome; it never leads to a create.
Reconcile(w) ==
    /\ At(w, "reconcile")
    /\ \/ GoTo(w, "mark")
       \/ \E c \in visible :
              /\ LabelFinds(c)
              /\ worker' = [worker EXCEPT ![w].step = "complete", ![w].found = c]
    /\ UNCHANGED <<ledgerVars, dispatcher, late, faults, providerVars>>

Complete(w) ==
    /\ At(w, "complete")
    /\ Transact(w, Op("complete", w, worker[w].found),
                ~MayComplete(w, worker[w].found), "settle", "mark", "mark")

\* Whatever becomes of recording the failure on the authority, the job goes on
\* to give the dispatch back.
Release(w) ==
    /\ At(w, "release")
    /\ Transact(w, Op("release", w, None),
                ~(Approved /\ record.worker = w /\ ~record.fenced),
                "rearm", "rearm", "rearm")

Mark(w) ==
    /\ At(w, "mark")
    /\ Transact(w, Op("mark", w, None),
                ~(Approved /\ record.fenced /\ HeldBy(w)),
                "rearm", "rearm", "rearm")

\* The last transaction of the job; whatever its outcome the job ends.
LastTransaction(w, t, refused) ==
    /\ Exit(w)
    /\ Commits(t) \/ Refused(refused) \/ TimesOut(t)
    /\ UNCHANGED <<dispatcher, providerVars>>

Rearm(w) ==
    /\ At(w, "rearm")
    /\ LastTransaction(w, Op("rearm", worker[w].dispatch, None),
                       ~Created /\ ~(Approved /\ DispatchedBy(worker[w].dispatch)))

Settle(w) ==
    /\ At(w, "settle")
    /\ LastTransaction(w, Op("settle", None, None), ~Settleable)

CrashWorker(w) ==
    /\ ~At(w, "idle")
    /\ Fault
    /\ Exit(w)
    /\ UNCHANGED <<ledgerVars, dispatcher, late, providerVars>>

WorkerStep(w) ==
    \/ GetRecord(w) \/ Claim(w) \/ ClaimFenced(w) \/ Refresh(w)
    \/ Preflight(w) \/ Find(w) \/ Fence(w) \/ FenceFound(w)
    \/ Create(w) \/ Response(w) \/ Reconcile(w) \/ Complete(w)
    \/ Release(w) \/ Mark(w) \/ Rearm(w) \/ Settle(w)

--------------------------------------------------------------------------------
(* A dispatcher execution.                                                  *)

FreshDispatcher(d) ==
    /\ dispatcher[d] = "idle"
    /\ outbox.dispatcher # d
    /\ \A w \in Workers : worker[w].dispatch # d
    /\ \A t \in late : t.by # d

DispatcherTo(d, step) == dispatcher' = [dispatcher EXCEPT ![d] = step]

\* Claims the outbox and goes on to invoke the worker job; without a claim it
\* only heals a finished authority.
DispatcherClaim(d) ==
    /\ FreshDispatcher(d)
    /\ LET t == Op("claimOutbox", d, None) IN
       \/ Commits(t) /\ DispatcherTo(d, IF Exhausted THEN "heal" ELSE "invoke")
       \/ Refused(~OutboxClaimable) /\ DispatcherTo(d, "heal")
       \/ TimesOut(t) /\ DispatcherTo(d, "idle")
    /\ UNCHANGED <<worker, providerVars>>

\* The invocation is accepted, and the execution ends; or whether it was is
\* not known; or it is definitely rejected.
Invoke(d) ==
    /\ dispatcher[d] = "invoke"
    /\ \E step \in {"idle", "heal", "rejected"} : DispatcherTo(d, step)
    /\ UNCHANGED <<ledgerVars, worker, late, faults, providerVars>>

Heal(d) ==
    /\ dispatcher[d] = "heal"
    /\ LET t == Op("settle", None, None) IN
       Commits(t) \/ Refused(~Settleable) \/ TimesOut(t)
    /\ DispatcherTo(d, "idle")
    /\ UNCHANGED <<worker, providerVars>>

\* After a rejection a finished authority is settled first; anything else has
\* its claim released.
Rejected(d) ==
    /\ dispatcher[d] = "rejected"
    /\ LET t == Op("settle", None, None) IN
       \/ Commits(t) /\ DispatcherTo(d, "idle")
       \/ /\ Refused(~Settleable)
          /\ DispatcherTo(d, IF outbox.state = "DISPATCHED" THEN "idle"
                             ELSE "release")
       \/ TimesOut(t) /\ DispatcherTo(d, "idle")
    /\ UNCHANGED <<worker, providerVars>>

ReleaseDispatch(d) ==
    /\ dispatcher[d] = "release"
    /\ LET t == Op("releaseOutbox", d, None) IN
       \/ Commits(t) /\ DispatcherTo(d, "idle")
       \/ Refused(~DispatchedBy(d)) /\ DispatcherTo(d, "heal")
       \/ TimesOut(t) /\ DispatcherTo(d, "heal")
    /\ UNCHANGED <<worker, providerVars>>

CrashDispatcher(d) ==
    /\ dispatcher[d] # "idle"
    /\ Fault
    /\ DispatcherTo(d, "idle")
    /\ UNCHANGED <<ledgerVars, worker, late, providerVars>>

DispatcherStep(d) ==
    DispatcherClaim(d) \/ Invoke(d) \/ Heal(d) \/ Rejected(d) \/ ReleaseDispatch(d)

--------------------------------------------------------------------------------
(* The surroundings: validation and approval by people, time, transactions   *)
(* nobody waits for any more, and the provider.                             *)

Prepare ==
    /\ CreateDraft \/ ServerValidate \/ Approve
    /\ UNCHANGED <<procVars, providerVars>>

LeaseExpires ==
    /\ CreateLeaseExpires \/ OutboxLeaseExpires
    /\ UNCHANGED <<procVars, providerVars>>

LateCommits(t) ==
    /\ Transaction(t)
    /\ late' = late \ {t}
    /\ UNCHANGED <<worker, dispatcher, faults, providerVars>>

LateIsDropped(t) ==
    /\ late' = late \ {t}
    /\ UNCHANGED <<ledgerVars, worker, dispatcher, faults, providerVars>>

LateEnds(t) == LateCommits(t) \/ LateIsDropped(t)

\* The provider carries out a request whatever became of its sender, or loses
\* it; a search may lag behind.
ProviderCreates(w) ==
    /\ w \in inflight
    /\ inflight' = inflight \ {w}
    /\ campaigns' = campaigns \cup {w}
    /\ UNCHANGED <<ledgerVars, procVars, visible>>

ProviderLoses(w) ==
    /\ w \in inflight
    /\ inflight' = inflight \ {w}
    /\ UNCHANGED <<ledgerVars, procVars, campaigns, visible>>

ProviderIndexes(c) ==
    /\ c \in campaigns \ visible
    /\ visible' = visible \cup {c}
    /\ UNCHANGED <<ledgerVars, procVars, inflight, campaigns>>

Provider ==
    \/ \E w \in Workers : ProviderCreates(w) \/ ProviderLoses(w)
    \/ \E c \in Campaigns : ProviderIndexes(c)

Next ==
    \/ Prepare \/ LeaseExpires \/ Provider
    \/ \E w \in Workers : StartWorker(w) \/ WorkerStep(w) \/ CrashWorker(w)
    \/ \E d \in Dispatchers : DispatcherStep(d) \/ CrashDispatcher(d)
    \/ \E t \in late : LateEnds(t)

Spec == Init /\ [][Next]_vars

\* Running executions, the provider and the ledger's threads make progress,
\* leases end, and whoever runs the dispatcher job goes on running it; nobody
\* is obliged to approve, to start a worker or to crash.
Fairness ==
    /\ WF_vars(LeaseExpires)
    /\ WF_vars(Provider)
    /\ \A w \in Workers : WF_vars(WorkerStep(w))
    /\ \A d \in Dispatchers : WF_vars(DispatcherStep(d))
    /\ WF_vars(\E t \in late : LateEnds(t))

FairSpec == Spec /\ Fairness

--------------------------------------------------------------------------------
(* Properties.                                                              *)

\* The provider is asked for the campaign once: whatever leases expire, calls
\* outlive them, executions crash or transactions commit late, no two
\* campaigns exist and no request is under way beside one.
AtMostOneCampaign ==
    /\ \A c1, c2 \in campaigns \cup inflight : c1 = c2
    /\ inflight \cap campaigns = {}

\* A provider mutation is never open without its durable fence, and while the
\* create is open the fence names the execution that sent it.
CampaignsAreFenced ==
    \A w \in inflight \cup (campaigns \ {Preexisting}) :
        /\ record.fenced
        /\ Approved => record.fencer = w

\* PAUSED_CREATED is never recorded for something the provider did not make.
CreatedIsReal == Created => record.ref \in campaigns

\* A worker re-arms only the dispatch that started it: while its lease lives, a
\* dispatch is ended without success only by the claimant it belongs to or by a
\* worker dispatched under that very claim.
OnlyOwnDispatchIsRearmed ==
    [][outbox.state = "DISPATCHING" /\ outbox.lease = "live"
            /\ outbox'.state \in {"PENDING", "FAILED"} =>
          \/ dispatcher[outbox.dispatcher] = "release"
          \/ \E w \in Workers : /\ At(w, "rearm")
                                /\ worker[w].dispatch = outbox.dispatcher
          \/ \E t \in late : t.by = outbox.dispatcher]_vars

\* Every approval comes to an end: the campaign is recorded and its dispatch
\* settled, or the attempts are used up and the outbox says so.
ApprovalSettles ==
    [](outbox.state = "PENDING" => <>(outbox.state \in {"DISPATCHED", "FAILED"}))

\* A recorded create always reaches the outbox, even when every execution that
\* knew of it crashed before settling it.
CreatedIsSettled == Created ~> outbox.state = "DISPATCHED"

--------------------------------------------------------------------------------
(* The pipeline implements PausedCreateOnce.                                *)

Phase == IF Created THEN "created"
         ELSE IF Approved THEN IF record.fenced THEN "fenced" ELSE "approved"
         ELSE "unapproved"

Dispatch == CASE outbox.state = "ABSENT" -> "none"
              [] outbox.state \in {"PENDING", "DISPATCHING"} -> "open"
              [] outbox.state = "FAILED" -> "given up"
              [] outbox.state = "DISPATCHED" -> "settled"

Once == INSTANCE PausedCreateOnce
            WITH phase <- Phase, made <- campaigns, result <- record.ref,
                 dispatch <- Dispatch

\* Every step of every job, of the provider and of a late transaction is one
\* step of that promise or none of it.
ImplementsOnce == Once!OnceSpec

--------------------------------------------------------------------------------
(* What the runbook (docs/runbooks/google-growth-activation.md) says of the   *)
(* jobs and the code does not keep.                                         *)

\* "Duplicate dispatchers use a lease and cannot submit concurrently": no two
\* executions stand between their claim and the end of their invocation.
SubmissionsAreExclusive ==
    \A e1, e2 \in Dispatchers :
        dispatcher[e1] = "invoke" /\ dispatcher[e2] = "invoke" => e1 = e2

\* The worker can consume only approved authority "while the same transaction
\* observes its durable outbox in DISPATCHING": nobody takes the authority
\* over, for a create or for its reconciliation, in any other outbox state.
ClaimsAreDispatched ==
    [][record'.worker \notin {None, record.worker}
           => outbox.state = "DISPATCHING"]_vars
================================================================================
