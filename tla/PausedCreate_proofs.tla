--------------------------- MODULE PausedCreate_proofs ---------------------------
(* Proofs about PausedCreate, for any number of claimants, attempts and      *)
(* faults.  The ledger's own invariants come from AuthorityLedger_proofs,    *)
(* because every step of the jobs is a step of the ledger or leaves it be.   *)
EXTENDS PausedCreate, AuthorityLedger_proofs

USE CampaignsAreNamedByCreator, PreexistingIsNoWorker, MaxFaultsNat

\* What transactions are called with: a job completes the create with a
\* campaign it found, and re-arms a dispatch it read.
Arguments ==
    /\ \A w \in Workers :
          /\ worker[w].step \in {"fenceFound", "complete"}
                 => worker[w].found \in campaigns
          /\ worker[w].step \notin {"idle", "settle"}
                 => worker[w].dispatch \in Dispatchers
    /\ \A t \in late : t.op = "complete" => t.arg \in campaigns

Base == TypeOK /\ LedgerData /\ Arguments

--------------------------------------------------------------------------------
(* Moving one worker.                                                       *)

\* What GoTo changes of a worker, and of the others.
LEMMA Moved ==
    ASSUME TypeOK, NEW w \in Workers, NEW step \in WorkerSteps, GoTo(w, step)
    PROVE  /\ worker' \in [Workers -> WorkerState]
           /\ worker'[w].step = step
           /\ worker'[w].dispatch = worker[w].dispatch
           /\ worker'[w].found = worker[w].found
           /\ \A v \in Workers \ {w} : worker'[v] = worker[v]
BY DEF TypeOK, GoTo, WorkerState

\* What Exit leaves of a worker, and of the others.
LEMMA Exited ==
    ASSUME TypeOK, NEW w \in Workers, Exit(w)
    PROVE  /\ worker' \in [Workers -> WorkerState]
           /\ worker'[w] = IdleWorker
           /\ \A v \in Workers \ {w} : worker'[v] = worker[v]
<1>1. IdleWorker \in WorkerState
  BY DEF IdleWorker, WorkerState, WorkerSteps
<1>2. QED
  BY <1>1 DEF TypeOK, Exit

--------------------------------------------------------------------------------
(* What a transaction and a step of an execution can touch.                 *)

\* Operations a worker holds the create with.
WorkerOps == ClaimantOps \cup {"complete"}

\* A transaction, in time or late, is a step of the ledger.
LEMMA TransactionIsStep ==
    ASSUME NEW t \in LateOps, Transaction(t)
    PROVE  LedgerNext
<1> USE DEF LateOps, ClaimantOps, OutboxOps
<1>1. CASE t.op \in ClaimantOps
  <2>1. t.by \in Workers
    BY <1>1
  <2>2. QED
    BY <1>1, <2>1 DEF Transaction, LedgerNext
<1>2. CASE t.op = "complete"
  <2>1. t.by \in Workers /\ t.arg \in Campaigns
    BY <1>2
  <2>2. QED
    BY <1>2, <2>1 DEF Transaction, LedgerNext
<1>3. CASE t.op \in OutboxOps
  <2>1. t.by \in Dispatchers
    BY <1>3
  <2>2. QED
    BY <1>3, <2>1 DEF Transaction, LedgerNext
<1>4. CASE t.op = "settle"
  BY <1>4 DEF Transaction, LedgerNext
<1>5. QED
  BY <1>1, <1>2, <1>3, <1>4

\* A transaction a step of w may run or leave behind.
OwnTransaction(w, t) ==
    /\ t \in LateOps
    /\ t.op \in WorkerOps => t.by = w
    /\ t.op = "complete" => At(w, "complete") /\ t.arg = worker[w].found

\* The transactions that the steps of w are written with are its own.
LEMMA OwnOps ==
    ASSUME Base, NEW w \in Workers
    PROVE  /\ \A name \in ClaimantOps : OwnTransaction(w, Op(name, w, None))
           /\ At(w, "complete")
                  => OwnTransaction(w, Op("complete", w, worker[w].found))
           /\ At(w, "rearm")
                  => OwnTransaction(w, Op("rearm", worker[w].dispatch, None))
           /\ OwnTransaction(w, Op("settle", None, None))
<1> USE DEF OwnTransaction, Op, LateOps, ClaimantOps, OutboxOps, WorkerOps
<1>1. \A name \in ClaimantOps : OwnTransaction(w, Op(name, w, None))
  OBVIOUS
<1>2. ASSUME At(w, "complete")
      PROVE  OwnTransaction(w, Op("complete", w, worker[w].found))
  BY <1>2 DEF Base, Arguments, At, TypeOK
<1>3. ASSUME At(w, "rearm")
      PROVE  OwnTransaction(w, Op("rearm", worker[w].dispatch, None))
  BY <1>3 DEF Base, Arguments, At
<1>4. OwnTransaction(w, Op("settle", None, None))
  OBVIOUS
<1>5. QED
  BY <1>1, <1>2, <1>3, <1>4

\* A step runs at most one transaction of its own, and leaves at most one.
Effect(w) ==
    /\ UNCHANGED ledgerVars \/ \E t : OwnTransaction(w, t) /\ Transaction(t)
    /\ \A t \in late' : t \in late \/ OwnTransaction(w, t)
    /\ faults' \in 0..MaxFaults

\* Whatever becomes of a transaction of w, it has no other effect.
LEMMA TransactEffect ==
    ASSUME Base, NEW w \in Workers, NEW t, OwnTransaction(w, t),
           NEW refusal, Commits(t) \/ Refused(refusal) \/ TimesOut(t)
    PROVE  Effect(w)
<1>1. faults \in 0..MaxFaults
  BY DEF Base, TypeOK
<1>2. CASE Commits(t)
  BY <1>1, <1>2 DEF Commits, Effect
<1>3. CASE Refused(refusal)
  BY <1>1, <1>3 DEF Refused, Effect
<1>4. CASE TimesOut(t)
  BY <1>1, <1>4 DEF TimesOut, Effect, Fault
<1>5. QED
  BY <1>2, <1>3, <1>4

\* What a step of w may do to the rest of the world.
WorkerFrame(w) ==
    /\ Effect(w)
    /\ worker' \in [Workers -> WorkerState]
    /\ \A v \in Workers \ {w} : worker'[v] = worker[v]
    /\ UNCHANGED <<dispatcher, campaigns, visible>>
    /\ \/ UNCHANGED inflight
       \/ At(w, "create") /\ inflight' = inflight \cup {w}
       \/ inflight' = inflight \ {w}

\* A step without a transaction has none.
LEMMA QuietEffect ==
    ASSUME Base, NEW w \in Workers, UNCHANGED <<ledgerVars, late, faults>>
    PROVE  Effect(w)
BY DEF Base, TypeOK, Effect

\* Nor does a step with one touch the rest of the world.
LEMMA TransactFrame ==
    ASSUME Base, NEW w \in Workers, NEW t, OwnTransaction(w, t), NEW refused,
           NEW done \in WorkerSteps, NEW otherwise \in WorkerSteps,
           NEW failed \in WorkerSteps,
           Transact(w, t, refused, done, otherwise, failed)
    PROVE  WorkerFrame(w)
<1>1. Effect(w)
  BY TransactEffect DEF Transact
<1>2. PICK step \in WorkerSteps : GoTo(w, step)
  BY DEF Transact
<1>3. QED
  BY <1>1, <1>2, Moved DEF Transact, WorkerFrame, providerVars, Base

\* Nor does the last one.
LEMMA LastFrame ==
    ASSUME Base, NEW w \in Workers, NEW t, OwnTransaction(w, t), NEW refused,
           LastTransaction(w, t, refused)
    PROVE  WorkerFrame(w)
<1>1. Effect(w)
  BY TransactEffect DEF LastTransaction
<1>2. QED
  BY <1>1, Exited DEF LastTransaction, WorkerFrame, providerVars, Base

\* Every step of an execution keeps to its own transactions, its own request
\* and its own claimant.
LEMMA WorkerStepFrame ==
    ASSUME Base, NEW w \in Workers,
           StartWorker(w) \/ WorkerStep(w) \/ CrashWorker(w)
    PROVE  WorkerFrame(w)
<1>0. \A step \in {"settle", "get", "rearm", "claim", "claimFenced", "refresh",
                  "preflight", "find", "release", "fence", "fenceFound",
                  "create", "response", "reconcile", "complete", "mark"} :
          step \in WorkerSteps
  BY DEF WorkerSteps
<1>t. TypeOK
  BY DEF Base
<1>w. worker \in [Workers -> WorkerState] /\ worker[w] \in WorkerState
  BY <1>t DEF TypeOK
<1>1. CASE StartWorker(w)
  <2>1. Effect(w)
    BY <1>1, QuietEffect DEF StartWorker
  <2>2. CASE Created /\ GoTo(w, "settle")
    BY <1>0, <1>t, <1>1, <2>1, <2>2, Moved DEF StartWorker, WorkerFrame, providerVars
  <2>3. ASSUME outbox.state = "DISPATCHING", NEW step \in {"get", "rearm"},
               worker' = [worker EXCEPT ![w].step = step,
                                        ![w].dispatch = outbox.dispatcher]
        PROVE  WorkerFrame(w)
    <3>1. outbox.dispatcher \in Dispatchers
      BY <1>t, <2>3 DEF TypeOK, LedgerTypeOK, Outbox, Base, LedgerData, OutboxValid
    <3>2. worker' \in [Workers -> WorkerState]
      BY <1>0, <1>w, <2>3, <3>1 DEF WorkerState
    <3>3. \A v \in Workers \ {w} : worker'[v] = worker[v]
      BY <1>w, <2>3
    <3>4. QED
      BY <1>1, <2>1, <3>2, <3>3 DEF StartWorker, WorkerFrame, providerVars
  <2>4. QED
    BY <1>1, <2>2, <2>3 DEF StartWorker
<1>2. CASE GetRecord(w)
  <2>1. Effect(w)
    BY <1>2, QuietEffect DEF GetRecord
  <2>2. PICK step \in WorkerSteps : GoTo(w, step)
    BY <1>0, <1>2 DEF GetRecord
  <2>3. QED
    BY <1>t, <1>2, <2>1, <2>2, Moved DEF GetRecord, WorkerFrame, providerVars
<1>3. CASE Claim(w) \/ ClaimFenced(w) \/ Fence(w) \/ FenceFound(w) \/ Release(w)
           \/ Mark(w)
  <2>1. \A name \in ClaimantOps : OwnTransaction(w, Op(name, w, None))
    BY OwnOps
  <2>2. {"claim", "claimFenced", "fence", "release", "mark"} \subseteq ClaimantOps
    BY DEF ClaimantOps
  <2>3. CASE Claim(w)
    BY <1>0, <2>1, <2>2, <2>3, TransactFrame DEF Claim
  <2>4. CASE ClaimFenced(w)
    BY <1>0, <2>1, <2>2, <2>4, TransactFrame DEF ClaimFenced
  <2>5. CASE Fence(w)
    BY <1>0, <2>1, <2>2, <2>5, TransactFrame DEF Fence
  <2>6. CASE FenceFound(w)
    BY <1>0, <2>1, <2>2, <2>6, TransactFrame DEF FenceFound
  <2>7. CASE Release(w)
    BY <1>0, <2>1, <2>2, <2>7, TransactFrame DEF Release
  <2>8. CASE Mark(w)
    BY <1>0, <2>1, <2>2, <2>8, TransactFrame DEF Mark
  <2>9. QED
    BY <1>3, <2>3, <2>4, <2>5, <2>6, <2>7, <2>8
<1>4. CASE Refresh(w)
  <2>1. Effect(w)
    BY <1>4, QuietEffect DEF Refresh
  <2>2. CASE GoTo(w, "settle")
    BY <1>0, <1>t, <1>4, <2>1, <2>2, Moved DEF Refresh, WorkerFrame, providerVars
  <2>3. CASE Exit(w)
    BY <1>t, <1>4, <2>1, <2>3, Exited DEF Refresh, WorkerFrame, providerVars
  <2>4. QED
    BY <1>4, <2>2, <2>3 DEF Refresh
<1>5. CASE Preflight(w)
  <2>1. Effect(w)
    BY <1>5, QuietEffect DEF Preflight
  <2>2. record.fenced \in BOOLEAN
    BY <1>t DEF TypeOK, LedgerTypeOK, Record
  <2>3. PICK step \in WorkerSteps :
            worker' = [worker EXCEPT ![w].step = step,
                                     ![w].sawFence = record.fenced]
    BY <1>0, <1>5 DEF Preflight
  <2>4. worker' \in [Workers -> WorkerState]
    BY <1>w, <2>2, <2>3 DEF WorkerState
  <2>5. \A v \in Workers \ {w} : worker'[v] = worker[v]
    BY <1>w, <2>3
  <2>6. QED
    BY <1>5, <2>1, <2>4, <2>5 DEF Preflight, WorkerFrame, providerVars
<1>6. CASE Find(w) \/ Reconcile(w)
  <2>1. Effect(w)
    BY <1>6, QuietEffect DEF Find, Reconcile
  <2>2. CASE \E step \in WorkerSteps : GoTo(w, step)
    BY <1>t, <1>6, <2>1, <2>2, Moved
       DEF Find, Reconcile, WorkerFrame, providerVars
  <2>3. ASSUME NEW c \in visible, NEW step \in WorkerSteps,
               worker' = [worker EXCEPT ![w].found = c, ![w].step = step]
        PROVE  WorkerFrame(w)
    <3>1. c \in Campaigns
      BY <1>t DEF TypeOK
    <3>2. worker' \in [Workers -> WorkerState]
      BY <1>w, <2>3, <3>1 DEF WorkerState
    <3>3. QED
      BY <1>w, <1>6, <2>1, <2>3, <3>2
         DEF Find, Reconcile, WorkerFrame, providerVars
  <2>4. CASE Find(w)
    <3>1. SUFFICES ASSUME NEW c \in visible,
              worker' = [worker EXCEPT ![w].found = c,
                  ![w].step = IF worker[w].sawFence THEN "complete"
                              ELSE "fenceFound"]
          PROVE WorkerFrame(w)
      BY <1>0, <2>2, <2>4 DEF Find
    <3>2. QED
      BY <1>0, <2>3, <3>1
  <2>5. CASE Reconcile(w)
    <3>1. SUFFICES ASSUME NEW c \in visible,
              worker' = [worker EXCEPT ![w].step = "complete", ![w].found = c]
          PROVE WorkerFrame(w)
      BY <1>0, <2>2, <2>5 DEF Reconcile
    <3>2. worker' = [worker EXCEPT ![w].found = c, ![w].step = "complete"]
      BY <1>w, <3>1 DEF WorkerState
    <3>3. QED
      BY <1>0, <2>3, <3>2
  <2>6. QED
    BY <1>6, <2>4, <2>5
<1>7. CASE Create(w)
  <2>1. Effect(w)
    BY <1>7, QuietEffect DEF Create
  <2>2. PICK step \in WorkerSteps : GoTo(w, step)
    BY <1>0, <1>7 DEF Create
  <2>3. QED
    BY <1>t, <1>7, <2>1, <2>2, Moved DEF Create, WorkerFrame
<1>8. CASE Response(w)
  <2>1. Effect(w)
    BY <1>8, QuietEffect DEF Response
  <2>2. CASE \E step \in WorkerSteps : GoTo(w, step)
    BY <1>t, <1>8, <2>1, <2>2, Moved DEF Response, WorkerFrame
  <2>3. ASSUME NEW c \in visible,
               worker' = [worker EXCEPT ![w].step = "complete", ![w].found = c]
        PROVE  WorkerFrame(w)
    <3>1. c \in Campaigns
      BY <1>t DEF TypeOK
    <3>2. worker' \in [Workers -> WorkerState]
      BY <1>0, <1>w, <2>3, <3>1 DEF WorkerState
    <3>3. QED
      BY <1>w, <1>8, <2>1, <2>3, <3>2 DEF Response, WorkerFrame
  <2>4. QED
    BY <1>0, <1>8, <2>2, <2>3 DEF Response
<1>9. CASE Complete(w)
  BY <1>0, <1>9, OwnOps, TransactFrame DEF Complete
<1>10. CASE Rearm(w)
  BY <1>10, OwnOps, LastFrame DEF Rearm
<1>11. CASE Settle(w)
  BY <1>11, OwnOps, LastFrame DEF Settle
<1>12. CASE CrashWorker(w)
  <2>1. Effect(w)
    BY <1>t, <1>12 DEF CrashWorker, Effect, TypeOK, Fault
  <2>2. QED
    BY <1>t, <1>12, <2>1, Exited DEF CrashWorker, WorkerFrame, providerVars
<1>13. QED
  BY <1>1, <1>2, <1>3, <1>4, <1>5, <1>6, <1>7, <1>8, <1>9, <1>10, <1>11, <1>12
     DEF WorkerStep

\* What the dispatchers, the provider, time, people and transactions left
\* behind may do to the workers and their claims: no request is added, and a
\* campaign only in place of one.
Outside ==
    /\ UNCHANGED worker
    /\ dispatcher' \in [Dispatchers -> DispatcherSteps]
    /\ faults' \in 0..MaxFaults
    /\ \/ UNCHANGED ledgerVars
       \/ CreateDraft \/ ServerValidate \/ Approve
       \/ CreateLeaseExpires \/ OutboxLeaseExpires
       \/ \E t \in LateOps : Transaction(t) /\ (t \in late \/ t.op \notin WorkerOps)
    /\ \A t \in late' : t \in late \/ (t \in LateOps /\ t.op \notin WorkerOps)
    /\ \/ UNCHANGED providerVars
       \/ UNCHANGED ledgerVars /\ Provider

\* A dispatcher works on the outbox alone.
LEMMA DispatcherFrame ==
    ASSUME Base, NEW d \in Dispatchers, DispatcherStep(d) \/ CrashDispatcher(d)
    PROVE  Outside
<1>t. TypeOK
  BY DEF Base
<1>0. faults \in 0..MaxFaults /\ dispatcher \in [Dispatchers -> DispatcherSteps]
  BY <1>t DEF TypeOK
<1>1. \A step \in DispatcherSteps :
          DispatcherTo(d, step) => dispatcher' \in [Dispatchers -> DispatcherSteps]
  BY <1>0 DEF DispatcherTo
<1>2. {"idle", "claim", "heal", "invoke", "rejected", "release"} \subseteq DispatcherSteps
  BY DEF DispatcherSteps
<1>3. ASSUME NEW t \in LateOps, t.op \notin WorkerOps, NEW refusal,
             Commits(t) \/ Refused(refusal) \/ TimesOut(t),
             UNCHANGED <<worker, providerVars>>,
             dispatcher' \in [Dispatchers -> DispatcherSteps]
      PROVE  Outside
  <2>1. CASE Commits(t)
    BY <1>0, <1>3, <2>1 DEF Commits, Outside
  <2>2. CASE Refused(refusal)
    BY <1>0, <1>3, <2>2 DEF Refused, Outside
  <2>3. CASE TimesOut(t)
    BY <1>0, <1>3, <2>3 DEF TimesOut, Outside, Fault
  <2>4. QED
    BY <1>3, <2>1, <2>2, <2>3
<1>4. \A name \in {"claimOutbox", "releaseOutbox"} :
          Op(name, d, None) \in LateOps /\ Op(name, d, None).op \notin WorkerOps
  BY DEF Op, LateOps, OutboxOps, WorkerOps, ClaimantOps
<1>5. Op("settle", None, None) \in LateOps /\ Op("settle", None, None).op \notin WorkerOps
  BY DEF Op, LateOps, WorkerOps, ClaimantOps
<1>6. CASE DispatcherClaim(d)
  BY <1>1, <1>2, <1>3, <1>4, <1>6 DEF DispatcherClaim
<1>7. CASE Invoke(d)
  BY <1>0, <1>1, <1>2, <1>7 DEF Invoke, Outside
<1>8. CASE Heal(d)
  BY <1>1, <1>2, <1>3, <1>5, <1>8 DEF Heal
<1>9. CASE Rejected(d)
  BY <1>1, <1>2, <1>3, <1>5, <1>9 DEF Rejected
<1>10. CASE ReleaseDispatch(d)
  BY <1>1, <1>2, <1>3, <1>4, <1>10 DEF ReleaseDispatch
<1>11. CASE CrashDispatcher(d)
  BY <1>0, <1>1, <1>2, <1>11 DEF CrashDispatcher, Outside, Fault
<1>12. QED
  BY <1>6, <1>7, <1>8, <1>9, <1>10, <1>11 DEF DispatcherStep

\* Every step is one of a worker or one outside of them.
LEMMA NextFrame ==
    ASSUME Base, Next
    PROVE  \/ \E w \in Workers :
                 StartWorker(w) \/ WorkerStep(w) \/ CrashWorker(w)
           \/ Outside
<1>1. faults \in 0..MaxFaults /\ dispatcher \in [Dispatchers -> DispatcherSteps]
  BY DEF Base, TypeOK
<1>2. CASE Prepare \/ LeaseExpires
  BY <1>1, <1>2 DEF Prepare, LeaseExpires, Outside, procVars
<1>3. CASE Provider
  BY <1>1, <1>3 DEF Outside, procVars, Provider, ProviderCreates,
                    ProviderLoses, ProviderIndexes
<1>4. ASSUME NEW t \in late, LateEnds(t)
      PROVE  Outside
  BY <1>1, <1>4 DEF LateEnds, LateCommits, LateIsDropped, Outside, Base, TypeOK
<1>5. ASSUME NEW d \in Dispatchers, DispatcherStep(d) \/ CrashDispatcher(d)
      PROVE  Outside
  BY <1>5, DispatcherFrame
<1>6. QED
  BY <1>2, <1>3, <1>4, <1>5 DEF Next

\* Each step of the jobs is one transaction of the ledger or none.
LEMMA LedgerStep ==
    ASSUME Base, [Next]_vars
    PROVE  [LedgerNext]_ledgerVars
<1>1. CASE UNCHANGED vars
  BY <1>1 DEF vars
<1>2. ASSUME NEW w \in Workers,
             StartWorker(w) \/ WorkerStep(w) \/ CrashWorker(w)
      PROVE  [LedgerNext]_ledgerVars
  BY <1>2, WorkerStepFrame, TransactionIsStep
     DEF WorkerFrame, Effect, OwnTransaction
<1>3. CASE Outside
  <2>1. CASE \E t \in LateOps : Transaction(t)
    BY <2>1, TransactionIsStep
  <2>2. QED
    BY <1>3, <2>1 DEF Outside, LedgerNext
<1>4. QED
  BY <1>1, <1>2, <1>3, NextFrame

--------------------------------------------------------------------------------
(* What a worker has when it reaches a step.                                *)

BeforeClaim == {"get", "claim", "claimFenced"}
BeforeFence == {"preflight", "find", "fence"}
MayHaveLate == {"idle", "mark", "rearm"}

\* Where a step of w can lead, and what it then did to the ledger.
Flow(w) ==
    /\ worker'[w].step \notin {"idle", "settle"}
           => worker'[w].dispatch \in Dispatchers
    /\ worker'[w].step \in {"fenceFound", "complete"}
           => worker'[w].found \in campaigns
    /\ worker'[w].step \notin MayHaveLate
           => late' = late /\ (worker[w].step \notin MayHaveLate \/ FreshWorker(w))
    /\ worker'[w].step \in BeforeClaim
           => record' = record /\ (worker[w].step \in BeforeClaim \/ FreshWorker(w))
    /\ worker'[w].step \in BeforeFence
           => \/ record' = record /\ worker[w].step \in BeforeFence
              \/ ~record'.fenced
    /\ worker'[w].step = "fence" => visible = {}
    /\ worker'[w].step = "create" => At(w, "fence") /\ FenceCreate(w)

\* Every step of an execution keeps to the order of the steps.
LEMMA WorkerFlow ==
    ASSUME Base, NEW w \in Workers,
           StartWorker(w) \/ WorkerStep(w) \/ CrashWorker(w)
    PROVE  Flow(w)
<1>t. TypeOK
  BY DEF Base
<1>w. worker \in [Workers -> WorkerState] /\ worker[w] \in WorkerState
  BY <1>t DEF TypeOK
<1>a. /\ worker[w].step \in {"fenceFound", "complete"}
             => worker[w].found \in campaigns
      /\ worker[w].step \notin {"idle", "settle"}
             => worker[w].dispatch \in Dispatchers
      /\ visible \subseteq campaigns
  BY DEF Base, Arguments, TypeOK
<1>e. Exit(w) => worker'[w].step = "idle"
  BY <1>t, Exited DEF IdleWorker
<1> USE DEF Flow, BeforeClaim, BeforeFence, MayHaveLate, At
<1>g. \A step : GoTo(w, step) => /\ worker'[w].step = step
                                 /\ worker'[w].dispatch = worker[w].dispatch
                                 /\ worker'[w].found = worker[w].found
  BY <1>w DEF GoTo, WorkerState
<1>1. CASE StartWorker(w)
  <2>1. CASE GoTo(w, "settle")
    BY <1>g, <1>1, <2>1 DEF StartWorker
  <2>2. ASSUME outbox.state = "DISPATCHING", NEW step \in {"get", "rearm"},
               worker' = [worker EXCEPT ![w].step = step,
                                        ![w].dispatch = outbox.dispatcher]
        PROVE  Flow(w)
    <3>1. outbox.dispatcher \in Dispatchers
      BY <1>t, <2>2 DEF TypeOK, LedgerTypeOK, Outbox, Base, LedgerData, OutboxValid
    <3>2. worker'[w].step = step /\ worker'[w].dispatch \in Dispatchers
      BY <1>w, <2>2, <3>1 DEF WorkerState
    <3>3. QED
      BY <1>1, <2>2, <3>2 DEF StartWorker, ledgerVars
  <2>3. QED
    BY <1>1, <2>1, <2>2 DEF StartWorker
<1>2. CASE GetRecord(w)
  BY <1>a, <1>g, <1>2 DEF GetRecord, ledgerVars
<1>3. CASE Claim(w)
  <2>1. record \in Record
    BY <1>t DEF TypeOK, LedgerTypeOK
  <2>2. CASE Commits(Op("claim", w, None)) /\ GoTo(w, "preflight")
    <3>1. ClaimCreate(w)
      BY <2>2 DEF Commits, Transaction, Op
    <3>2. ~record'.fenced
      BY <2>1, <3>1 DEF ClaimCreate, CreateClaimable, Record
    <3>3. QED
      BY <1>a, <1>g, <1>3, <2>2, <3>2 DEF Claim, Commits
  <2>3. CASE Refused(~CreateClaimable) /\ GoTo(w, "refresh")
    BY <1>a, <1>g, <1>3, <2>3 DEF Claim, Refused
  <2>4. CASE GoTo(w, "rearm")
    BY <1>a, <1>g, <1>3, <2>4 DEF Claim
  <2>5. QED
    BY <1>3, <2>2, <2>3, <2>4 DEF Claim, Transact
<1>4. CASE ClaimFenced(w)
  BY <1>a, <1>g, <1>4 DEF ClaimFenced, Transact, Commits, Refused
<1>5. CASE Refresh(w)
  BY <1>a, <1>e, <1>g, <1>5 DEF Refresh
<1>6. CASE Preflight(w)
  <2>1. PICK step \in {"find", "release", "rearm"} :
            worker' = [worker EXCEPT ![w].step = step,
                                     ![w].sawFence = record.fenced]
    BY <1>6 DEF Preflight
  <2>2. worker'[w].step = step /\ worker'[w].dispatch = worker[w].dispatch
    BY <1>w, <2>1 DEF WorkerState
  <2>3. QED
    BY <1>a, <1>6, <2>2 DEF Preflight, ledgerVars
<1>7. CASE Find(w)
  <2>1. CASE GoTo(w, "release") \/ (visible = {} /\ GoTo(w, "fence"))
    BY <1>a, <1>g, <1>7, <2>1 DEF Find, ledgerVars
  <2>2. ASSUME NEW c \in visible, NEW step \in {"complete", "fenceFound"},
               worker' = [worker EXCEPT ![w].found = c, ![w].step = step]
        PROVE  Flow(w)
    <3>1. /\ worker'[w].step = step /\ worker'[w].found = c
          /\ worker'[w].dispatch = worker[w].dispatch
      BY <1>w, <2>2 DEF WorkerState
    <3>2. QED
      BY <1>a, <1>7, <2>2, <3>1 DEF Find
  <2>3. QED
    BY <1>7, <2>1, <2>2 DEF Find
<1>8. CASE Fence(w)
  <2>1. CASE Commits(Op("fence", w, None)) /\ GoTo(w, "create")
    <3>1. FenceCreate(w)
      BY <2>1 DEF Commits, Transaction, Op
    <3>2. QED
      BY <1>a, <1>g, <1>8, <2>1, <3>1 DEF Fence, Commits
  <2>2. CASE GoTo(w, "rearm")
    BY <1>a, <1>g, <1>8, <2>2 DEF Fence
  <2>3. QED
    BY <1>8, <2>1, <2>2 DEF Fence, Transact
<1>9. CASE FenceFound(w)
  BY <1>a, <1>g, <1>9 DEF FenceFound, Transact, Commits
<1>10. CASE Create(w)
  BY <1>a, <1>g, <1>10 DEF Create
<1>11. ASSUME At(w, "response") \/ At(w, "reconcile"), late' = late,
              \/ GoTo(w, "mark") \/ GoTo(w, "reconcile")
              \/ \E c \in visible : worker' =
                     [worker EXCEPT ![w].step = "complete", ![w].found = c]
       PROVE  Flow(w)
  <2>1. CASE GoTo(w, "mark") \/ GoTo(w, "reconcile")
    BY <1>a, <1>g, <1>11, <2>1
  <2>2. ASSUME NEW c \in visible, worker' =
                   [worker EXCEPT ![w].step = "complete", ![w].found = c]
        PROVE  Flow(w)
    <3>1. /\ worker'[w].step = "complete" /\ worker'[w].found = c
          /\ worker'[w].dispatch = worker[w].dispatch
      BY <1>w, <2>2 DEF WorkerState
    <3>2. QED
      BY <1>a, <1>11, <3>1
  <2>3. QED
    BY <1>11, <2>1, <2>2
<1>12. CASE Response(w) \/ Reconcile(w)
  BY <1>11, <1>12 DEF Response, Reconcile
<1>13. CASE Complete(w) \/ Release(w) \/ Mark(w)
  BY <1>a, <1>g, <1>13 DEF Complete, Release, Mark, Transact, Commits
<1>14. CASE Rearm(w) \/ Settle(w) \/ CrashWorker(w)
  BY <1>e, <1>14 DEF Rearm, Settle, CrashWorker, LastTransaction
<1>15. QED
  BY <1>1, <1>2, <1>3, <1>4, <1>5, <1>6, <1>7, <1>8, <1>9, <1>10, <1>12,
     <1>13, <1>14 DEF WorkerStep

--------------------------------------------------------------------------------
(* Types and arguments.                                                     *)

\* The types, the ledger and the arguments hold at the start.
LEMMA BaseInit == Init => Base
<1>1. Init => LedgerTypeOK /\ LedgerData
  BY LedgerTypeInit, LedgerDataInit DEF Init
<1>2. IdleWorker \in WorkerState
  BY DEF IdleWorker, WorkerState, WorkerSteps
<1>3. "idle" \in DispatcherSteps
  BY DEF DispatcherSteps
<1>4. Init => TypeOK
  BY <1>1, <1>2, <1>3 DEF Init, TypeOK
<1>5. Init => Arguments
  BY DEF Init, Arguments, IdleWorker
<1>6. QED
  BY <1>1, <1>4, <1>5 DEF Base

\* The provider only turns requests into campaigns, and shows what it has.
LEMMA ProviderStep ==
    ASSUME TypeOK, Provider
    PROVE  /\ inflight' \subseteq inflight
           /\ campaigns \subseteq campaigns'
           /\ campaigns' \subseteq campaigns \cup inflight
           /\ visible \subseteq visible' /\ visible' \subseteq campaigns'
           /\ inflight' \cap campaigns' \subseteq campaigns
BY DEF TypeOK, Provider, ProviderCreates, ProviderLoses, ProviderIndexes

\* Every step of the jobs, of the provider and of late transactions keeps them.
LEMMA BaseStep == Base /\ [Next]_vars => Base'
<1> SUFFICES ASSUME Base, [Next]_vars PROVE Base'
  OBVIOUS
<1>t. TypeOK
  BY DEF Base
<1>l. LedgerTypeOK' /\ LedgerData'
  BY <1>t, LedgerStep, LedgerTypeStep, LedgerDataStep DEF Base, TypeOK
<1>1. CASE UNCHANGED vars
  BY <1>1, <1>l
     DEF vars, procVars, providerVars, Base, TypeOK, Arguments
<1>2. ASSUME NEW w \in Workers,
             StartWorker(w) \/ WorkerStep(w) \/ CrashWorker(w)
      PROVE  Base'
  <2>1. WorkerFrame(w) /\ Flow(w)
    BY <1>2, WorkerStepFrame, WorkerFlow
  <2>2. TypeOK'
    <3>1. late' \subseteq LateOps
      BY <1>t, <2>1 DEF WorkerFrame, Effect, OwnTransaction, TypeOK
    <3>2. inflight' \subseteq Workers
      BY <1>t, <2>1 DEF WorkerFrame, TypeOK
    <3>3. QED
      BY <1>t, <1>l, <2>1, <3>1, <3>2 DEF WorkerFrame, Effect, TypeOK
  <2>3. ASSUME NEW t \in late', t.op = "complete"
        PROVE  t.arg \in campaigns'
    BY <2>1, <2>3 DEF WorkerFrame, Effect, OwnTransaction, Base, Arguments, At
  <2>4. ASSUME NEW v \in Workers
        PROVE  /\ worker'[v].step \in {"fenceFound", "complete"}
                      => worker'[v].found \in campaigns'
               /\ worker'[v].step \notin {"idle", "settle"}
                      => worker'[v].dispatch \in Dispatchers
    <3>1. campaigns' = campaigns
      BY <2>1 DEF WorkerFrame
    <3>2. CASE v = w
      BY <2>1, <3>1, <3>2 DEF Flow
    <3>3. CASE v # w
      BY <2>1, <3>1, <3>3 DEF WorkerFrame, Base, Arguments
    <3>4. QED
      BY <3>2, <3>3
  <2>5. QED
    BY <1>l, <2>2, <2>3, <2>4 DEF Base, Arguments
<1>3. CASE Outside
  <2>1. /\ inflight' \subseteq inflight
        /\ campaigns \subseteq campaigns'
        /\ campaigns' \subseteq campaigns \cup inflight
        /\ visible' \subseteq campaigns'
    BY <1>t, <1>3, ProviderStep DEF Outside, providerVars, TypeOK
  <2>2. late' \subseteq LateOps
    BY <1>t, <1>3 DEF Outside, TypeOK
  <2>3. TypeOK'
    BY <1>t, <1>l, <1>3, <2>1, <2>2 DEF Outside, TypeOK
  <2>4. Arguments'
    <3>1. \A t \in late' : t.op = "complete" => t \in late
      BY <1>3 DEF Outside, WorkerOps
    <3>2. QED
      BY <1>3, <2>1, <3>1 DEF Outside, Base, Arguments
  <2>5. QED
    BY <1>l, <2>3, <2>4 DEF Base
<1>4. QED
  BY <1>1, <1>2, <1>3, NextFrame

\* Every job, dispatcher and late transaction keeps the schema of the two
\* documents and calls transactions with what they are meant for.
THEOREM TypeCorrect == Spec => []TypeOK
<1>1. Base => TypeOK
  BY DEF Base
<1>2. QED
  BY <1>1, BaseInit, BaseStep, PTL DEF Spec

\* The jobs, the provider, crashes and late transactions included, are clients
\* of the ledger: whatever is proved of LedgerSpec holds of them.
THEOREM JobsUseLedger == Spec => LedgerSpec
<1>1. Init => LedgerInit
  BY DEF Init
<1>2. Base /\ [Next]_vars => [LedgerNext]_ledgerVars
  BY LedgerStep
<1>3. QED
  BY <1>1, <1>2, BaseInit, BaseStep, PTL DEF Spec, LedgerSpec

--------------------------------------------------------------------------------
(* One campaign.                                                            *)

NothingLate(w) == \A t \in late : t.op \in WorkerOps => t.by # w

\* A worker that has not given up waits for no transaction of its own, and
\* cannot hold the fence before it asked for it.
ClaimsInOrder ==
    \A w \in Workers :
        /\ worker[w].step \notin MayHaveLate => NothingLate(w)
        /\ worker[w].step \in BeforeClaim => ~HeldBy(w)
        /\ worker[w].step \in BeforeFence => ~(record.fenced /\ HeldBy(w))

\* Only the holder of the fence is about to create, and then nothing exists:
\* its search would have found a campaign that was there all along, and any
\* other is behind a fence it could not have taken.
CreatorIsAlone ==
    /\ Preexisting \in campaigns => Preexisting \in visible
    /\ \A w \in Workers :
          /\ At(w, "fence") => Preexisting \notin campaigns
          /\ At(w, "create") =>
                 /\ Approved /\ record.fenced /\ record.fencer = w
                 /\ inflight = {} /\ campaigns = {}

Inductive ==
    /\ Base /\ ClaimsInOrder /\ CreatorIsAlone
    /\ AtMostOneCampaign /\ CampaignsAreFenced /\ CreatedIsReal

\* A transaction of another gives v neither the claim nor the fence, and puts
\* no fence on a create while v holds it.
LEMMA Rival ==
    ASSUME LedgerTypeOK, LedgerData, NEW t \in LateOps, Transaction(t),
           NEW v \in Workers, t.op \in WorkerOps => t.by # v
    PROVE  /\ HeldBy(v)' => HeldBy(v)
           /\ record'.fenced /\ HeldBy(v)' => record.fenced /\ HeldBy(v)
<1> USE DEF HeldBy
<1>r. record \in Record /\ v # None
  BY NoneIsNoValue DEF LedgerTypeOK
<1>1. CASE record' = record
  BY <1>1
<1>2. ASSUME NEW u \in Workers, u # v,
             \/ ClaimCreate(u) \/ FenceCreate(u) \/ ClaimReconciliation(u)
             \/ ReleaseClaim(u) \/ MarkFencedFailure(u)
             \/ \E c \in Campaigns : CompleteCreate(u, c)
      PROVE  /\ HeldBy(v)' => HeldBy(v)
             /\ record'.fenced /\ HeldBy(v)' => record.fenced /\ HeldBy(v)
  <2> USE DEF Record
  <2>1. CASE ClaimCreate(u)
    BY <1>r, <1>2, <2>1 DEF ClaimCreate, CreateClaimable
  <2>2. CASE FenceCreate(u)
    BY <1>r, <1>2, <2>2 DEF FenceCreate, MayFence
  <2>3. CASE ClaimReconciliation(u)
    BY <1>r, <1>2, <2>3 DEF ClaimReconciliation, Reconcilable
  <2>4. CASE ReleaseClaim(u) \/ MarkFencedFailure(u)
    BY <1>r, <1>2, <2>4 DEF ReleaseClaim, MarkFencedFailure
  <2>5. ASSUME NEW c \in Campaigns, CompleteCreate(u, c)
        PROVE  /\ HeldBy(v)' => HeldBy(v)
               /\ record'.fenced /\ HeldBy(v)' => record.fenced /\ HeldBy(v)
    BY <1>r, <1>2, <2>5 DEF CompleteCreate
  <2>6. QED
    BY <1>2, <2>1, <2>2, <2>3, <2>4, <2>5
<1>3. CASE t.op \in WorkerOps
  <2>1. t.by \in Workers /\ t.by # v /\ (t.op = "complete" => t.arg \in Campaigns)
    BY <1>3 DEF LateOps, WorkerOps, ClaimantOps, OutboxOps
  <2>2. QED
    BY <1>2, <1>3, <2>1 DEF Transaction, WorkerOps, ClaimantOps
<1>4. CASE t.op \notin WorkerOps
  BY <1>1, <1>4 DEF Transaction, WorkerOps, ClaimantOps, ClaimOutbox,
                    ReleaseOutbox, RecordWorkerFailure, SettleOutbox
<1>5. QED
  BY <1>3, <1>4

\* An open authority stays approved until it is completed.
LEMMA ApprovalStep ==
    ASSUME LedgerTypeOK, [LedgerNext]_ledgerVars, Approved
    PROVE  Approved' \/ Created'
<1> USE DEF LedgerTypeOK, Record, Approved, Created
<1>1. ASSUME NEW w \in Workers, NEW c \in Campaigns, CompleteCreate(w, c)
      PROVE  Approved' \/ Created'
  BY <1>1 DEF CompleteCreate
<1>2. ASSUME NEW w \in Workers,
             \/ ClaimCreate(w) \/ FenceCreate(w) \/ ClaimReconciliation(w)
             \/ ReleaseClaim(w) \/ MarkFencedFailure(w)
      PROVE  Approved'
  BY <1>2 DEF ClaimCreate, FenceCreate, ClaimReconciliation, ReleaseClaim,
              MarkFencedFailure
<1>3. CASE CreateLeaseExpires
  BY <1>3 DEF CreateLeaseExpires
<1>4. CASE UNCHANGED record
  BY <1>4
<1>5. QED
  BY <1>1, <1>2, <1>3, <1>4
     DEF LedgerNext, CreateDraft, ServerValidate, Approve, SettleOutbox,
         OutboxLeaseExpires, ClaimOutbox, ReleaseOutbox, RecordWorkerFailure,
         ledgerVars

\* A step that completes the authority refers it to a campaign.
LEMMA CompletionIsReal ==
    ASSUME Base, [Next]_vars, ~Created, Created'
    PROVE  record'.ref \in campaigns
<1>r. record \in Record
  BY DEF Base, TypeOK, LedgerTypeOK
<1>1. ASSUME NEW t \in LateOps, Transaction(t)
      PROVE  t.op = "complete" /\ record'.ref = t.arg
  <2>1. ~ \/ t.op \in OutboxOps \cup {"settle"}
          \/ UNCHANGED record
    BY <1>1 DEF OutboxOps, Transaction, ClaimOutbox, ReleaseOutbox,
                RecordWorkerFailure, SettleOutbox, Created
  <2>2. t.op \notin ClaimantOps
    BY <1>r, <1>1 DEF ClaimantOps, Transaction, ClaimCreate, FenceCreate,
              ClaimReconciliation, ReleaseClaim, MarkFencedFailure, Created, Record
  <2>3. t.op = "complete"
    BY <2>1, <2>2 DEF LateOps
  <2>4. QED
    BY <1>r, <1>1, <2>3 DEF Transaction, CompleteCreate, Record
<1>2. ASSUME NEW w \in Workers,
             StartWorker(w) \/ WorkerStep(w) \/ CrashWorker(w)
      PROVE  record'.ref \in campaigns
  <2>1. PICK t : OwnTransaction(w, t) /\ Transaction(t)
    BY <1>2, WorkerStepFrame DEF WorkerFrame, Effect, ledgerVars, Created
  <2>2. t.op = "complete" /\ record'.ref = t.arg
    BY <1>1, <2>1 DEF OwnTransaction
  <2>3. QED
    BY <2>1, <2>2 DEF OwnTransaction, Base, Arguments, At
<1>3. CASE Outside
  <2>1. \/ UNCHANGED record
        \/ CreateDraft \/ ServerValidate \/ Approve \/ CreateLeaseExpires
        \/ \E t \in LateOps :
               Transaction(t) /\ (t \in late \/ t.op \notin WorkerOps)
    BY <1>3 DEF Outside, ledgerVars, OutboxLeaseExpires
  <2>2. ~ \/ CreateDraft \/ ServerValidate \/ Approve \/ CreateLeaseExpires
    BY <1>r DEF CreateDraft, ServerValidate, Approve, CreateLeaseExpires,
                Created, NoRecord, Record
  <2>3. ~ UNCHANGED record
    BY DEF Created
  <2>4. PICK t \in LateOps : Transaction(t) /\ (t \in late \/ t.op \notin WorkerOps)
    BY <2>1, <2>2, <2>3
  <2>5. QED
    BY <1>1, <2>4 DEF WorkerOps, Base, Arguments
<1>4. QED
  BY <1>2, <1>3, NextFrame DEF vars, ledgerVars, Created

\* Nobody has claimed or asked for anything at the start.
LEMMA InductiveInit == Init => Inductive
<1> SUFFICES ASSUME Init PROVE Inductive
  OBVIOUS
<1>1. /\ \A w \in Workers : worker[w].step = "idle"
      /\ late = {} /\ inflight = {} /\ campaigns \subseteq {Preexisting}
      /\ visible = campaigns /\ record.state = "ABSENT"
  BY DEF Init, IdleWorker, LedgerInit, NoRecord
<1>2. ClaimsInOrder
  BY <1>1 DEF ClaimsInOrder, MayHaveLate, BeforeClaim, BeforeFence
<1>3. CreatorIsAlone
  BY <1>1 DEF CreatorIsAlone, At
<1>4. AtMostOneCampaign /\ CampaignsAreFenced /\ CreatedIsReal
  BY <1>1 DEF AtMostOneCampaign, CampaignsAreFenced, CreatedIsReal, Created
<1>5. QED
  BY <1>2, <1>3, <1>4, BaseInit DEF Inductive

\* The order of claim, fence and create is kept.
LEMMA ClaimsInOrderStep ==
    ASSUME Inductive, [Next]_vars
    PROVE  ClaimsInOrder'
<1>1. CASE UNCHANGED vars
  BY <1>1 DEF vars, procVars, ledgerVars, Inductive, ClaimsInOrder, NothingLate,
              HeldBy
<1>b. Base /\ LedgerTypeOK /\ LedgerData
  BY DEF Inductive, Base, TypeOK
<1> SUFFICES ASSUME Next, NEW v \in Workers
             PROVE  /\ worker'[v].step \notin MayHaveLate => NothingLate(v)'
                    /\ worker'[v].step \in BeforeClaim => ~HeldBy(v)'
                    /\ worker'[v].step \in BeforeFence
                           => ~(record'.fenced /\ HeldBy(v)')
  BY <1>1 DEF ClaimsInOrder
<1>o. /\ worker[v].step \notin MayHaveLate => NothingLate(v)
      /\ worker[v].step \in BeforeClaim => ~HeldBy(v)
      /\ worker[v].step \in BeforeFence => ~(record.fenced /\ HeldBy(v))
  BY DEF Inductive, ClaimsInOrder
<1>2. CASE StartWorker(v) \/ WorkerStep(v) \/ CrashWorker(v)
  <2>1. Flow(v)
    BY <1>b, <1>2, WorkerFlow
  <2>2. FreshWorker(v) => NothingLate(v) /\ ~HeldBy(v)
    BY DEF FreshWorker, NothingLate
  <2>3. worker'[v].step \notin MayHaveLate => NothingLate(v)'
    BY <1>o, <2>1, <2>2 DEF Flow, NothingLate
  <2>4. worker'[v].step \in BeforeClaim => ~HeldBy(v)'
    BY <1>o, <2>1, <2>2 DEF Flow, HeldBy
  <2>5. worker'[v].step \in BeforeFence => ~(record'.fenced /\ HeldBy(v)')
    BY <1>o, <2>1 DEF Flow, HeldBy
  <2>6. QED
    BY <2>3, <2>4, <2>5
\* A step of anyone else: what it commits or leaves behind is not v's.
<1>3. ASSUME worker'[v] = worker[v],
             \A t \in late' : t \in late \/ (t.op \in WorkerOps => t.by # v),
             NothingLate(v) => /\ HeldBy(v)' => HeldBy(v)
                               /\ record'.fenced /\ HeldBy(v)'
                                      => record.fenced /\ HeldBy(v)
      PROVE  /\ worker'[v].step \notin MayHaveLate => NothingLate(v)'
             /\ worker'[v].step \in BeforeClaim => ~HeldBy(v)'
             /\ worker'[v].step \in BeforeFence => ~(record'.fenced /\ HeldBy(v)')
  <2>1. NothingLate(v) => NothingLate(v)'
    BY <1>3 DEF NothingLate
  <2>2. worker[v].step \in BeforeClaim \cup BeforeFence
            => worker[v].step \notin MayHaveLate
    BY DEF BeforeClaim, BeforeFence, MayHaveLate
  <2>3. QED
    BY <1>3, <1>o, <2>1, <2>2
<1>4. ASSUME NEW w \in Workers, w # v,
             StartWorker(w) \/ WorkerStep(w) \/ CrashWorker(w)
      PROVE  /\ worker'[v].step \notin MayHaveLate => NothingLate(v)'
             /\ worker'[v].step \in BeforeClaim => ~HeldBy(v)'
             /\ worker'[v].step \in BeforeFence => ~(record'.fenced /\ HeldBy(v)')
  <2>1. WorkerFrame(w)
    BY <1>b, <1>4, WorkerStepFrame
  <2>2. \A t \in late' : t \in late \/ (t.op \in WorkerOps => t.by # v)
    BY <1>4, <2>1 DEF WorkerFrame, Effect, OwnTransaction
  <2>3. /\ HeldBy(v)' => HeldBy(v)
        /\ record'.fenced /\ HeldBy(v)' => record.fenced /\ HeldBy(v)
    <3>1. CASE UNCHANGED ledgerVars
      BY <3>1 DEF ledgerVars, HeldBy
    <3>2. ASSUME NEW t, OwnTransaction(w, t), Transaction(t)
          PROVE  /\ HeldBy(v)' => HeldBy(v)
                 /\ record'.fenced /\ HeldBy(v)' => record.fenced /\ HeldBy(v)
      BY <1>b, <1>4, <3>2, Rival DEF OwnTransaction
    <3>3. QED
      BY <2>1, <3>1, <3>2 DEF WorkerFrame, Effect
  <2>4. worker'[v] = worker[v]
    BY <1>4, <2>1 DEF WorkerFrame
  <2>5. QED
    BY <1>3, <2>2, <2>3, <2>4
<1>5. CASE Outside
  <2>1. \A t \in late' : t \in late \/ (t.op \in WorkerOps => t.by # v)
    BY <1>5 DEF Outside
  <2>2. ASSUME NothingLate(v)
        PROVE  /\ HeldBy(v)' => HeldBy(v)
               /\ record'.fenced /\ HeldBy(v)' => record.fenced /\ HeldBy(v)
    <3>r. record \in Record /\ v # None
      BY <1>b, NoneIsNoValue DEF LedgerTypeOK
    <3>1. CASE UNCHANGED record
      BY <3>1 DEF HeldBy
    <3>2. CASE CreateDraft \/ ServerValidate \/ Approve
      BY <3>r, <3>2 DEF CreateDraft, ServerValidate, Approve, NoRecord, HeldBy
    <3>3. CASE CreateLeaseExpires
      BY <3>r, <3>3 DEF CreateLeaseExpires, HeldBy, Record
    <3>4. ASSUME NEW t \in LateOps, Transaction(t), t \in late \/ t.op \notin WorkerOps
          PROVE  /\ HeldBy(v)' => HeldBy(v)
                 /\ record'.fenced /\ HeldBy(v)' => record.fenced /\ HeldBy(v)
      BY <1>b, <2>2, <3>4, Rival DEF NothingLate
    <3>5. QED
      BY <1>5, <3>1, <3>2, <3>3, <3>4 DEF Outside, ledgerVars, OutboxLeaseExpires
  <2>3. QED
    BY <1>3, <1>5, <2>1, <2>2 DEF Outside
<1>6. QED
  BY <1>b, <1>2, <1>4, <1>5, NextFrame

\* What the provider's side of a step is: one request of the creator is added,
\* or requests become campaigns or go.
ProviderSide(w) == At(w, "create") /\ inflight' = inflight \cup {w}
                   /\ campaigns' = campaigns /\ visible' = visible
RequestsEnd ==
    /\ inflight' \subseteq inflight
    /\ campaigns \subseteq campaigns' /\ campaigns' \subseteq campaigns \cup inflight
    /\ inflight' \cap campaigns' \subseteq campaigns
    /\ visible \subseteq visible'

\* What becomes of the requests and the campaigns in one step.
LEMMA ProviderSteps ==
    ASSUME Base, [Next]_vars
    PROVE  RequestsEnd \/ \E w \in Workers : ProviderSide(w)
<1>t. TypeOK
  BY DEF Base
<1>1. CASE UNCHANGED providerVars
  BY <1>1 DEF providerVars, RequestsEnd
<1>2. ASSUME NEW w \in Workers,
             StartWorker(w) \/ WorkerStep(w) \/ CrashWorker(w)
      PROVE  RequestsEnd \/ ProviderSide(w)
  BY <1>2, WorkerStepFrame DEF WorkerFrame, RequestsEnd, ProviderSide
<1>3. CASE Outside
  BY <1>t, <1>1, <1>3, ProviderStep DEF Outside, RequestsEnd
<1>4. QED
  BY <1>1, <1>2, <1>3, NextFrame DEF vars

\* A fenced record, seen by any step: the fence stays, with its holder, and the
\* authority was open if it still is.
LEMMA FencedStep ==
    ASSUME Base, [Next]_vars, record.fenced
    PROVE  /\ record'.fenced
           /\ Approved' => Approved /\ record'.fencer = record.fencer
<1>1. LedgerTypeOK /\ LedgerData /\ [LedgerNext]_ledgerVars
  BY LedgerStep DEF Base, TypeOK
<1>2. record'.fenced /\ (Approved' => record'.fencer = record.fencer)
  BY <1>1, FenceStep
<1>3. Approved \/ Created
  BY <1>1 DEF LedgerData, RecordValid
<1>4. Created => ~Approved'
  BY <1>1, CreatedStep DEF Created, Approved
<1>5. QED
  BY <1>2, <1>3, <1>4

\* A request leaves only under the fence of its sender.
LEMMA CampaignsAreFencedStep ==
    ASSUME Inductive, [Next]_vars
    PROVE  CampaignsAreFenced'
<1>b. Base
  BY DEF Inductive
<1> SUFFICES ASSUME NEW x \in inflight' \cup (campaigns' \ {Preexisting})
             PROVE  record'.fenced /\ (Approved' => record'.fencer = x)
  BY DEF CampaignsAreFenced
<1>1. record.fenced /\ (Approved => record.fencer = x)
  <2>1. CASE x \in inflight \cup (campaigns \ {Preexisting})
    BY <2>1 DEF Inductive, CampaignsAreFenced
  <2>2. ASSUME NEW w \in Workers, ProviderSide(w), x = w
        PROVE  record.fenced /\ (Approved => record.fencer = x)
    BY <2>2 DEF ProviderSide, Inductive, CreatorIsAlone
  <2>3. inflight \subseteq Workers
    BY <1>b DEF Base, TypeOK
  <2>4. QED
    BY <1>b, <2>1, <2>2, <2>3, ProviderSteps DEF ProviderSide, RequestsEnd
<1>2. QED
  BY <1>b, <1>1, FencedStep

\* No second request leaves beside a request or a campaign.
LEMMA AtMostOneCampaignStep ==
    ASSUME Inductive, [Next]_vars
    PROVE  AtMostOneCampaign'
<1>1. ASSUME NEW w \in Workers, ProviderSide(w)
      PROVE  AtMostOneCampaign'
  <2>1. inflight' = {w} /\ campaigns' = {}
    BY <1>1 DEF ProviderSide, Inductive, CreatorIsAlone
  <2>2. QED
    BY <2>1 DEF AtMostOneCampaign
<1>2. CASE RequestsEnd
  BY <1>2 DEF RequestsEnd, Inductive, AtMostOneCampaign
<1>3. QED
  BY <1>1, <1>2, ProviderSteps DEF Inductive

\* Only a campaign that exists is recorded.
LEMMA CreatedIsRealStep ==
    ASSUME Inductive, [Next]_vars
    PROVE  CreatedIsReal'
<1>1. campaigns \subseteq campaigns'
  BY ProviderSteps DEF Inductive, ProviderSide, RequestsEnd
<1>2. CASE Created
  <2>1. record' = record
    BY <1>2, LedgerStep, CreatedStep DEF Inductive, Base
  <2>2. QED
    BY <1>1, <1>2, <2>1 DEF Inductive, CreatedIsReal
<1>3. CASE ~Created
  BY <1>1, <1>3, CompletionIsReal DEF Inductive, CreatedIsReal
<1>4. QED
  BY <1>2, <1>3

\* Who is about to create has no rival before the provider.
LEMMA CreatorIsAloneStep ==
    ASSUME Inductive, [Next]_vars
    PROVE  CreatorIsAlone'
<1>b. Base /\ LedgerTypeOK
  BY DEF Inductive, Base, TypeOK
<1>t. inflight \subseteq Workers
  BY <1>b DEF Base, TypeOK
<1>p. Preexisting \in campaigns' => Preexisting \in campaigns
  BY <1>b, <1>t, ProviderSteps, PreexistingIsNoWorker DEF ProviderSide, RequestsEnd
<1>v. visible \subseteq visible'
  BY <1>b, ProviderSteps DEF ProviderSide, RequestsEnd
<1>1. Preexisting \in campaigns' => Preexisting \in visible'
  BY <1>p, <1>v DEF Inductive, CreatorIsAlone
<1>2. ASSUME NEW v \in Workers, At(v, "fence")'
      PROVE  Preexisting \notin campaigns'
  <2>1. CASE worker'[v] = worker[v]
    BY <1>2, <1>p, <2>1 DEF Inductive, CreatorIsAlone, At
  <2>2. CASE StartWorker(v) \/ WorkerStep(v) \/ CrashWorker(v)
    <3>1. visible = {}
      BY <1>b, <1>2, <2>2, WorkerFlow DEF Flow, At
    <3>2. QED
      BY <1>p, <3>1 DEF Inductive, CreatorIsAlone
  <2>3. QED
    BY <1>b, <2>1, <2>2, NextFrame, WorkerStepFrame
       DEF WorkerFrame, Outside, vars, procVars
<1>3. ASSUME NEW v \in Workers, At(v, "create")'
      PROVE  /\ Approved' /\ record'.fenced /\ record'.fencer = v
             /\ inflight' = {} /\ campaigns' = {}
  <2>1. CASE At(v, "create") /\ ~(StartWorker(v) \/ WorkerStep(v) \/ CrashWorker(v))
    <3>1. /\ Approved /\ record.fenced /\ record.fencer = v
          /\ inflight = {} /\ campaigns = {}
      BY <2>1 DEF Inductive, CreatorIsAlone
    <3>2. Approved'
      <4>1. Approved' \/ Created'
        BY <1>b, <3>1, LedgerStep, ApprovalStep
      <4>2. ~Created'
        BY <1>b, <3>1, CompletionIsReal DEF Approved, Created
      <4>3. QED
        BY <4>1, <4>2
    <3>3. record'.fenced /\ record'.fencer = v
      BY <1>b, <3>1, <3>2, FencedStep
    <3>4. \A w \in Workers : At(w, "create") => w = v
      BY <3>1 DEF Inductive, CreatorIsAlone
    <3>5. UNCHANGED <<inflight, campaigns>>
      <4>1. CASE UNCHANGED vars
        BY <4>1 DEF vars, providerVars
      <4>2. ASSUME NEW w \in Workers,
                   StartWorker(w) \/ WorkerStep(w) \/ CrashWorker(w)
            PROVE  UNCHANGED <<inflight, campaigns>>
        BY <1>b, <2>1, <3>1, <3>4, <4>2, WorkerStepFrame DEF WorkerFrame
      <4>3. CASE Outside
        BY <1>b, <3>1, <4>3, ProviderStep DEF Outside, providerVars, Base
      <4>4. QED
        BY <1>b, <4>1, <4>2, <4>3, NextFrame
    <3>6. QED
      BY <3>1, <3>2, <3>3, <3>5
  <2>2. CASE StartWorker(v) \/ WorkerStep(v) \/ CrashWorker(v)
    <3>1. At(v, "fence") /\ FenceCreate(v)
      BY <1>b, <1>3, <2>2, WorkerFlow DEF Flow, At
    <3>2. ~(record.fenced /\ HeldBy(v))
      BY <3>1 DEF Inductive, ClaimsInOrder, BeforeFence, At
    <3>3. ~record.fenced
      BY <3>1, <3>2 DEF FenceCreate, MayFence
    <3>4. Approved' /\ record'.fenced /\ record'.fencer = v
      BY <1>b, <3>1, <3>3
         DEF FenceCreate, MayFence, LedgerTypeOK, Record, Approved
    <3>5. inflight = {} /\ campaigns \subseteq {Preexisting}
      BY <3>3 DEF Inductive, CampaignsAreFenced
    <3>6. campaigns = {}
      BY <3>1, <3>5 DEF Inductive, CreatorIsAlone
    <3>7. inflight' = {} /\ campaigns' = {}
      BY <1>b, <2>2, <3>1, <3>5, <3>6, WorkerStepFrame DEF WorkerFrame, At
    <3>8. QED
      BY <3>4, <3>7
  <2>3. worker'[v] = worker[v] \/ StartWorker(v) \/ WorkerStep(v) \/ CrashWorker(v)
    BY <1>b, NextFrame, WorkerStepFrame DEF WorkerFrame, Outside, vars, procVars
  <2>4. QED
    BY <1>3, <2>1, <2>2, <2>3 DEF At
<1>4. QED
  BY <1>1, <1>2, <1>3 DEF CreatorIsAlone, At

\* The parts of the invariant keep each other.
LEMMA InductiveStep == Inductive /\ [Next]_vars => Inductive'
BY BaseStep, ClaimsInOrderStep, CreatorIsAloneStep, AtMostOneCampaignStep,
   CampaignsAreFencedStep, CreatedIsRealStep DEF Inductive

\* The invariant holds of every state of the pipeline.
LEMMA InductiveCorrect == Spec => []Inductive
BY InductiveInit, InductiveStep, PTL DEF Spec

\* Whatever leases expire, calls outlive them, executions crash and
\* transactions commit late: at most one campaign or request for one exists.
THEOREM OneCampaign == Spec => []AtMostOneCampaign
BY InductiveCorrect, PTL DEF Inductive

\* No provider mutation is open without the fence of the execution behind it.
THEOREM FenceFirst == Spec => []CampaignsAreFenced
BY InductiveCorrect, PTL DEF Inductive

\* An authority says PAUSED_CREATED of a campaign the provider made.
THEOREM NoImaginedCreate == Spec => []CreatedIsReal
BY InductiveCorrect, PTL DEF Inductive

--------------------------------------------------------------------------------
(* Whose dispatch is given back.                                            *)

\* The dispatch was under way, its lease lived, and it is over.
GivenBack ==
    /\ outbox.state = "DISPATCHING" /\ outbox.lease = "live"
    /\ outbox'.state \in {"PENDING", "FAILED"}

\* Who may do that: the right side of OnlyOwnDispatchIsRearmed.
ByItsOwn ==
    \/ dispatcher[outbox.dispatcher] = "release"
    \/ \E w \in Workers : At(w, "rearm") /\ worker[w].dispatch = outbox.dispatcher
    \/ \E t \in late : t.by = outbox.dispatcher

\* The only transactions that give a live dispatch back name its claimant.
LEMMA GivenBackByName ==
    ASSUME TypeOK, NEW t, Transaction(t), GivenBack
    PROVE  t.op \in {"releaseOutbox", "rearm"} /\ t.by = outbox.dispatcher
<1> USE DEF GivenBack
<1>1. outbox \in Outbox
  BY DEF TypeOK, LedgerTypeOK
<1>2. outbox' # outbox /\ outbox'.state # "DISPATCHED"
  OBVIOUS
<1>3. CASE t.op = "claimOutbox" /\ ClaimOutbox(t.by)
  BY <1>3 DEF ClaimOutbox, OutboxClaimable
<1>4. CASE t.op = "releaseOutbox" /\ ReleaseOutbox(t.by)
  BY <1>4 DEF ReleaseOutbox, DispatchedBy
<1>5. CASE t.op = "rearm" /\ RecordWorkerFailure(t.by)
  <2>1. SettledOutbox.state = "DISPATCHED"
    BY <1>1 DEF SettledOutbox, Outbox
  <2>2. QED
    BY <1>2, <1>5, <2>1 DEF RecordWorkerFailure, DispatchedBy
<1>6. CASE t.op = "settle" /\ SettleOutbox
  BY <1>1, <1>6 DEF SettleOutbox, SettledOutbox, Outbox
<1>7. QED
  BY <1>2, <1>3, <1>4, <1>5, <1>6
     DEF Transaction, ClaimCreate, FenceCreate, ClaimReconciliation, CompleteCreate,
         ReleaseClaim, MarkFencedFailure

\* In each step, what gives a dispatch back acts for its claimant.
LEMMA DispatchStep ==
    ASSUME Base, Next, GivenBack
    PROVE  ByItsOwn
<1>t. TypeOK
  BY DEF Base
<1>c. ASSUME UNCHANGED ledgerVars
      PROVE  FALSE
  BY <1>c DEF ledgerVars, GivenBack
\* A transaction that answers or times out was not the one, unless by name.
<1>x. ASSUME NEW t, NEW refusal, Commits(t) \/ Refused(refusal) \/ TimesOut(t)
      PROVE  t.op \in {"releaseOutbox", "rearm"} /\ t.by = outbox.dispatcher
  <2>1. Transaction(t)
    BY <1>c, <1>x DEF Commits, Refused, TimesOut
  <2>2. QED
    BY <1>t, <2>1, GivenBackByName
<1>1. CASE Prepare \/ LeaseExpires \/ Provider
  <2>1. outbox \in Outbox
    BY <1>t DEF TypeOK, LedgerTypeOK
  <2>2. CASE Prepare
    BY <2>2 DEF Prepare, CreateDraft, ServerValidate, Approve, GivenBack
  <2>3. CASE LeaseExpires
    BY <2>1, <2>3 DEF LeaseExpires, CreateLeaseExpires, OutboxLeaseExpires, GivenBack, Outbox
  <2>4. CASE Provider
    BY <1>c, <2>4 DEF Provider, ProviderCreates, ProviderLoses, ProviderIndexes
  <2>5. QED
    BY <1>1, <2>2, <2>3, <2>4
<1>2. ASSUME NEW w \in Workers, StartWorker(w) \/ WorkerStep(w) \/ CrashWorker(w)
      PROVE  ByItsOwn
  <2>1. ASSUME NEW t, NEW refused, NEW done, NEW otherwise, NEW failed,
               Transact(w, t, refused, done, otherwise, failed),
               t.op \notin {"releaseOutbox", "rearm"}
        PROVE  FALSE
    BY <1>x, <2>1 DEF Transact
  <2>2. \A by, arg : \A name \in ClaimantOps \cup {"complete", "settle"} :
            Op(name, by, arg).op \notin {"releaseOutbox", "rearm"}
    BY DEF Op, ClaimantOps
  <2>3. ~(Claim(w) \/ ClaimFenced(w) \/ Fence(w) \/ FenceFound(w) \/ Complete(w)
          \/ Release(w) \/ Mark(w))
    BY <2>1, <2>2
       DEF Claim, ClaimFenced, Fence, FenceFound, Complete, Release, Mark, ClaimantOps
  <2>4. ~Settle(w)
    BY <1>x, <2>2 DEF Settle, LastTransaction
  <2>5. ~(\/ StartWorker(w) \/ CrashWorker(w) \/ GetRecord(w) \/ Refresh(w) \/ Preflight(w)
          \/ Find(w) \/ Create(w) \/ Response(w) \/ Reconcile(w))
    BY <1>c DEF StartWorker, CrashWorker, GetRecord, Refresh, Preflight, Find, Create,
       Response, Reconcile
  <2>6. Rearm(w)
    BY <1>2, <2>3, <2>4, <2>5 DEF WorkerStep
  <2>7. worker[w].dispatch = outbox.dispatcher
    BY <1>x, <2>6 DEF Rearm, LastTransaction, Op
  <2>8. QED
    BY <2>6, <2>7 DEF Rearm, ByItsOwn
<1>3. ASSUME NEW d \in Dispatchers, DispatcherStep(d) \/ CrashDispatcher(d)
      PROVE  ByItsOwn
  <2>1. \A by, arg : \A name \in {"claimOutbox", "settle"} :
            Op(name, by, arg).op \notin {"releaseOutbox", "rearm"}
    BY DEF Op
  <2>2. ~DispatcherClaim(d)
    BY <1>x, <2>1 DEF DispatcherClaim
  <2>3. ~(Heal(d) \/ Rejected(d))
    BY <1>x, <2>1 DEF Heal, Rejected
  <2>4. ~(Invoke(d) \/ CrashDispatcher(d))
    BY <1>c DEF Invoke, CrashDispatcher
  <2>5. ReleaseDispatch(d)
    BY <1>3, <2>2, <2>3, <2>4 DEF DispatcherStep
  <2>6. outbox.dispatcher = d
    BY <1>x, <2>5 DEF ReleaseDispatch, Op
  <2>7. QED
    BY <2>5, <2>6 DEF ReleaseDispatch, ByItsOwn
<1>4. ASSUME NEW t \in late, LateEnds(t)
      PROVE  ByItsOwn
  <2>1. Transaction(t)
    BY <1>c, <1>4 DEF LateEnds, LateCommits, LateIsDropped
  <2>2. QED
    BY <1>t, <2>1, GivenBackByName DEF ByItsOwn
<1>5. QED
  BY <1>1, <1>2, <1>3, <1>4 DEF Next

\* A dispatch whose lease lives is given back only by its own claimant, by a worker
\* started under it, or by a transaction one of them left behind.
THEOREM OwnDispatchOnly == Spec => OnlyOwnDispatchIsRearmed
<1> DEFINE Own ==
        outbox.state = "DISPATCHING" /\ outbox.lease = "live"
            /\ outbox'.state \in {"PENDING", "FAILED"} =>
          \/ dispatcher[outbox.dispatcher] = "release"
          \/ \E w \in Workers : /\ At(w, "rearm")
                                /\ worker[w].dispatch = outbox.dispatcher
          \/ \E t \in late : t.by = outbox.dispatcher
<1>1. Base /\ [Next]_vars => [Own]_vars
  BY DispatchStep DEF GivenBack, ByItsOwn
<1>2. Inductive => Base
  BY DEF Inductive
<1>3. Spec => [][Own]_vars
  BY InductiveCorrect, <1>1, <1>2, PTL DEF Spec
<1>4. QED
  BY <1>3 DEF OnlyOwnDispatchIsRearmed

--------------------------------------------------------------------------------
(* The pipeline keeps the promise of PausedCreateOnce.                       *)

\* The initial states of the pipeline are initial states of the promise.
LEMMA OnceInitially == Init => Once!OnceInit
BY DEF Init, LedgerInit, NoRecord, NoOutbox, Once!OnceInit, Phase, Dispatch,
       Created, Approved

\* A ledger transaction that leaves the provider alone is Approval, Fencing,
\* Finishing, GivingUp, Settling or no step of the promise.
LEMMA OnceLedgerStep ==
    ASSUME Base, LedgerNext, campaigns' = campaigns,
           ~Created /\ Created' => record'.ref \in campaigns
    PROVE  [Once!OnceNext]_Once!onceVars
<1>b. LedgerTypeOK /\ RecordValid /\ OutboxValid
  BY DEF Base, TypeOK, LedgerData
<1> USE DEF Once!OnceNext, Once!onceVars, Phase, Dispatch, Approved, Created
<1>1. CASE CreateDraft \/ ServerValidate
  BY <1>b, <1>1 DEF CreateDraft, ServerValidate, NoRecord, RecordValid, Record,
                    LedgerTypeOK, Created, Approved
<1>2. CASE Approve
  BY <1>b, <1>2 DEF Approve, NoRecord, NoOutbox, RecordValid, Once!Approval
<1>3. ASSUME record' = record, outbox' = SettledOutbox, Created,
             outbox.state # "ABSENT"
      PROVE  [Once!OnceNext]_Once!onceVars
  BY <1>b, <1>3 DEF SettledOutbox, Once!Settling, LedgerTypeOK, Outbox, OutboxStates
<1>4. CASE SettleOutbox
  BY <1>3, <1>4 DEF SettleOutbox, Settleable
<1>5. CASE CreateLeaseExpires \/ OutboxLeaseExpires
  BY <1>b, <1>5 DEF CreateLeaseExpires, OutboxLeaseExpires, LedgerTypeOK, Record, Outbox
<1>6. ASSUME record' = record, outbox.state \in {"PENDING", "DISPATCHING"},
             outbox'.state \in {"PENDING", "DISPATCHING", "FAILED"}
      PROVE  [Once!OnceNext]_Once!onceVars
  BY <1>6 DEF Once!GivingUp
<1>7. ASSUME NEW d \in Dispatchers,
             ClaimOutbox(d) \/ ReleaseOutbox(d) \/ RecordWorkerFailure(d)
      PROVE  [Once!OnceNext]_Once!onceVars
  <2>1. CASE ClaimOutbox(d)
    <3>1. outbox'.state \in {"DISPATCHING", "FAILED"}
      BY <1>b, <2>1 DEF ClaimOutbox, LedgerTypeOK, Outbox
    <3>2. QED
      BY <1>6, <2>1, <3>1 DEF ClaimOutbox, OutboxClaimable
  <2>2. CASE outbox' = Rearmed /\ record' = record /\ DispatchedBy(d)
    <3>1. outbox'.state \in {"PENDING", "FAILED"}
      BY <1>b, <2>2 DEF Rearmed, LedgerTypeOK, Outbox
    <3>2. QED
      BY <1>6, <2>2, <3>1 DEF DispatchedBy
  <2>3. QED
    BY <1>3, <1>7, <2>1, <2>2 DEF ReleaseOutbox, RecordWorkerFailure
<1>8. ASSUME NEW w \in Workers, FenceCreate(w)
      PROVE  [Once!OnceNext]_Once!onceVars
  BY <1>b, <1>8 DEF FenceCreate, MayFence, Once!Fencing, LedgerTypeOK, Record
<1>9. ASSUME NEW w \in Workers,
             \/ ClaimCreate(w) \/ ClaimReconciliation(w)
             \/ ReleaseClaim(w) \/ MarkFencedFailure(w)
      PROVE  [Once!OnceNext]_Once!onceVars
  BY <1>b, <1>9 DEF ClaimCreate, ClaimReconciliation, ReleaseClaim,
                    MarkFencedFailure, LedgerTypeOK, Record
<1>10. ASSUME NEW w \in Workers, NEW c \in Campaigns, CompleteCreate(w, c)
       PROVE  [Once!OnceNext]_Once!onceVars
  BY <1>b, <1>10 DEF CompleteCreate, MayComplete, Once!Finishing, LedgerTypeOK,
                     Record
<1>11. QED
  BY <1>1, <1>2, <1>4, <1>5, <1>7, <1>8, <1>9, <1>10 DEF LedgerNext

\* A campaign appears only when there is none and the create is fenced, which
\* is Making.
LEMMA OnceProviderStep ==
    ASSUME Inductive, Provider, UNCHANGED ledgerVars
    PROVE  [Once!OnceNext]_Once!onceVars
<1>l. record' = record /\ Phase' = Phase /\ Dispatch' = Dispatch
  BY DEF ledgerVars, Phase, Dispatch, Approved, Created
<1>1. CASE campaigns' = campaigns
  BY <1>l, <1>1 DEF Once!onceVars
<1>2. ASSUME NEW w \in Workers, ProviderCreates(w)
      PROVE  [Once!OnceNext]_Once!onceVars
  <2>1. campaigns = {}
    BY <1>2 DEF ProviderCreates, Inductive, AtMostOneCampaign
  <2>2. campaigns' = {w} /\ w \in Campaigns
    BY <1>2, <2>1, CampaignsAreNamedByCreator DEF ProviderCreates
  <2>3. record.fenced
    BY <1>2 DEF ProviderCreates, Inductive, CampaignsAreFenced
  <2>4. ~Created
    BY <2>1 DEF Inductive, CreatedIsReal
  <2>5. Approved
    BY <2>3, <2>4 DEF Inductive, Base, LedgerData, RecordValid
  <2>6. Phase = "fenced"
    BY <2>3, <2>4, <2>5 DEF Phase
  <2>7. QED
    BY <1>l, <2>1, <2>2, <2>6 DEF Once!OnceNext, Once!Making
<1>3. QED
  BY <1>1, <1>2 DEF Provider, ProviderLoses, ProviderIndexes

\* Every step of the pipeline is a step of the promise or none.
LEMMA OnceStep == Inductive /\ [Next]_vars => [Once!OnceNext]_Once!onceVars
<1> SUFFICES ASSUME Inductive, [Next]_vars
             PROVE  [Once!OnceNext]_Once!onceVars
  OBVIOUS
<1>1. CASE UNCHANGED ledgerVars /\ campaigns' = campaigns
  BY <1>1 DEF ledgerVars, Once!onceVars, Phase, Dispatch, Approved, Created
<1>2. CASE LedgerNext /\ campaigns' = campaigns
  BY <1>2, OnceLedgerStep, CompletionIsReal DEF Inductive
<1>3. CASE UNCHANGED ledgerVars /\ Provider
  BY <1>3, OnceProviderStep
<1>4. \/ campaigns' = campaigns
      \/ UNCHANGED ledgerVars /\ Provider
  BY NextFrame, WorkerStepFrame
     DEF Inductive, WorkerFrame, Outside, providerVars, vars
<1>5. QED
  BY <1>1, <1>2, <1>3, <1>4, LedgerStep DEF Inductive

\* Every behaviour of the jobs is one of the promise: from one approval at most
\* one campaign, behind its fence, recorded once, its dispatch ended once.
THEOREM KeepsThePromise == Spec => ImplementsOnce
<1>1. Init => Once!OnceInit
  BY OnceInitially
<1>2. QED
  BY <1>1, InductiveCorrect, OnceStep, PTL DEF Spec, ImplementsOnce, Once!OnceSpec
================================================================================
