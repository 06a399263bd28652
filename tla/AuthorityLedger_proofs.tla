------------------------- MODULE AuthorityLedger_proofs -------------------------
(* Proofs about AuthorityLedger: for any sets of claimants and campaigns and *)
(* any attempt limit, whatever the clients of the ledger do.                 *)
EXTENDS AuthorityLedger, TLAPS

USE NoneIsNoValue, MaxAttemptsPositive

\* The inductive invariant.  The validators tie claim, fence and state together
\* and the outbox to the authority, so the parts need each other; what they do
\* not say is that a dispatch has used up an attempt, on which a re-arm relies,
\* and that an outbox yet to be written has used up none.
LedgerData ==
    /\ RecordValid /\ OutboxValid /\ DispatchedOnlyWhenCreated
    /\ outbox.state = "DISPATCHING" => outbox.attempts >= 1
    /\ outbox.state = "ABSENT" => outbox.attempts = 0

\* The empty documents are documents.
LEMMA LedgerTypeInit == LedgerInit => LedgerTypeOK
BY DEF LedgerInit, LedgerTypeOK, NoRecord, NoOutbox, Record, Outbox, States,
       OutboxStates, Leases

\* Every transaction writes documents of their type.
LEMMA LedgerTypeStep == LedgerTypeOK /\ [LedgerNext]_ledgerVars => LedgerTypeOK'
<1> SUFFICES ASSUME LedgerTypeOK, [LedgerNext]_ledgerVars
             PROVE  LedgerTypeOK'
  OBVIOUS
<1> USE DEF LedgerTypeOK, Record, Outbox, States, OutboxStates, Leases
<1>0. NoRecord \in Record /\ NoOutbox \in Outbox
  BY DEF NoRecord, NoOutbox
<1>1. CASE CreateDraft \/ ServerValidate \/ Approve
  BY <1>0, <1>1 DEF CreateDraft, ServerValidate, Approve
<1>2. CASE SettleOutbox \/ CreateLeaseExpires \/ OutboxLeaseExpires
  <2>1. CASE SettleOutbox
    BY <2>1 DEF SettleOutbox, SettledOutbox
  <2>2. CASE CreateLeaseExpires
    BY <2>2 DEF CreateLeaseExpires
  <2>3. CASE OutboxLeaseExpires
    BY <2>3 DEF OutboxLeaseExpires
  <2>4. QED
    BY <1>2, <2>1, <2>2, <2>3
<1>3. ASSUME NEW d \in Dispatchers, ClaimOutbox(d)
      PROVE  LedgerTypeOK'
  <2>1. outbox.attempts \in 0..MaxAttempts
    OBVIOUS
  <2>2. CASE Exhausted
    BY <1>3, <2>2 DEF ClaimOutbox
  <2>3. CASE ~Exhausted
    <3>1. outbox.attempts + 1 \in 0..MaxAttempts
      BY <2>1, <2>3 DEF Exhausted
    <3>2. outbox' = [state |-> "DISPATCHING",
                     attempts |-> outbox.attempts + 1,
                     dispatcher |-> d, lease |-> "live", error |-> FALSE]
      BY <1>3, <2>3 DEF ClaimOutbox
    <3>3. outbox' \in Outbox
      BY <3>1, <3>2
    <3>4. QED
      BY <1>3, <3>3 DEF ClaimOutbox
  <2>4. QED
    BY <2>2, <2>3
<1>4. ASSUME NEW d \in Dispatchers, ReleaseOutbox(d) \/ RecordWorkerFailure(d)
      PROVE  LedgerTypeOK'
  <2>1. Rearmed \in Outbox /\ SettledOutbox \in Outbox
    BY DEF Rearmed, SettledOutbox
  <2>2. (outbox' = Rearmed \/ outbox' = SettledOutbox) /\ UNCHANGED record
    BY <1>4 DEF ReleaseOutbox, RecordWorkerFailure
  <2>3. QED
    BY <2>1, <2>2
<1>5. ASSUME NEW w \in Workers,
             ClaimCreate(w) \/ FenceCreate(w) \/ ClaimReconciliation(w)
      PROVE  LedgerTypeOK'
  <2>1. [record EXCEPT !.worker = w, !.lease = "live", !.error = FALSE] \in Record
    OBVIOUS
  <2>2. [record EXCEPT !.fenced = TRUE, !.fencer = w, !.error = FALSE] \in Record
    OBVIOUS
  <2>3. CASE ClaimCreate(w) \/ ClaimReconciliation(w)
    BY <2>1, <2>3 DEF ClaimCreate, ClaimReconciliation
  <2>4. CASE FenceCreate(w)
    BY <2>2, <2>4 DEF FenceCreate
  <2>5. QED
    BY <1>5, <2>3, <2>4
<1>6. ASSUME NEW w \in Workers, ReleaseClaim(w) \/ MarkFencedFailure(w)
      PROVE  LedgerTypeOK'
  <2>1. CASE ReleaseClaim(w)
    BY <2>1 DEF ReleaseClaim
  <2>2. CASE MarkFencedFailure(w)
    BY <2>2 DEF MarkFencedFailure
  <2>3. QED
    BY <1>6, <2>1, <2>2
<1>7. ASSUME NEW w \in Workers, NEW c \in Campaigns, CompleteCreate(w, c)
      PROVE  LedgerTypeOK'
  BY <1>7 DEF CompleteCreate
<1>8. CASE UNCHANGED ledgerVars
  BY <1>8 DEF ledgerVars
<1>9. QED
  BY <1>1, <1>2, <1>3, <1>4, <1>5, <1>6, <1>7, <1>8 DEF LedgerNext

\* No transaction takes a document out of its schema.
THEOREM LedgerTypeCorrect == LedgerSpec => []LedgerTypeOK
BY LedgerTypeInit, LedgerTypeStep, PTL DEF LedgerSpec

--------------------------------------------------------------------------------
\* The empty documents satisfy the validators.
LEMMA LedgerDataInit == LedgerInit => LedgerData
BY DEF LedgerInit, LedgerData, RecordValid, OutboxValid, Approved, Created,
       DispatchedOnlyWhenCreated, NoRecord, NoOutbox

\* Every transaction leaves both documents valid and in agreement.
LEMMA LedgerDataStep ==
    LedgerTypeOK /\ LedgerData /\ [LedgerNext]_ledgerVars => LedgerData'
<1> SUFFICES ASSUME LedgerTypeOK, LedgerData, [LedgerNext]_ledgerVars
             PROVE  LedgerData'
  OBVIOUS
<1> USE DEF LedgerTypeOK, Record, Outbox, LedgerData, RecordValid, OutboxValid,
            DispatchedOnlyWhenCreated, Approved, Created
<1>1. CASE CreateDraft \/ ServerValidate
  BY <1>1 DEF CreateDraft, ServerValidate, NoRecord
<1>2. CASE Approve
  BY <1>2 DEF Approve, NoRecord, NoOutbox
<1>3. CASE SettleOutbox
  BY <1>3 DEF SettleOutbox, Settleable, SettledOutbox
<1>4. CASE CreateLeaseExpires \/ OutboxLeaseExpires
  BY <1>4 DEF CreateLeaseExpires, OutboxLeaseExpires
<1>5. ASSUME NEW d \in Dispatchers, ClaimOutbox(d)
      PROVE  LedgerData'
  BY <1>5, SMTT(30) DEF ClaimOutbox, OutboxClaimable, Exhausted
<1>6. ASSUME NEW d \in Dispatchers, ReleaseOutbox(d) \/ RecordWorkerFailure(d)
      PROVE  LedgerData'
  <2>1. CASE outbox' = Rearmed /\ record' = record /\ DispatchedBy(d)
    BY <2>1 DEF DispatchedBy, Rearmed, Exhausted
  <2>2. CASE outbox' = SettledOutbox /\ record' = record /\ Created
    BY <2>2 DEF SettledOutbox
  <2>3. QED
    BY <1>6, <2>1, <2>2 DEF ReleaseOutbox, RecordWorkerFailure
<1>7. ASSUME NEW w \in Workers,
             ClaimCreate(w) \/ FenceCreate(w) \/ ClaimReconciliation(w)
      PROVE  LedgerData'
  <2>1. CASE ClaimCreate(w)
    BY <2>1 DEF ClaimCreate, CreateClaimable
  <2>2. CASE FenceCreate(w)
    BY <2>2 DEF FenceCreate, MayFence, HeldBy
  <2>3. CASE ClaimReconciliation(w)
    BY <2>3 DEF ClaimReconciliation, Reconcilable
  <2>4. QED
    BY <1>7, <2>1, <2>2, <2>3
<1>8. ASSUME NEW w \in Workers, ReleaseClaim(w) \/ MarkFencedFailure(w)
      PROVE  LedgerData'
  <2>1. CASE ReleaseClaim(w)
    BY <2>1 DEF ReleaseClaim
  <2>2. CASE MarkFencedFailure(w)
    BY <2>2 DEF MarkFencedFailure
  <2>3. QED
    BY <1>8, <2>1, <2>2
<1>9. ASSUME NEW w \in Workers, NEW c \in Campaigns, CompleteCreate(w, c)
      PROVE  LedgerData'
  BY <1>9 DEF CompleteCreate, MayComplete, HeldBy
<1>10. CASE UNCHANGED ledgerVars
  BY <1>10 DEF ledgerVars
<1>11. QED
  BY <1>1, <1>2, <1>3, <1>4, <1>5, <1>6, <1>7, <1>8, <1>9, <1>10 DEF LedgerNext

\* The validators hold of every state of the ledger.
LEMMA LedgerDataCorrect == LedgerSpec => []LedgerData
BY LedgerDataInit, LedgerDataStep, LedgerTypeCorrect, PTL DEF LedgerSpec

\* No transaction, in any order and from any client, writes an authority record
\* that the validator would refuse to read back.
THEOREM RecordAlwaysValid == LedgerSpec => []RecordValid
BY LedgerDataCorrect, PTL DEF LedgerData

\* Nor an outbox: among the rest, it is FAILED only with all attempts used.
THEOREM OutboxAlwaysValid == LedgerSpec => []OutboxValid
BY LedgerDataCorrect, PTL DEF LedgerData

\* The outbox says DISPATCHED only beside a completed authority.
THEOREM DispatchIsNoSuccess == LedgerSpec => []DispatchedOnlyWhenCreated
BY LedgerDataCorrect, PTL DEF LedgerData

--------------------------------------------------------------------------------
\* Types and validators together.
LEMMA LedgerInvariant == LedgerSpec => [](LedgerTypeOK /\ LedgerData)
BY LedgerTypeCorrect, LedgerDataCorrect, PTL

\* What one transaction does to a fenced record.
LEMMA FenceStep ==
    ASSUME LedgerTypeOK, LedgerData, [LedgerNext]_ledgerVars, record.fenced
    PROVE  record'.fenced /\ (Approved' => record'.fencer = record.fencer)
<1> USE DEF LedgerTypeOK, Record, LedgerData, RecordValid, Approved, Created
<1>1. CASE UNCHANGED record
  BY <1>1
<1>2. CASE CreateDraft \/ ServerValidate \/ Approve
  BY <1>2 DEF CreateDraft, ServerValidate, Approve
<1>3. CASE CreateLeaseExpires
  BY <1>3 DEF CreateLeaseExpires
<1>4. ASSUME NEW w \in Workers,
             \/ ClaimCreate(w) \/ FenceCreate(w) \/ ClaimReconciliation(w)
             \/ ReleaseClaim(w) \/ MarkFencedFailure(w)
      PROVE  record'.fenced /\ (Approved' => record'.fencer = record.fencer)
  BY <1>4 DEF ClaimCreate, CreateClaimable, FenceCreate, ClaimReconciliation,
              ReleaseClaim, MarkFencedFailure
<1>5. ASSUME NEW w \in Workers, NEW c \in Campaigns, CompleteCreate(w, c)
      PROVE  record'.fenced /\ (Approved' => record'.fencer = record.fencer)
  BY <1>5 DEF CompleteCreate, MayComplete
<1>6. QED
  BY <1>1, <1>2, <1>3, <1>4, <1>5
     DEF LedgerNext, SettleOutbox, OutboxLeaseExpires, ClaimOutbox,
         ReleaseOutbox, RecordWorkerFailure, ledgerVars

\* What one transaction does to a completed record: nothing.
LEMMA CreatedStep ==
    ASSUME LedgerData, [LedgerNext]_ledgerVars, Created
    PROVE  record' = record
<1> USE DEF LedgerData, RecordValid, Approved, Created
<1>1. CASE CreateDraft \/ ServerValidate \/ Approve
  BY <1>1 DEF CreateDraft, ServerValidate, Approve
<1>2. CASE CreateLeaseExpires
  BY <1>2, NoneIsNoValue DEF CreateLeaseExpires
<1>3. ASSUME NEW w \in Workers,
             \/ ClaimCreate(w) \/ FenceCreate(w) \/ ClaimReconciliation(w)
             \/ ReleaseClaim(w) \/ MarkFencedFailure(w)
      PROVE  record' = record
  BY <1>3 DEF ClaimCreate, CreateClaimable, FenceCreate, MayFence,
              ClaimReconciliation, Reconcilable, ReleaseClaim, MarkFencedFailure
<1>4. ASSUME NEW w \in Workers, NEW c \in Campaigns, CompleteCreate(w, c)
      PROVE  record' = record
  BY <1>4 DEF CompleteCreate
<1>5. QED
  BY <1>1, <1>2, <1>3, <1>4
     DEF LedgerNext, SettleOutbox, OutboxLeaseExpires, ClaimOutbox,
         ReleaseOutbox, RecordWorkerFailure, ledgerVars

\* Once taken, the fence stays, with the claimant that took it: no transaction
\* of any client gives a second execution the provider mutation.
THEOREM FenceStays == LedgerSpec => FenceIsPermanent
<1> DEFINE Step == record.fenced => /\ record'.fenced
                                    /\ Approved' => record'.fencer = record.fencer
<1>1. LedgerTypeOK /\ LedgerData /\ [LedgerNext]_ledgerVars => [Step]_ledgerVars
  BY FenceStep
<1>2. LedgerSpec => [][Step]_ledgerVars
  BY <1>1, LedgerInvariant, PTL DEF LedgerSpec
<1>3. QED
  BY <1>2 DEF FenceIsPermanent

\* A late or repeated transaction never touches a completed authority.
THEOREM CreatedStays == LedgerSpec => CreatedIsFinal
<1> DEFINE Step == Created => record' = record
<1>1. LedgerTypeOK /\ LedgerData /\ [LedgerNext]_ledgerVars => [Step]_ledgerVars
  BY CreatedStep
<1>2. LedgerSpec => [][Step]_ledgerVars
  BY <1>1, LedgerInvariant, PTL DEF LedgerSpec
<1>3. QED
  BY <1>2 DEF CreatedIsFinal

\* Attempts are never handed back, and a failed outbox only ever becomes a
\* settled one, beside a completed authority.
THEOREM FailedHeals == LedgerSpec => FailedOnlyHeals
<1> DEFINE Step == /\ outbox'.attempts >= outbox.attempts
                   /\ outbox.state = "FAILED" /\ outbox'.state # "FAILED"
                        => outbox'.state = "DISPATCHED" /\ Created
<1>1. LedgerTypeOK /\ LedgerData /\ [LedgerNext]_ledgerVars => [Step]_ledgerVars
  <2> SUFFICES ASSUME LedgerTypeOK, LedgerData, LedgerNext
               PROVE  Step
    OBVIOUS
  <2>0. outbox.attempts \in Nat
    BY DEF LedgerTypeOK, Outbox
  <2> USE DEF LedgerTypeOK, Outbox, LedgerData, OutboxValid
  <2>1. CASE UNCHANGED outbox
    BY <2>0, <2>1
  <2>2. CASE Approve
    BY <2>2 DEF Approve, NoOutbox, Approved, Created
  <2>3. CASE SettleOutbox
    BY <2>0, <2>3 DEF SettleOutbox, Settleable, SettledOutbox
  <2>4. CASE OutboxLeaseExpires
    BY <2>0, <2>4 DEF OutboxLeaseExpires
  <2>5. ASSUME NEW d \in Dispatchers, ClaimOutbox(d)
        PROVE  Step
    <3>1. outbox.state # "FAILED"
      BY <2>5 DEF ClaimOutbox, OutboxClaimable
    <3>2. CASE Exhausted
      BY <2>0, <2>5, <3>1, <3>2 DEF ClaimOutbox
    <3>3. CASE ~Exhausted
      BY <2>0, <2>5, <3>1, <3>3 DEF ClaimOutbox
    <3>4. QED
      BY <3>2, <3>3
  <2>6. ASSUME NEW d \in Dispatchers, ReleaseOutbox(d) \/ RecordWorkerFailure(d)
        PROVE  Step
    <3>1. CASE outbox' = Rearmed /\ DispatchedBy(d)
      BY <2>0, <3>1 DEF DispatchedBy, Rearmed
    <3>2. CASE outbox' = SettledOutbox /\ Created
      BY <2>0, <3>2 DEF SettledOutbox
    <3>3. QED
      BY <2>6, <3>1, <3>2 DEF ReleaseOutbox, RecordWorkerFailure
  <2>7. QED
    BY <2>1, <2>2, <2>3, <2>4, <2>5, <2>6
       DEF LedgerNext, CreateDraft, ServerValidate, CreateLeaseExpires,
           ClaimCreate, FenceCreate, ClaimReconciliation, ReleaseClaim,
           MarkFencedFailure, CompleteCreate
<1>2. LedgerSpec => [][Step]_ledgerVars
  BY <1>1, LedgerInvariant, PTL DEF LedgerSpec
<1>3. QED
  BY <1>2 DEF FailedOnlyHeals
================================================================================
