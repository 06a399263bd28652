-------------------------- MODULE OwnerApproval_proofs -------------------------
(******************************************************************************)
(* Theorems of OwnerApproval, and of Passkeys and AuthorityLedger within it,  *)
(* for any number of keys, users, challenges, nonces, requests and probes.    *)
(*                                                                            *)
(* The invariant of the passkeys is kept by every step, since the ceremony    *)
(* only uses a key as a login does; that of the ceremony says of each nonce   *)
(* who consumed it, and that the use is behind the key.  The proof takes the  *)
(* three groups of documents apart: keys with ceremonies, evidence, and       *)
(* approvals; the ledger is used as its own specification says.               *)
(******************************************************************************)
EXTENDS OwnerApproval, Passkeys_proofs

--------------------------------------------------------------------------------
(* Step-up ceremonies and approvals.                                          *)

\* The transaction of the request consumed its nonce.
Won(r) == stepUp[r].step \in {"answered", "lost"}

\* A step-up request works on a nonce that a device has signed.
StepUpsAnswer ==
    \A r \in StepUps : ~StepUpAt(r, "idle") =>
        /\ stepUp[r].nonce \in Nonces
        /\ NonceOf(r) # None /\ NonceOf(r).signed # None

\* What it read of the key, the signature verifies against.
StepUpsVerify ==
    \A r \in StepUps :
        /\ Won(r) \/ stepUp[r].step \in {"consume", "late"} => stepUp[r].seen \in Credential
        /\ stepUp[r].step \in {"consume", "late"} =>
               Verifies(NonceOf(r).signed, stepUp[r].seen)

\* A nonce that won is consumed, and no other request won with it.
WonIsConsumed == \A r \in StepUps : Won(r) => NonceOf(r).by # None
WonByOne ==
    \A r, t \in StepUps : Won(r) /\ Won(t) /\ r # t => stepUp[r].nonce # stepUp[t].nonce

\* A use that won is behind the key.
StepUpsBehind ==
    \A r \in StepUps : Won(r) => Behind(NonceOf(r).signed.key, stepUp[r].seen)

\* No two uses that were accepted go back to one reading of a key: step-ups.
StepUpsDiffer ==
    \A r, t \in StepUps : Won(r) /\ Won(t) /\ r # t =>
        NonceOf(r).signed.key # NonceOf(t).signed.key \/ stepUp[r].seen # stepUp[t].seen
LoginAndStepUpDiffer ==
    \A a \in Attempts, r \in StepUps : At(a, "session") /\ Won(r) =>
        Presented(a).key # NonceOf(r).signed.key \/ attempt[a].seen # stepUp[r].seen

StepUpInv ==
    /\ StepUpsAnswer /\ StepUpsVerify /\ WonIsConsumed /\ WonByOne /\ StepUpsBehind
    /\ StepUpsDiffer /\ LoginAndStepUpDiffer

\* An approval request presents a nonce.
ApprovalsPresent ==
    \A q \in Approvals : ~ApprovalAt(q, "idle") => approval[q].nonce \in Nonces

OwnInv == TypeOK /\ PasskeyInv /\ StepUpInv /\ ApprovalsPresent /\ AnswersAgree

\* The part of the type invariant about ceremonies.
CeremonyTypeOK ==
    /\ nonce \in [Nonces -> Nonce \cup {None}]
    /\ stepUp \in [StepUps -> StepUp]

\* A step-up at work presents what a device has signed.
LEMMA StepUpsPresent ==
    ASSUME CeremonyTypeOK, StepUpInv, NEW r \in StepUps, ~StepUpAt(r, "idle")
    PROVE  /\ stepUp[r].nonce \in Nonces /\ NonceOf(r) \in Nonce
           /\ NonceOf(r).signed \in Assertion /\ NonceOf(r).signed.key \in Keys
<1>1. stepUp[r].nonce \in Nonces /\ NonceOf(r) # None /\ NonceOf(r).signed # None
  BY DEF StepUpInv, StepUpsAnswer
<1>2. NonceOf(r) \in Nonce
  BY <1>1 DEF CeremonyTypeOK, NonceOf
<1>3. NonceOf(r).signed \in Assertion
  BY <1>1, <1>2 DEF Nonce
<1> QED
  BY <1>1, <1>2, <1>3 DEF Assertion

\* What is known of the winners before a step.
LEMMA WinnersKnown ==
    ASSUME CeremonyTypeOK, StepUpInv, NEW r \in StepUps, Won(r)
    PROVE  /\ ~StepUpAt(r, "idle")
           /\ NonceOf(r).signed.key \in Keys /\ stepUp[r].seen \in Credential
           /\ NonceOf(r).by # None
           /\ Behind(NonceOf(r).signed.key, stepUp[r].seen)
  BY StepUpsPresent
  DEF Won, StepUpAt, StepUpInv, StepUpsVerify, WonIsConsumed, StepUpsBehind

\* The winners of the ceremony when keys, logins and nonces move, but none of the
\* nonces that are at work changes what was signed for it or who consumed it.
LEMMA CeremonyUntouched ==
    ASSUME PasskeyInv, CeremonyTypeOK, StepUpInv, KeysMove, SessionsMove,
           stepUp' = stepUp,
           \A r \in StepUps : ~StepUpAt(r, "idle") =>
               /\ NonceOf(r)' # None
               /\ NonceOf(r)'.signed = NonceOf(r).signed
               /\ NonceOf(r)'.by = NonceOf(r).by
    PROVE  StepUpInv'
<1>1. /\ RetiredAreGone
      /\ \A k \in Keys, s \in Credential : Behind(k, s) => Behind(k, s)'
  BY KeysMoveForwards DEF PasskeyInv
<1>2. \A r \in StepUps : (StepUpAt(r, "idle")' <=> StepUpAt(r, "idle")) /\ (Won(r)' <=> Won(r))
  BY DEF StepUpAt, Won
<1>3. \A r \in StepUps : Won(r) =>
          /\ ~StepUpAt(r, "idle")
          /\ NonceOf(r).signed.key \in Keys /\ stepUp[r].seen \in Credential
          /\ Behind(NonceOf(r).signed.key, stepUp[r].seen)
  BY WinnersKnown
<1>4. StepUpsAnswer'
  BY <1>2 DEF StepUpInv, StepUpsAnswer
<1>5. StepUpsVerify'
  <2>1. \A r \in StepUps : stepUp[r].step \in {"consume", "late"} => ~StepUpAt(r, "idle")
    BY DEF StepUpAt
  <2> QED
    BY <1>2, <2>1 DEF StepUpInv, StepUpsVerify
<1>6. WonIsConsumed' /\ WonByOne'
  BY <1>2, <1>3 DEF StepUpInv, WonIsConsumed, WonByOne
<1>7. StepUpsBehind'
  <2>1. ASSUME NEW r \in StepUps, Won(r)'
        PROVE  Behind(NonceOf(r).signed.key, stepUp[r].seen)'
    <3>1. PICK k \in Keys, s \in Credential : k = NonceOf(r).signed.key /\ s = stepUp[r].seen
      BY <1>2, <1>3, <2>1
    <3>2. Behind(k, s)'
      BY <1>1, <1>2, <1>3, <2>1, <3>1
    <3>3. NonceOf(r)'.signed.key = k /\ stepUp'[r].seen = s
      BY <1>2, <1>3, <2>1, <3>1
    <3> QED
      BY <3>2, <3>3 DEF Behind
  <2> QED
    BY <2>1 DEF StepUpsBehind
<1>8. StepUpsDiffer'
  BY <1>2, <1>3 DEF StepUpInv, StepUpsDiffer
<1>9. LoginAndStepUpDiffer'
  <2>1. ASSUME NEW a \in Attempts, NEW r \in StepUps, At(a, "session")', Won(r)',
               Presented(a)'.key = NonceOf(r)'.signed.key, attempt'[a].seen = stepUp'[r].seen
        PROVE  FALSE
    <3>1. PICK k \in Keys, s \in Credential :
              k = NonceOf(r).signed.key /\ s = stepUp[r].seen /\ Behind(k, s)
      BY <1>2, <1>3, <2>1
    <3>2. Won(r) /\ NonceOf(r)'.signed.key = k /\ stepUp'[r].seen = s
      BY <1>2, <1>3, <2>1, <3>1
    <3>3. /\ Presented(a)' = Presented(a) /\ attempt'[a].seen = attempt[a].seen
          /\ At(a, "session") \/ credential[Presented(a).key] = attempt[a].seen
      BY <2>1 DEF SessionsMove, At
    <3>4. Presented(a).key = k /\ attempt[a].seen = s
      BY <2>1, <3>2, <3>3
    <3>5. ~At(a, "session")
      BY <3>1, <3>2, <3>4 DEF StepUpInv, LoginAndStepUpDiffer
    <3> QED
      BY <1>1, <3>1, <3>3, <3>4, <3>5, BehindIsMissed
  <2> QED
    BY <2>1 DEF LoginAndStepUpDiffer
<1> QED
  BY <1>4, <1>5, <1>6, <1>7, <1>8, <1>9 DEF StepUpInv

\* One step-up request changes, and stays a request.
StepUpTurns(r, t) ==
    /\ stepUp' \in [StepUps -> StepUp]
    /\ \A u \in StepUps : stepUp'[u] = IF u = r THEN t ELSE stepUp[u]

\* The update of the model is a turn.
LEMMA StepUpTurnsInto ==
    ASSUME CeremonyTypeOK, NEW r \in StepUps, NEW t \in StepUp,
           stepUp' = [stepUp EXCEPT ![r] = t]
    PROVE  StepUpTurns(r, t)
  BY DEF StepUpTurns, CeremonyTypeOK

\* What a step makes of a step-up request.
StepUpSubmitted(t, n) == [t EXCEPT !.step = "lookup", !.nonce = n]
StepUpLooked(t, doc) == [t EXCEPT !.step = "consume", !.seen = doc]
StepUpGoneTo(t, step) == [t EXCEPT !.step = step]

\* A request that failed, and a request that goes on, are requests.
LEMMA IdleIsStepUp == IdleStepUp \in StepUp /\ IdleStepUp.step = "idle"
  BY DEF IdleStepUp, StepUp, StepUpSteps

\* The fields of a step-up that was submitted.
LEMMA StepUpSubmittedFits ==
    ASSUME NEW t \in StepUp, NEW n \in Nonces
    PROVE  /\ StepUpSubmitted(t, n) \in StepUp
           /\ StepUpSubmitted(t, n).step = "lookup" /\ StepUpSubmitted(t, n).nonce = n
  BY DEF StepUpSubmitted, StepUp, StepUpSteps

\* The fields of a step-up that has read its nonce.
LEMMA StepUpLookedFits ==
    ASSUME NEW t \in StepUp, NEW doc \in Credential
    PROVE  /\ StepUpLooked(t, doc) \in StepUp
           /\ StepUpLooked(t, doc).step = "consume" /\ StepUpLooked(t, doc).seen = doc
           /\ StepUpLooked(t, doc).nonce = t.nonce
  BY DEF StepUpLooked, StepUp, StepUpSteps

\* The fields of a step-up that has gone on.
LEMMA StepUpGoneToFits ==
    ASSUME NEW t \in StepUp, NEW step \in {"late", "answered", "lost"}
    PROVE  /\ StepUpGoneTo(t, step) \in StepUp /\ StepUpGoneTo(t, step).step = step
           /\ StepUpGoneTo(t, step).nonce = t.nonce /\ StepUpGoneTo(t, step).seen = t.seen
  BY DEF StepUpGoneTo, StepUp, StepUpSteps

\* A step of one request that wins nothing: it ends, submits, looks up or is late.
LEMMA StepUpGoesOn ==
    ASSUME CeremonyTypeOK, StepUpInv, NEW r \in StepUps, NEW t \in StepUp,
           StepUpTurns(r, t), UNCHANGED <<credential, retired, assertion, attempt, nonce>>,
           \/ t.step = "idle"
           \/ /\ t.step = "lookup"
              /\ t.nonce \in Nonces /\ nonce[t.nonce] # None
              /\ nonce[t.nonce].signed # None
           \/ /\ t.step = "consume" /\ StepUpAt(r, "lookup")
              /\ t.nonce = stepUp[r].nonce
              /\ t.seen \in Credential /\ Verifies(NonceOf(r).signed, t.seen)
           \/ /\ t.step = "late" /\ StepUpAt(r, "consume")
              /\ t.nonce = stepUp[r].nonce /\ t.seen = stepUp[r].seen
    PROVE  StepUpInv'
<1> USE DEF StepUpInv
<1>0. t.step \in {"idle", "lookup", "consume", "late"}
  OBVIOUS
<1>1. \A u \in StepUps : Won(u)' => Won(u) /\ stepUp'[u] = stepUp[u]
  BY <1>0 DEF StepUpTurns, Won
<1>2. \A u \in StepUps : stepUp'[u] = stepUp[u] => NonceOf(u)' = NonceOf(u)
  BY DEF NonceOf
<1>3. StepUpsAnswer'
  BY <1>2 DEF StepUpsAnswer, StepUpTurns, StepUpAt, NonceOf
<1>4. StepUpsVerify'
  <2>1. ASSUME NEW u \in StepUps
        PROVE  /\ Won(u)' \/ stepUp'[u].step \in {"consume", "late"}
                      => stepUp'[u].seen \in Credential
               /\ stepUp'[u].step \in {"consume", "late"} =>
                      Verifies(NonceOf(u)'.signed, stepUp'[u].seen)
    <3>1. CASE u # r
      BY <1>1, <1>2, <3>1 DEF StepUpsVerify, StepUpTurns
    <3>2. CASE u = r
      BY <1>1, <3>2 DEF StepUpsVerify, StepUpTurns, StepUpAt, NonceOf
    <3> QED
      BY <3>1, <3>2
  <2> QED
    BY <2>1 DEF StepUpsVerify
<1>5. WonIsConsumed' /\ WonByOne' /\ StepUpsDiffer'
  BY <1>1, <1>2 DEF WonIsConsumed, WonByOne, StepUpsDiffer
<1>6. StepUpsBehind'
  BY <1>1, <1>2 DEF StepUpsBehind, Behind
<1>7. LoginAndStepUpDiffer'
  BY <1>1, <1>2 DEF LoginAndStepUpDiffer, At, Presented
<1> QED
  BY <1>3, <1>4, <1>5, <1>6, <1>7

\* consume_and_record in full: the nonce is consumed, the key is used, and no
\* other request had won with that nonce or from that reading of the key.
LEMMA StepUpWins ==
    ASSUME PasskeyInv, CeremonyTypeOK, StepUpInv, NEW r \in StepUps,
           NEW step \in {"answered", "lost"},
           stepUp[r].step \in {"consume", "late"}, Consumable(r),
           nonce' = [nonce EXCEPT ![stepUp[r].nonce].by = NonceOf(r).signed.key],
           RecordsUse(NonceOf(r).signed, stepUp[r].seen), StepUpGoes(r, step),
           UNCHANGED loginVars
    PROVE  PasskeysKept /\ CeremonyTypeOK' /\ StepUpInv'
<1> USE DEF StepUpInv
<1>1. ~StepUpAt(r, "idle")
  BY DEF StepUpAt
<1>2. PICK n \in Nonces, s \in Assertion, seen \in Credential :
          n = stepUp[r].nonce /\ s = NonceOf(r).signed /\ seen = stepUp[r].seen
  BY <1>1, StepUpsPresent DEF StepUpsVerify
<1>3. /\ s.key \in Keys /\ s.count \in Nat
      /\ credential[s.key] = seen /\ Used(s.key, s.count) /\ KeysMove
  <2>1. Verifies(s, seen)
    BY <1>2 DEF StepUpsVerify
  <2>2. UsageMatches(s, seen) /\ RecordsUse(s, seen)
    BY <1>2 DEF Consumable
  <2> QED
    BY <2>1, <2>2, RecordingUses
<1>4. /\ RetiredAreGone
      /\ \A k \in Keys, d \in Credential : Behind(k, d) => Behind(k, d)'
      /\ Behind(s.key, seen)'
  BY <1>3, KeysMoveForwards, WinnerIsBehind DEF PasskeyInv
<1>5. PasskeysKept
  <2>1. device' \in [Keys -> Nat]
    BY DEF RecordsUse, PasskeyInv, PasskeyTypeOK
  <2> QED
    BY <1>3, <2>1, LoginsUntouched
<1>6. PICK c : c = [nonce[n] EXCEPT !.by = s.key]
  OBVIOUS
<1>7. /\ c \in Nonce /\ c # None /\ c.signed = s /\ c.by = s.key /\ c.by # None
  <2>1. nonce[n] \in Nonce /\ nonce[n].signed = s
    BY <1>1, <1>2, StepUpsPresent DEF NonceOf
  <2>2. c \in Nonce /\ c.signed = nonce[n].signed /\ c.by = s.key
    BY <1>3, <1>6, <2>1 DEF Nonce
  <2> QED
    BY <1>3, <2>1, <2>2, NoneIsNoDocument, NoneIsNoKey
<1>8. /\ nonce' \in [Nonces -> Nonce \cup {None}]
      /\ \A m \in Nonces : nonce'[m] = IF m = n THEN c ELSE nonce[m]
  BY <1>2, <1>6, <1>7 DEF CeremonyTypeOK
<1>9. PICK t : t = StepUpGoneTo(stepUp[r], step)
  OBVIOUS
<1>10. /\ t \in StepUp /\ t.step = step /\ t.nonce = n /\ t.seen = seen
  BY <1>2, <1>9, StepUpGoneToFits DEF CeremonyTypeOK
<1>11. StepUpTurns(r, t)
  BY <1>9, <1>10, StepUpTurnsInto DEF StepUpGoes, StepUpGoneTo
<1>12. CeremonyTypeOK'
  BY <1>8, <1>11 DEF CeremonyTypeOK, StepUpTurns
<1>13. \A u \in StepUps : Won(u) =>
           /\ u # r /\ stepUp[u].nonce \in Nonces /\ stepUp[u].nonce # n
           /\ NonceOf(u).signed.key \in Keys /\ stepUp[u].seen \in Credential
           /\ Behind(NonceOf(u).signed.key, stepUp[u].seen)
           /\ NonceOf(u).signed.key # s.key \/ stepUp[u].seen # seen
  <2>1. NonceOf(r).by = None
    BY DEF Consumable
  <2>2. TAKE u \in StepUps
  <2>3. HAVE Won(u)
  <2>4. /\ ~StepUpAt(u, "idle")
        /\ NonceOf(u).signed.key \in Keys /\ stepUp[u].seen \in Credential
        /\ NonceOf(u).by # None
        /\ Behind(NonceOf(u).signed.key, stepUp[u].seen)
    BY <2>3, WinnersKnown
  <2>5. stepUp[u].nonce \in Nonces /\ u # r /\ stepUp[u].nonce # n
    BY <1>2, <2>1, <2>3, <2>4, StepUpsPresent DEF NonceOf, Won
  <2>6. NonceOf(u).signed.key # s.key \/ stepUp[u].seen # seen
    BY <1>3, <1>4, <2>4, BehindIsMissed
  <2> QED
    BY <2>4, <2>5, <2>6
<1>14. \A u \in StepUps : Won(u)' => u = r \/ (u # r /\ Won(u) /\ stepUp'[u] = stepUp[u])
  BY <1>11 DEF StepUpTurns, Won
<1>15. \A u \in StepUps : Won(u) => NonceOf(u)' = NonceOf(u) /\ stepUp'[u] = stepUp[u]
  BY <1>8, <1>11, <1>13 DEF StepUpTurns, NonceOf
<1>16. stepUp'[r] = t /\ NonceOf(r)' = c
  BY <1>8, <1>10, <1>11 DEF StepUpTurns, NonceOf
<1>17. StepUpsAnswer'
  <2>1. ASSUME NEW u \in StepUps, u # r, ~StepUpAt(u, "idle")
        PROVE  /\ stepUp[u].nonce \in Nonces
               /\ nonce'[stepUp[u].nonce] # None /\ nonce'[stepUp[u].nonce].signed # None
    BY <1>7, <1>8, <2>1, NoneIsNoAssertion DEF StepUpsAnswer, NonceOf
  <2> QED
    BY <1>7, <1>10, <1>11, <1>16, <2>1, NoneIsNoAssertion
    DEF StepUpsAnswer, StepUpTurns, StepUpAt, NonceOf
<1>18. StepUpsVerify'
  <2>1. ASSUME NEW u \in StepUps, stepUp'[u].step \in {"consume", "late"}
        PROVE  stepUp'[u].seen \in Credential /\ Verifies(NonceOf(u)'.signed, stepUp'[u].seen)
    <3>1. u # r /\ stepUp'[u] = stepUp[u]
      BY <1>10, <1>11, <2>1 DEF StepUpTurns
    <3>2. stepUp[u].seen \in Credential /\ Verifies(NonceOf(u).signed, stepUp[u].seen)
      BY <2>1, <3>1 DEF StepUpsVerify
    <3>3. stepUp[u].nonce \in Nonces
      BY <2>1, <3>1 DEF StepUpsAnswer, StepUpAt
    <3>4. NonceOf(u)'.signed = NonceOf(u).signed
      BY <1>2, <1>7, <1>8, <3>1, <3>3 DEF NonceOf
    <3> QED
      BY <3>1, <3>2, <3>4
  <2>2. \A u \in StepUps : Won(u)' => stepUp'[u].seen \in Credential
    BY <1>10, <1>13, <1>14, <1>16
  <2> QED
    BY <2>1, <2>2 DEF StepUpsVerify
<1>19. WonIsConsumed'
  BY <1>7, <1>14, <1>15, <1>16 DEF WonIsConsumed
<1>20. WonByOne'
  BY <1>10, <1>13, <1>14, <1>15, <1>16 DEF WonByOne
<1>21. StepUpsDiffer'
  BY <1>7, <1>10, <1>13, <1>14, <1>15, <1>16 DEF StepUpsDiffer
<1>22. StepUpsBehind'
  <2>1. ASSUME NEW u \in StepUps, Won(u)'
        PROVE  Behind(NonceOf(u).signed.key, stepUp[u].seen)'
    <3>1. CASE u = r
      BY <1>4, <1>7, <1>10, <1>16, <3>1 DEF Behind
    <3>2. CASE u # r
      <4>1. Won(u)
        BY <1>14, <2>1, <3>2
      <4>2. PICK k \in Keys, d \in Credential :
                k = NonceOf(u).signed.key /\ d = stepUp[u].seen /\ Behind(k, d)
        BY <1>13, <4>1
      <4>3. Behind(k, d)'
        BY <1>4, <4>2
      <4> QED
        BY <1>15, <4>1, <4>2, <4>3 DEF Behind
    <3> QED
      BY <3>1, <3>2
  <2> QED
    BY <2>1 DEF StepUpsBehind
<1>23. LoginAndStepUpDiffer'
  <2>1. \A a \in Attempts : At(a, "session") =>
            Presented(a).key # s.key \/ attempt[a].seen # seen
    <3>1. TAKE a \in Attempts
    <3>2. HAVE At(a, "session")
    <3>3. Presented(a).key \in Keys /\ attempt[a].seen \in Credential
      BY <3>2, AttemptsPresent DEF PasskeyInv, AttemptsVerify, At
    <3>4. Behind(Presented(a).key, attempt[a].seen)
      BY <3>2 DEF PasskeyInv, LoginsBehind
    <3> QED
      BY <1>3, <1>4, <3>3, <3>4, BehindIsMissed
  <2>2. \A a \in Attempts : attempt'[a] = attempt[a] /\ Presented(a)' = Presented(a)
    BY DEF loginVars, Presented
  <2> QED
    BY <1>7, <1>10, <1>14, <1>15, <1>16, <2>1, <2>2 DEF LoginAndStepUpDiffer, At
<1> QED
  BY <1>5, <1>12, <1>17, <1>18, <1>19, <1>20, <1>21, <1>22, <1>23

--------------------------------------------------------------------------------
(* The ledger.  Its steps here are those of its own specification, so what    *)
(* AuthorityLedger_proofs shows of them holds here.                           *)

Proved == INSTANCE AuthorityLedger_proofs

\* The two instances of the ledger are the same.
LEMMA LedgerStepsAreProved ==
    ASSUME Ledger!LedgerNext
    PROVE  Proved!LedgerNext
<1> USE DEF Ledger!NoRecord, Proved!NoRecord, Ledger!NoOutbox, Proved!NoOutbox,
        Ledger!Approved, Proved!Approved, Ledger!Created, Proved!Created
<1>1. Ledger!CreateDraft => Proved!CreateDraft
  BY DEF Ledger!CreateDraft, Proved!CreateDraft
<1>2. Ledger!ServerValidate => Proved!ServerValidate
  BY DEF Ledger!ServerValidate, Proved!ServerValidate
<1>3. Ledger!Approve => Proved!Approve
  BY DEF Ledger!Approve, Proved!Approve
<1>4. Ledger!SettleOutbox => Proved!SettleOutbox
  BY
  DEF Ledger!SettleOutbox, Proved!SettleOutbox, Ledger!Settleable, Proved!Settleable,
      Ledger!SettledOutbox, Proved!SettledOutbox
<1>5. Ledger!CreateLeaseExpires => Proved!CreateLeaseExpires
  BY DEF Ledger!CreateLeaseExpires, Proved!CreateLeaseExpires
<1>6. Ledger!OutboxLeaseExpires => Proved!OutboxLeaseExpires
  BY DEF Ledger!OutboxLeaseExpires, Proved!OutboxLeaseExpires
<1>7. ASSUME NEW d \in Dispatchers, Ledger!ClaimOutbox(d)
      PROVE  Proved!ClaimOutbox(d)
  BY <1>7
  DEF Ledger!ClaimOutbox, Proved!ClaimOutbox, Ledger!OutboxClaimable,
      Proved!OutboxClaimable, Ledger!Exhausted, Proved!Exhausted
<1>8. ASSUME NEW d \in Dispatchers, Ledger!ReleaseOutbox(d)
      PROVE  Proved!ReleaseOutbox(d)
  BY <1>8
  DEF Ledger!ReleaseOutbox, Proved!ReleaseOutbox, Ledger!DispatchedBy,
      Proved!DispatchedBy, Ledger!Rearmed, Proved!Rearmed, Ledger!Exhausted,
      Proved!Exhausted
<1>9. ASSUME NEW d \in Dispatchers, Ledger!RecordWorkerFailure(d)
      PROVE  Proved!RecordWorkerFailure(d)
  BY <1>9
  DEF Ledger!RecordWorkerFailure, Proved!RecordWorkerFailure, Ledger!DispatchedBy,
      Proved!DispatchedBy, Ledger!Rearmed, Proved!Rearmed, Ledger!Exhausted,
      Proved!Exhausted,
     Ledger!SettledOutbox, Proved!SettledOutbox
<1>10. ASSUME NEW w \in Workers, Ledger!ClaimCreate(w)
      PROVE  Proved!ClaimCreate(w)
  BY <1>10
  DEF Ledger!ClaimCreate, Proved!ClaimCreate, Ledger!CreateClaimable,
      Proved!CreateClaimable, Ledger!LiveClaim, Proved!LiveClaim
<1>11. ASSUME NEW w \in Workers, Ledger!FenceCreate(w)
      PROVE  Proved!FenceCreate(w)
  BY <1>11
  DEF Ledger!FenceCreate, Proved!FenceCreate, Ledger!MayFence, Proved!MayFence,
      Ledger!HeldBy, Proved!HeldBy
<1>12. ASSUME NEW w \in Workers, Ledger!ClaimReconciliation(w)
      PROVE  Proved!ClaimReconciliation(w)
  BY <1>12
  DEF Ledger!ClaimReconciliation, Proved!ClaimReconciliation, Ledger!Reconcilable,
      Proved!Reconcilable, Ledger!LiveClaim, Proved!LiveClaim
<1>13. ASSUME NEW w \in Workers, Ledger!ReleaseClaim(w)
      PROVE  Proved!ReleaseClaim(w)
  BY <1>13 DEF Ledger!ReleaseClaim, Proved!ReleaseClaim
<1>14. ASSUME NEW w \in Workers, Ledger!MarkFencedFailure(w)
      PROVE  Proved!MarkFencedFailure(w)
  BY <1>14
  DEF Ledger!MarkFencedFailure, Proved!MarkFencedFailure, Ledger!HeldBy,
      Proved!HeldBy
<1>15. ASSUME NEW w \in Workers, NEW c \in Campaigns, Ledger!CompleteCreate(w, c)
      PROVE  Proved!CompleteCreate(w, c)
  BY <1>15
  DEF Ledger!CompleteCreate, Proved!CompleteCreate, Ledger!MayComplete,
      Proved!MayComplete, Ledger!HeldBy, Proved!HeldBy
<1> QED
  BY <1>1, <1>2, <1>3, <1>4, <1>5, <1>6, <1>7, <1>8, <1>9, <1>10, <1>11, <1>12, <1>13,
     <1>14, <1>15 DEF Ledger!LedgerNext, Proved!LedgerNext

\* Every step is one of the ledger's, or leaves its documents alone.
LEMMA LedgerSteps == [Next]_vars => [Ledger!LedgerNext]_(Ledger!ledgerVars)
<1> SUFFICES ASSUME [Next]_vars, ~UNCHANGED <<record, outbox>>
             PROVE  Ledger!LedgerNext
  BY DEF Ledger!ledgerVars
<1>1. CASE LedgerClients
  BY <1>1 DEF LedgerClients
<1>2. ASSUME NEW q \in Approvals, DecideApproval(q)
      PROVE  Ledger!LedgerNext
  BY <1>2 DEF DecideApproval, Ledger!LedgerNext
<1> QED
  BY <1>1, <1>2
  DEF Next, vars, Login, EvidenceExpires, StartProbe, FinishProbe, NonceAges, BeginStepUp,
      SignStepUp, SubmitStepUp, LookUpOwnerKey, ConsumeNonce, StepUpTimesOut, AskApproval,
      ApprovalTimesOut

\* The type of the ledger, by the lemma of its own proofs.
LEMMA LedgerKeepsType == Ledger!LedgerTypeOK /\ [Next]_vars => Ledger!LedgerTypeOK'
<1> SUFFICES ASSUME Ledger!LedgerTypeOK, [Next]_vars
             PROVE  Ledger!LedgerTypeOK'
  OBVIOUS
<1>1. Proved!LedgerTypeOK <=> Ledger!LedgerTypeOK
  BY DEF Proved!LedgerTypeOK, Ledger!LedgerTypeOK, Proved!Record, Ledger!Record,
         Proved!Outbox, Ledger!Outbox, Proved!States, Ledger!States, Proved!Leases,
         Ledger!Leases, Proved!OutboxStates, Ledger!OutboxStates
<1>2. Proved!LedgerTypeOK' <=> Ledger!LedgerTypeOK'
  BY DEF Proved!LedgerTypeOK, Ledger!LedgerTypeOK, Proved!Record, Ledger!Record,
         Proved!Outbox, Ledger!Outbox, Proved!States, Ledger!States, Proved!Leases,
         Ledger!Leases, Proved!OutboxStates, Ledger!OutboxStates
<1>3. [Proved!LedgerNext]_(Proved!ledgerVars)
  BY LedgerSteps, LedgerStepsAreProved DEF Ledger!ledgerVars, Proved!ledgerVars
<1> QED
  BY <1>1, <1>2, <1>3, Proved!LedgerTypeStep, NoneIsNoClaimant, MaxAttemptsPositive

--------------------------------------------------------------------------------
(* The keys, the logins and the ceremony.                                     *)

\* A device that signs for the ceremony leaves keys and logins as they are.
LEMMA SigningKeeps ==
    ASSUME PasskeyInv, NEW k \in Keys, Signs(k), UNCHANGED loginVars
    PROVE  PasskeysKept
<1>1. device' \in [Keys -> Nat] /\ KeysMove
  BY DEF Signs, PasskeyInv, PasskeyTypeOK, KeysMove
<1> QED
  BY <1>1, LoginsUntouched

\* What a step makes of a nonce: the evidence and the owner stay.
NonceSigned(c, s) == [c EXCEPT !.signed = s]
NonceAged(c, age) == [c EXCEPT !.age = age]

\* Signing and ageing leave the rest of the nonce.
LEMMA NonceSignedFits ==
    ASSUME NEW c \in Nonce, NEW s \in Assertion
    PROVE  NonceSigned(c, s) \in Nonce /\ NonceSigned(c, s).by = c.by
  BY DEF NonceSigned, Nonce

\* The fields of a nonce that grew older.
LEMMA NonceAgedFits ==
    ASSUME NEW c \in Nonce, NEW age \in Ages
    PROVE  /\ NonceAged(c, age) \in Nonce
           /\ NonceAged(c, age).signed = c.signed /\ NonceAged(c, age).by = c.by
  BY DEF NonceAged, Nonce

\* One nonce changes, and no request at work notices.
LEMMA NonceTurns ==
    ASSUME PasskeyInv, CeremonyTypeOK, StepUpInv, KeysMove, SessionsMove,
           NEW n \in Nonces, NEW c \in Nonce,
           nonce' = [nonce EXCEPT ![n] = c], stepUp' = stepUp,
           \/ nonce[n] = None
           \/ nonce[n].signed = None
           \/ c.signed = nonce[n].signed /\ c.by = nonce[n].by
    PROVE  CeremonyTypeOK' /\ StepUpInv'
<1>1. /\ nonce' \in [Nonces -> Nonce \cup {None}] /\ c # None
      /\ \A m \in Nonces : nonce'[m] = IF m = n THEN c ELSE nonce[m]
  BY NoneIsNoDocument DEF CeremonyTypeOK
<1>2. \A r \in StepUps : ~StepUpAt(r, "idle") =>
          /\ stepUp[r].nonce \in Nonces /\ NonceOf(r) # None /\ NonceOf(r).signed # None
  BY DEF StepUpInv, StepUpsAnswer
<1>3. \A r \in StepUps : ~StepUpAt(r, "idle") =>
          /\ NonceOf(r)' # None
          /\ NonceOf(r)'.signed = NonceOf(r).signed
          /\ NonceOf(r)'.by = NonceOf(r).by
  BY <1>1, <1>2 DEF NonceOf
<1> QED
  BY <1>1, <1>3, CeremonyUntouched DEF CeremonyTypeOK

\* Every step keeps the keys and the logins, and what is known of the ceremony.
LEMMA KeysAndCeremonyKept ==
    ASSUME PasskeyInv, CeremonyTypeOK, StepUpInv, [Next]_vars
    PROVE  PasskeysKept /\ CeremonyTypeOK' /\ StepUpInv'
<1>1. UNCHANGED passkeyVars => PasskeysKept
  <2>1. SUFFICES ASSUME UNCHANGED passkeyVars PROVE PasskeysKept
    OBVIOUS
  <2>2. device' \in [Keys -> Nat] /\ KeysMove /\ UNCHANGED loginVars
    BY <2>1 DEF PasskeyInv, PasskeyTypeOK, passkeyVars, credentialVars, KeysMove
  <2> QED
    BY <2>2, LoginsUntouched
<1>2. PasskeysKept => KeysMove /\ SessionsMove
  BY DEF PasskeysKept
<1>3. PasskeysKept /\ UNCHANGED stepUpVars => CeremonyTypeOK' /\ StepUpInv'
  <2>1. SUFFICES ASSUME PasskeysKept, UNCHANGED stepUpVars
                 PROVE  CeremonyTypeOK' /\ StepUpInv'
    OBVIOUS
  <2>2. stepUp' = stepUp /\ nonce' = nonce
    BY <2>1 DEF stepUpVars
  <2>3. \A r \in StepUps : ~StepUpAt(r, "idle") =>
            /\ NonceOf(r)' # None
            /\ NonceOf(r)'.signed = NonceOf(r).signed
            /\ NonceOf(r)'.by = NonceOf(r).by
    BY <2>2 DEF NonceOf, StepUpInv, StepUpsAnswer
  <2> QED
    BY <1>2, <2>1, <2>2, <2>3, CeremonyUntouched DEF CeremonyTypeOK
<1>4. CASE Login
  BY <1>3, <1>4, PasskeysStep DEF Login
<1>5. CASE \/ LedgerClients \/ EvidenceExpires
           \/ \E p \in Probes : StartProbe(p) \/ FinishProbe(p)
           \/ \E q \in Approvals : AskApproval(q) \/ DecideApproval(q) \/ ApprovalTimesOut(q)
           \/ UNCHANGED vars
  <2>1. UNCHANGED <<passkeyVars, stepUpVars>>
    BY <1>5 DEF LedgerClients, EvidenceExpires, StartProbe, FinishProbe, AskApproval,
                DecideApproval, ApprovalTimesOut, vars
  <2> QED
    BY <1>1, <1>3, <2>1
<1>6. ASSUME NEW n \in Nonces, NonceAges(n)
      PROVE  PasskeysKept /\ CeremonyTypeOK' /\ StepUpInv'
  <2>1. PICK c : c = NonceAged(nonce[n], Later[nonce[n].age])
    OBVIOUS
  <2>2. nonce[n] \in Nonce
    BY <1>6 DEF NonceAges, CeremonyTypeOK
  <2>3. Later[nonce[n].age] \in Ages
    BY <1>6, <2>2 DEF NonceAges, Nonce, Ages, Later
  <2>4. c \in Nonce /\ c.signed = nonce[n].signed /\ c.by = nonce[n].by
    BY <2>1, <2>2, <2>3, NonceAgedFits
  <2>5. nonce' = [nonce EXCEPT ![n] = c] /\ stepUp' = stepUp /\ UNCHANGED passkeyVars
    BY <1>6, <2>1 DEF NonceAges, NonceAged
  <2> QED
    BY <1>1, <1>2, <2>4, <2>5, NonceTurns
<1>7. ASSUME NEW n \in Nonces, NEW u \in Users, BeginStepUp(n, u)
      PROVE  PasskeysKept /\ CeremonyTypeOK' /\ StepUpInv'
  <2>1. PICK p \in Probes :
            nonce' = [nonce EXCEPT ![n] = [owner |-> u, probe |-> p, age |-> "live",
                                           signed |-> None, by |-> None]]
    BY <1>7 DEF BeginStepUp
  <2>2. PICK c : c = [owner |-> u, probe |-> p, age |-> "live", signed |-> None, by |-> None]
    OBVIOUS
  <2>3. c \in Nonce
    BY <2>2 DEF Nonce, Ages
  <2>4. /\ nonce' = [nonce EXCEPT ![n] = c] /\ nonce[n] = None
        /\ stepUp' = stepUp /\ UNCHANGED passkeyVars
    BY <1>7, <2>1, <2>2 DEF BeginStepUp
  <2> QED
    BY <1>1, <1>2, <2>3, <2>4, NonceTurns
<1>8. ASSUME NEW n \in Nonces, NEW k \in Keys, SignStepUp(n, k)
      PROVE  PasskeysKept /\ CeremonyTypeOK' /\ StepUpInv'
  <2>1. PICK s : s = Signature(k)
    OBVIOUS
  <2>2. s \in Assertion
    BY <1>8, <2>1, SignatureFits DEF SignStepUp, PasskeyInv
  <2>3. PICK c : c = NonceSigned(nonce[n], s)
    OBVIOUS
  <2>4. nonce[n] \in Nonce
    BY <1>8 DEF SignStepUp, CeremonyTypeOK
  <2>5. c \in Nonce
    BY <2>2, <2>3, <2>4, NonceSignedFits
  <2>6. /\ nonce' = [nonce EXCEPT ![n] = c] /\ nonce[n].signed = None /\ stepUp' = stepUp
    BY <1>8, <2>1, <2>3 DEF SignStepUp, NonceSigned
  <2>7. PasskeysKept
    BY <1>8, SigningKeeps DEF SignStepUp
  <2> QED
    BY <1>2, <2>5, <2>6, <2>7, NonceTurns
<1>9. ASSUME NEW n \in Nonces, NEW r \in StepUps, SubmitStepUp(r, n)
      PROVE  PasskeysKept /\ CeremonyTypeOK' /\ StepUpInv'
  <2>1. PICK t : t = StepUpSubmitted(stepUp[r], n)
    OBVIOUS
  <2>2. t \in StepUp /\ t.step = "lookup" /\ t.nonce = n
    BY <2>1, StepUpSubmittedFits DEF CeremonyTypeOK
  <2>3. StepUpTurns(r, t)
    BY <1>9, <2>1, <2>2, StepUpTurnsInto DEF SubmitStepUp, StepUpSubmitted
  <2>4. /\ nonce[n] # None /\ nonce[n].signed # None /\ nonce' = nonce
        /\ UNCHANGED passkeyVars
    BY <1>9 DEF SubmitStepUp
  <2>5. UNCHANGED <<credential, retired, assertion, attempt, nonce>>
    BY <2>4 DEF passkeyVars, credentialVars, loginVars
  <2>6. StepUpInv'
    BY <2>2, <2>3, <2>4, <2>5, StepUpGoesOn
  <2> QED
    BY <1>1, <2>3, <2>4, <2>6 DEF CeremonyTypeOK, StepUpTurns
<1>10. ASSUME NEW r \in StepUps, StepUpTimesOut(r)
       PROVE  PasskeysKept /\ CeremonyTypeOK' /\ StepUpInv'
  <2>1. PICK t : t = StepUpGoneTo(stepUp[r], "late")
    OBVIOUS
  <2>2. /\ t \in StepUp /\ t.step = "late"
        /\ t.nonce = stepUp[r].nonce /\ t.seen = stepUp[r].seen
    BY <2>1, StepUpGoneToFits DEF CeremonyTypeOK
  <2>3. StepUpTurns(r, t)
    BY <1>10, <2>1, <2>2, StepUpTurnsInto DEF StepUpTimesOut, StepUpGoes, StepUpGoneTo
  <2>4. nonce' = nonce /\ UNCHANGED passkeyVars /\ StepUpAt(r, "consume")
    BY <1>10 DEF StepUpTimesOut
  <2>5. UNCHANGED <<credential, retired, assertion, attempt, nonce>>
    BY <2>4 DEF passkeyVars, credentialVars, loginVars
  <2>6. StepUpInv'
    BY <2>2, <2>3, <2>4, <2>5, StepUpGoesOn
  <2> QED
    BY <1>1, <2>3, <2>4, <2>6 DEF CeremonyTypeOK, StepUpTurns
<1>11. ASSUME NEW r \in StepUps, UNCHANGED <<passkeyVars, nonce>>, StepUpFails(r)
       PROVE  PasskeysKept /\ CeremonyTypeOK' /\ StepUpInv'
  <2>1. StepUpTurns(r, IdleStepUp)
    BY <1>11, IdleIsStepUp, StepUpTurnsInto DEF StepUpFails
  <2>2. UNCHANGED <<credential, retired, assertion, attempt, nonce>>
    BY <1>11 DEF passkeyVars, credentialVars, loginVars
  <2>3. StepUpInv'
    BY <2>1, <2>2, IdleIsStepUp, StepUpGoesOn
  <2> QED
    BY <1>1, <1>11, <2>1, <2>3 DEF CeremonyTypeOK, StepUpTurns
<1>12. ASSUME NEW r \in StepUps, LookUpOwnerKey(r)
       PROVE  PasskeysKept /\ CeremonyTypeOK' /\ StepUpInv'
  <2>1. PICK doc : doc = credential[NonceOf(r).signed.key]
    OBVIOUS
  <2>2. StepUpAt(r, "lookup") /\ nonce' = nonce /\ UNCHANGED passkeyVars
    BY <1>12 DEF LookUpOwnerKey
  <2>3. CASE doc # None /\ Verifies(NonceOf(r).signed, doc)
    <3>1. NonceOf(r).signed.key \in Keys /\ stepUp[r].nonce \in Nonces
      BY <2>2, StepUpsPresent DEF StepUpAt
    <3>2. doc \in Credential
      BY <2>1, <2>3, <3>1 DEF PasskeyInv, PasskeyTypeOK
    <3>3. PICK t : t = StepUpLooked(stepUp[r], doc)
      OBVIOUS
    <3>4. /\ t \in StepUp /\ t.step = "consume" /\ t.seen = doc /\ t.nonce = stepUp[r].nonce
      BY <3>2, <3>3, StepUpLookedFits DEF CeremonyTypeOK
    <3>5. StepUpTurns(r, t)
      <4>1. stepUp' = [stepUp EXCEPT ![r].step = "consume", ![r].seen = doc]
        BY <1>12, <2>1, <2>3 DEF LookUpOwnerKey
      <4>2. stepUp' = [stepUp EXCEPT ![r] = t]
        BY <3>3, <4>1 DEF StepUpLooked
      <4> QED
        BY <3>4, <4>2, StepUpTurnsInto
    <3>6. UNCHANGED <<credential, retired, assertion, attempt, nonce>>
      BY <2>2 DEF passkeyVars, credentialVars, loginVars
    <3>7. StepUpInv'
      BY <2>2, <2>3, <3>2, <3>4, <3>5, <3>6, StepUpGoesOn
    <3> QED
      BY <1>1, <2>2, <3>5, <3>7 DEF CeremonyTypeOK, StepUpTurns
  <2>4. CASE ~(doc # None /\ Verifies(NonceOf(r).signed, doc))
    BY <1>11, <1>12, <2>1, <2>2, <2>4 DEF LookUpOwnerKey
  <2> QED
    BY <2>3, <2>4
<1>13. ASSUME NEW r \in StepUps, ConsumeNonce(r)
       PROVE  PasskeysKept /\ CeremonyTypeOK' /\ StepUpInv'
  <2>1. CASE Consumable(r)
    <3>1. PICK step \in {"answered", "lost"} : StepUpGoes(r, step)
      BY <1>13, <2>1 DEF ConsumeNonce
    <3> QED
      BY <1>13, <2>1, <3>1, StepUpWins DEF ConsumeNonce
  <2>2. CASE ~Consumable(r)
    <3>1. StepUpFails(r) /\ nonce' = nonce /\ UNCHANGED passkeyVars
      BY <1>13, <2>2 DEF ConsumeNonce, passkeyVars
    <3> QED
      BY <1>11, <3>1
  <2> QED
    BY <2>1, <2>2
<1> QED
  BY <1>4, <1>5, <1>6, <1>7, <1>8, <1>9, <1>10, <1>12, <1>13 DEF Next

--------------------------------------------------------------------------------
(* Evidence and approvals.                                                    *)

\* The part of the type invariant about the evidence jobs.
EvidenceTypeOK ==
    /\ access \in Evidence \cup {None}
    /\ probe \in [Probes -> {"idle", "read", "stale", "done"}]

\* A run of the evidence job that became stale is still one.
LEMMA NoteVersionKeepsType ==
    ASSUME EvidenceTypeOK, NoteVersion
    PROVE  probe' \in [Probes -> {"idle", "read", "stale", "done"}]
  BY DEF EvidenceTypeOK, NoteVersion

\* No step takes the evidence out of its schema.
LEMMA EvidenceKept ==
    ASSUME EvidenceTypeOK, [Next]_vars
    PROVE  EvidenceTypeOK'
<1> USE DEF EvidenceTypeOK
<1>1. UNCHANGED evidenceVars => EvidenceTypeOK'
  BY DEF evidenceVars
<1>2. access' = access /\ NoteVersion => EvidenceTypeOK'
  BY NoteVersionKeepsType
<1>3. CASE EvidenceExpires
  BY <1>3 DEF EvidenceExpires, Evidence
<1>4. ASSUME NEW p \in Probes, StartProbe(p)
      PROVE  EvidenceTypeOK'
  BY <1>4 DEF StartProbe
<1>5. ASSUME NEW p \in Probes, FinishProbe(p)
      PROVE  EvidenceTypeOK'
  <2>1. probe' = [probe EXCEPT ![p] = "done"]
    BY <1>5 DEF FinishProbe
  <2>2. ASSUME NEW passed \in BOOLEAN
        PROVE  [probe |-> p, passed |-> passed, expired |-> FALSE] \in Evidence
    BY DEF Evidence
  <2>3. access' \in Evidence \cup {None}
    BY <1>5, <2>2 DEF FinishProbe
  <2> QED
    BY <2>1, <2>3
<1>6. CASE UNCHANGED evidenceVars \/ (access' = access /\ NoteVersion)
  BY <1>1, <1>2, <1>6
<1> QED
  BY <1>3, <1>4, <1>5, <1>6
  DEF Next, vars, Login, LedgerClients, NonceAges, BeginStepUp, SignStepUp, SubmitStepUp,
      LookUpOwnerKey, ConsumeNonce, StepUpTimesOut, AskApproval, DecideApproval,
      ApprovalTimesOut

\* The part of the invariant about approvals.
ApprovalInv ==
    /\ approval \in [Approvals -> Approval]
    /\ marker \in Nonces \cup {None}
    /\ ApprovalsPresent /\ AnswersAgree

\* The evidence an approval rests on, when it is given.
MarkedAsSeen ==
    marker' # marker => /\ access # None /\ access.passed /\ ~access.expired
                        /\ access.probe = nonce[marker'].probe

\* One approval request changes, and stays a request.
ApprovalTurns(q, t) ==
    /\ approval' \in [Approvals -> Approval]
    /\ \A p \in Approvals : approval'[p] = IF p = q THEN t ELSE approval[p]

ApprovalGoneTo(t, step) == [t EXCEPT !.step = step]

\* The update of the model is a turn.
LEMMA ApprovalTurnsInto ==
    ASSUME ApprovalInv, NEW q \in Approvals, NEW t \in Approval,
           approval' = [approval EXCEPT ![q] = t]
    PROVE  ApprovalTurns(q, t)
  BY DEF ApprovalTurns, ApprovalInv

\* An answered request, and one that goes on, are requests.
LEMMA IdleIsApproval == IdleApproval \in Approval /\ IdleApproval.step = "idle"
  BY DEF IdleApproval, Approval, ApprovalSteps

\* The fields of an approval that has gone on.
LEMMA ApprovalGoneToFits ==
    ASSUME NEW t \in Approval, NEW step \in ApprovalSteps
    PROVE  /\ ApprovalGoneTo(t, step) \in Approval
           /\ ApprovalGoneTo(t, step).step = step /\ ApprovalGoneTo(t, step).nonce = t.nonce
  BY DEF ApprovalGoneTo, Approval

\* A request that is told nothing, or is told of an approval with its own proof.
LEMMA ApprovalGoesOn ==
    ASSUME ApprovalInv, NEW q \in Approvals, NEW t \in Approval,
           ApprovalTurns(q, t), marker' \in Nonces \cup {None},
           t.step # "idle" => t.nonce \in Nonces,
           \/ t.step \in {"idle", "asked", "late"} /\ marker' = marker
           \/ t.step = "replayed" /\ t.nonce = marker /\ marker' = marker
           \/ t.step = "approved" /\ marker = None /\ marker' = t.nonce
    PROVE  ApprovalInv'
<1> USE DEF ApprovalInv
<1>1. ApprovalsPresent'
  BY DEF ApprovalsPresent, ApprovalTurns, ApprovalAt
<1>2. \A p \in Approvals : approval[p].step \in {"approved", "replayed"} =>
          approval[p].nonce = marker /\ marker # None
  BY NoneIsNoNonce DEF AnswersAgree, ApprovalsPresent, ApprovalAt
<1>3. AnswersAgree'
  BY <1>2 DEF AnswersAgree, ApprovalTurns, ApprovalAt
<1> QED
  BY <1>1, <1>3 DEF ApprovalTurns

\* The three answers of approve_paused_create_with_proof: it approves with the
\* proof of a request that nobody else was told of, it repeats what it told
\* that proof, or it refuses.
LEMMA DecisionsKeep ==
    ASSUME ApprovalInv, NEW q \in Approvals, DecideApproval(q)
    PROVE  ApprovalInv' /\ MarkedAsSeen
<1>1. PICK n : n = approval[q].nonce
  OBVIOUS
<1>2. n \in Nonces /\ approval[q] \in Approval
  BY <1>1 DEF DecideApproval, ApprovalInv, ApprovalsPresent, ApprovalAt
<1>3. PICK t : t \in Approval /\ t.step = "replayed" /\ t.nonce = n
                   /\ t = ApprovalGoneTo(approval[q], "replayed")
  BY <1>1, <1>2, ApprovalGoneToFits DEF ApprovalSteps
<1>4. PICK u : u \in Approval /\ u.step = "approved" /\ u.nonce = n
                   /\ u = ApprovalGoneTo(approval[q], "approved")
  BY <1>1, <1>2, ApprovalGoneToFits DEF ApprovalSteps
<1>5. CASE approval' = [approval EXCEPT ![q] = IdleApproval] /\ marker' = marker
  BY <1>5, IdleIsApproval, ApprovalTurnsInto, ApprovalGoesOn DEF ApprovalInv, MarkedAsSeen
<1>6. CASE Decided /\ Replays(n) /\ Tells(q, "replayed") /\ marker' = marker
  <2>1. CASE ApprovalAt(q, "asked")
    <3>1. ApprovalTurns(q, t)
      BY <1>3, <1>6, <2>1, ApprovalTurnsInto DEF Tells, ApprovalGoneTo
    <3>2. t.nonce = marker
      BY <1>3, <1>6 DEF Replays
    <3> QED
      BY <1>2, <1>3, <1>6, <3>1, <3>2, ApprovalGoesOn DEF ApprovalInv, MarkedAsSeen
  <2>2. CASE ~ApprovalAt(q, "asked")
    BY <1>5, <1>6, <2>2 DEF Tells
  <2> QED
    BY <2>1, <2>2
<1>7. CASE ~Decided /\ Approvable(n) /\ marker' = n /\ Tells(q, "approved")
  <2>1. marker = None
    BY <1>7 DEF Decided
  <2>2. MarkedAsSeen
    BY <1>7 DEF MarkedAsSeen, Approvable, Green
  <2>3. CASE ApprovalAt(q, "asked")
    <3>1. ApprovalTurns(q, u)
      BY <1>4, <1>7, <2>3, ApprovalTurnsInto DEF Tells, ApprovalGoneTo
    <3> QED
      BY <1>2, <1>4, <1>7, <2>1, <2>2, <3>1, ApprovalGoesOn
  <2>4. CASE ~ApprovalAt(q, "asked")
    <3>1. ApprovalTurns(q, IdleApproval)
      BY <1>7, <2>4, IdleIsApproval, ApprovalTurnsInto DEF Tells
    <3>2. \A p \in Approvals : approval[p].step \notin {"approved", "replayed"}
      BY <2>1, NoneIsNoNonce DEF ApprovalInv, AnswersAgree, ApprovalsPresent, ApprovalAt
    <3>3. AnswersAgree'
      BY <3>1, <3>2, IdleIsApproval DEF AnswersAgree, ApprovalTurns, ApprovalAt
    <3>4. ApprovalsPresent'
      BY <3>1, IdleIsApproval DEF ApprovalInv, ApprovalsPresent, ApprovalTurns, ApprovalAt
    <3> QED
      BY <1>2, <1>7, <2>2, <3>1, <3>3, <3>4 DEF ApprovalInv, ApprovalTurns
  <2> QED
    BY <2>3, <2>4
<1> QED
  BY <1>1, <1>5, <1>6, <1>7 DEF DecideApproval

\* Every step keeps what is known of the approvals.
LEMMA ApprovalsKept ==
    ASSUME ApprovalInv, [Next]_vars
    PROVE  ApprovalInv' /\ MarkedAsSeen
<1>1. CASE UNCHANGED approvalVars
  BY <1>1 DEF approvalVars, ApprovalInv, ApprovalsPresent, AnswersAgree, ApprovalAt,
              MarkedAsSeen
<1>2. ASSUME NEW q \in Approvals, AskApproval(q)
      PROVE  ApprovalInv' /\ MarkedAsSeen
  <2>1. PICK n \in Nonces : approval' = [approval EXCEPT ![q] = [step |-> "asked", nonce |-> n]]
    BY <1>2 DEF AskApproval, References
  <2>2. PICK t : t = [step |-> "asked", nonce |-> n]
    OBVIOUS
  <2>3. t \in Approval /\ t.step = "asked" /\ t.nonce = n
    BY <2>2 DEF Approval, ApprovalSteps
  <2>4. ApprovalTurns(q, t) /\ marker' = marker
    BY <1>2, <2>1, <2>2, <2>3, ApprovalTurnsInto DEF AskApproval
  <2> QED
    BY <2>3, <2>4, ApprovalGoesOn DEF ApprovalInv, MarkedAsSeen
<1>3. ASSUME NEW q \in Approvals, ApprovalTimesOut(q)
      PROVE  ApprovalInv' /\ MarkedAsSeen
  <2>1. PICK t : t = ApprovalGoneTo(approval[q], "late")
    OBVIOUS
  <2>2. approval[q] \in Approval /\ approval[q].nonce \in Nonces
    BY <1>3 DEF ApprovalTimesOut, ApprovalInv, ApprovalsPresent, ApprovalAt
  <2>3. t \in Approval /\ t.step = "late" /\ t.nonce \in Nonces
    BY <2>1, <2>2, ApprovalGoneToFits DEF ApprovalSteps
  <2>4. ApprovalTurns(q, t) /\ marker' = marker
    BY <1>3, <2>1, <2>3, ApprovalTurnsInto DEF ApprovalTimesOut, ApprovalGoneTo
  <2> QED
    BY <2>3, <2>4, ApprovalGoesOn DEF ApprovalInv, MarkedAsSeen
<1>4. ASSUME NEW q \in Approvals, DecideApproval(q)
      PROVE  ApprovalInv' /\ MarkedAsSeen
  BY <1>4, DecisionsKeep
<1> QED
  BY <1>1, <1>2, <1>3, <1>4
  DEF Next, vars, Login, LedgerClients, EvidenceExpires, StartProbe, FinishProbe, NonceAges,
      BeginStepUp, SignStepUp, SubmitStepUp, LookUpOwnerKey, ConsumeNonce, StepUpTimesOut

--------------------------------------------------------------------------------
(* The theorems.                                                              *)

\* What a step may never do, of the action properties below.
StepKept == KeysMove /\ ChallengesStay /\ MarkedAsSeen

\* The invariant holds at first, is kept, and with it what no step may do.
LEMMA OwnInvInit == Init => OwnInv
<1> SUFFICES ASSUME Init PROVE OwnInv
  OBVIOUS
<1> USE DEF Init
<1>1. PasskeyInv
  <2>1. [count |-> 0, used |-> 0] \in Credential
    BY DEF Credential
  <2>2. PasskeyTypeOK
    BY <2>1, IdleIsAttempt DEF PasskeyInit, PasskeyTypeOK, Sweep
  <2> QED
    BY <2>2 DEF PasskeyInit, PasskeyInv, RetiredAreGone, SweepsExpired, AttemptsAnswer,
                BurntIsGone, BurntByOne, Burnt, AttemptsVerify, LoginsBehind, LoginsDiffer,
                At, IdleAttempt
<1>2. Ledger!LedgerTypeOK
  BY MaxAttemptsPositive
  DEF Ledger!LedgerInit, Ledger!LedgerTypeOK, Ledger!NoRecord, Ledger!NoOutbox,
      Ledger!Record, Ledger!Outbox, Ledger!States, Ledger!OutboxStates, Ledger!Leases
<1>3. TypeOK
  BY <1>1, <1>2, IdleIsStepUp, IdleIsApproval DEF TypeOK, PasskeyInv
<1>4. StepUpInv
  BY IdleIsStepUp
  DEF StepUpInv, StepUpsAnswer, StepUpsVerify, WonIsConsumed, WonByOne, StepUpsBehind,
      StepUpsDiffer, LoginAndStepUpDiffer, Won, StepUpAt
<1>5. ApprovalsPresent /\ AnswersAgree
  BY IdleIsApproval DEF ApprovalsPresent, AnswersAgree, ApprovalAt
<1> QED
  BY <1>1, <1>3, <1>4, <1>5 DEF OwnInv

\* Every step keeps the invariant.
LEMMA OwnInvStep == OwnInv /\ [Next]_vars => OwnInv' /\ StepKept
<1> SUFFICES ASSUME OwnInv, [Next]_vars
             PROVE  OwnInv' /\ StepKept
  OBVIOUS
<1>1. PasskeysKept /\ CeremonyTypeOK' /\ StepUpInv'
  BY KeysAndCeremonyKept DEF OwnInv, TypeOK, CeremonyTypeOK
<1>2. ApprovalInv' /\ MarkedAsSeen
  BY ApprovalsKept DEF OwnInv, TypeOK, ApprovalInv
<1>3. EvidenceTypeOK'
  BY EvidenceKept DEF OwnInv, TypeOK, EvidenceTypeOK
<1>4. Ledger!LedgerTypeOK'
  BY LedgerKeepsType DEF OwnInv, TypeOK
<1>5. PasskeyInv' /\ PasskeyTypeOK' /\ KeysMove /\ ChallengesStay
  BY <1>1 DEF PasskeysKept, PasskeyInv
<1>6. TypeOK'
  BY <1>1, <1>2, <1>3, <1>4, <1>5 DEF TypeOK, CeremonyTypeOK, ApprovalInv, EvidenceTypeOK
<1> QED
  BY <1>1, <1>2, <1>5, <1>6 DEF OwnInv, ApprovalInv, StepKept

\* The invariant holds of every state.
LEMMA OwnInvHolds == Spec => []OwnInv
  BY OwnInvInit, OwnInvStep, PTL DEF Spec

\* Whatever logins, ceremonies, evidence jobs, approvals and ledger clients do,
\* every document and request stays within its schema.
THEOREM TypeCorrect == Spec => []TypeOK
<1>1. OwnInv => TypeOK
  BY DEF OwnInv
<1> QED
  BY <1>1, OwnInvHolds, PTL

\* However often an assertion is submitted, a login challenge opens one session.
THEOREM OneSessionPerChallenge == Spec => []LoginOnce
<1>1. OwnInv => LoginOnce
  BY SessionsBurnApart DEF OwnInv
<1> QED
  BY <1>1, OwnInvHolds, PTL

\* However many requests submit one ceremony, in time or late, one consumes it.
THEOREM OneProofPerCeremony == Spec => []StepUpOnce
<1>1. OwnInv => StepUpOnce
  BY DEF OwnInv, StepUpInv, WonByOne, Won, StepUpOnce
<1> QED
  BY <1>1, OwnInvHolds, PTL

\* Of all requests, logins and ceremonies, that read a key in one state, one at
\* most gets its use accepted.
THEOREM OneUsePerReading == Spec => []OneWinnerPerReading
<1>1. ASSUME PasskeyInv, StepUpInv
      PROVE  OneWinnerPerReading
  <2>1. PICK logins :
            logins = {[by |-> a, key |-> Presented(a).key, seen |-> attempt[a].seen] :
                          a \in {b \in Attempts : At(b, "session")}}
    OBVIOUS
  <2>2. PICK stepUps :
            stepUps = {[by |-> r, key |-> NonceOf(r).signed.key, seen |-> stepUp[r].seen] :
                           r \in {t \in StepUps : stepUp[t].step \in {"answered", "lost"}}}
    OBVIOUS
  <2>3. \A v, w \in logins : v.key = w.key /\ v.seen = w.seen => v = w
    BY <1>1, <2>1 DEF PasskeyInv, LoginsDiffer
  <2>4. \A v, w \in stepUps : v.key = w.key /\ v.seen = w.seen => v = w
    BY <1>1, <2>2 DEF StepUpInv, StepUpsDiffer, Won
  <2>5. \A v \in logins, w \in stepUps : ~(v.key = w.key /\ v.seen = w.seen)
    BY <1>1, <2>1, <2>2 DEF StepUpInv, LoginAndStepUpDiffer, Won
  <2>6. OneWinnerPerReading <=>
            \A v, w \in logins \cup stepUps : v.key = w.key /\ v.seen = w.seen => v = w
    BY <2>1, <2>2 DEF OneWinnerPerReading
  <2> QED
    BY <2>3, <2>4, <2>5, <2>6
<1>2. OwnInv => OneWinnerPerReading
  BY <1>1 DEF OwnInv
<1> QED
  BY <1>2, OwnInvHolds, PTL

\* The deployment is approved by one proof, and nobody is told so with another.
THEOREM AnswersAlwaysAgree == Spec => []AnswersAgree
<1>1. OwnInv => AnswersAgree
  BY DEF OwnInv
<1> QED
  BY <1>1, OwnInvHolds, PTL

\* A sign count of a registered key does not go back, whoever records a use.
THEOREM CountsStand == Spec => CountNeverFalls
<1>1. OwnInv /\ [Next]_vars =>
          [\A k \in Keys : credential[k] # None /\ credential'[k] # None
               => credential'[k].count >= credential[k].count]_credential
  BY OwnInvStep, KeysMoveForwards DEF OwnInv, PasskeyInv, StepKept
<1> QED
  BY <1>1, OwnInvHolds, PTL DEF Spec, CountNeverFalls

\* Whatever removals meet, an owner who is to keep a key keeps one.
THEOREM LastKeyStays == Spec => OwnerKeepsAKey
<1>1. OwnInv /\ [Next]_vars =>
          [\A u \in Protected : HeldBy(u) # {} => (HeldBy(u))' # {}]_credential
  BY OwnInvStep, OwnersKeepKeys DEF OwnInv, PasskeyInv, StepKept
<1> QED
  BY <1>1, OwnInvHolds, PTL DEF Spec, OwnerKeepsAKey

\* A live login challenge disappears in the hands of an attempt, never swept.
THEOREM LiveChallengesStay == Spec => LiveChallengeStays
<1>1. OwnInv /\ [Next]_vars =>
          [\A c \in Challenges : Usable(c) /\ challenge'[c] # "stored"
               => \E a \in Attempts : /\ attempt[a].challenge = c
                                      /\ At(a, "consume")
                                      /\ attempt'[a].step = "lookup"]_challenge
  BY OwnInvStep DEF StepKept, ChallengesStay
<1> QED
  BY <1>1, OwnInvHolds, PTL DEF Spec, LiveChallengeStays

\* What approves rests on the evidence its owner was shown, still green.
THEOREM ApprovalsRestOnEvidence == Spec => ApprovedAsSeen
<1>1. OwnInv /\ [Next]_vars =>
          [marker' # marker => /\ access # None /\ access.passed /\ ~access.expired
                               /\ access.probe = nonce[marker'].probe]_marker
  BY OwnInvStep DEF StepKept, MarkedAsSeen
<1> QED
  BY <1>1, OwnInvHolds, PTL DEF Spec, ApprovedAsSeen

\* The composition is a client of the ledger: what AuthorityLedger promises
\* whatever its clients do, it promises here.
THEOREM LedgerIsUsedAsSpecified == Spec => Ledger!LedgerSpec
<1>1. Init => Ledger!LedgerInit
  BY DEF Init
<1> QED
  BY <1>1, LedgerSteps, PTL DEF Spec, Ledger!LedgerSpec
================================================================================
