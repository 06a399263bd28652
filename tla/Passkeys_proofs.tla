---------------------------- MODULE Passkeys_proofs ----------------------------
(******************************************************************************)
(* Lemmas about Passkeys, for any number of keys, users, challenges and       *)
(* attempts: what its steps keep, and what they never do.  OwnerApproval      *)
(* shares the keys with the step-up ceremony; the theorems are stated there.  *)
(*                                                                            *)
(* The heart of the invariant is that a use which was accepted is behind the  *)
(* key: the key has been removed, for good, or its document says a later use. *)
(* Nobody else who read the key as the winner did can then still match it.    *)
(******************************************************************************)
EXTENDS Passkeys, FiniteSetTheorems, TLAPS

\* The use of key k by somebody who read it as s is over.
Behind(k, s) == k \in retired \/ (credential[k] # None /\ credential[k].used > s.used)

\* A removed key has no document, and none is made for it again.
RetiredAreGone == \A k \in retired : credential[k] = None

\* The cleanup deletes only what has expired.
SweepsExpired == sweep.doomed \subseteq expired

\* An attempt answers a challenge that a device has signed.
AttemptsAnswer ==
    \A a \in Attempts : ~At(a, "idle") =>
        attempt[a].challenge \in Challenges /\ Presented(a) # None

\* Past its first step it has burnt the challenge, and it alone.
Burnt(a) == attempt[a].step \in {"lookup", "use", "session"}
BurntIsGone == \A a \in Attempts : Burnt(a) => challenge[attempt[a].challenge] = "gone"
BurntByOne ==
    \A a, b \in Attempts : Burnt(a) /\ Burnt(b) /\ a # b =>
        attempt[a].challenge # attempt[b].challenge

\* What it read of the key, its assertion verifies against.
AttemptsVerify ==
    \A a \in Attempts :
        /\ At(a, "use") \/ At(a, "session") => attempt[a].seen \in Credential
        /\ At(a, "use") => Verifies(Presented(a), attempt[a].seen)

LoginsBehind ==
    \A a \in Attempts : At(a, "session") => Behind(Presented(a).key, attempt[a].seen)

\* No two uses that were accepted go back to one reading of a key: logins.
LoginsDiffer ==
    \A a, b \in Attempts : At(a, "session") /\ At(b, "session") /\ a # b =>
        Presented(a).key # Presented(b).key \/ attempt[a].seen # attempt[b].seen

PasskeyInv ==
    /\ PasskeyTypeOK
    /\ RetiredAreGone /\ SweepsExpired /\ AttemptsAnswer /\ BurntIsGone /\ BurntByOne
    /\ AttemptsVerify /\ LoginsBehind /\ LoginsDiffer


\* All that happens to the keys: one is registered, removed or used.
Registered(k, doc) ==
    /\ credential[k] = None /\ k \notin retired
    /\ credential' = [credential EXCEPT ![k] = doc] /\ UNCHANGED retired
Removed(k) ==
    /\ OwnerOf[k] \in Protected => LeavesMinimum(k)
    /\ credential' = [credential EXCEPT ![k] = None] /\ retired' = retired \cup {k}
Used(k, n) ==
    /\ credential[k] \in Credential /\ n >= credential[k].count
    /\ credential' = [credential EXCEPT
                          ![k] = [count |-> n, used |-> credential[k].used + 1]]
    /\ UNCHANGED retired
KeysMove ==
    \/ UNCHANGED <<credential, retired>>
    \/ \E k \in Keys : \/ \E doc \in Credential : Registered(k, doc)
                       \/ Removed(k)
                       \/ \E n \in Nat : Used(k, n)

\* The document of a use is one, with the count and the number it was given.
LEMMA UseIsCredential ==
    ASSUME NEW n \in Nat, NEW doc \in Credential
    PROVE  /\ [count |-> n, used |-> doc.used + 1] \in Credential
           /\ [count |-> n, used |-> doc.used + 1] # None
           /\ [count |-> n, used |-> doc.used + 1].used > doc.used
<1>1. /\ [count |-> n, used |-> doc.used + 1] \in Credential
      /\ [count |-> n, used |-> doc.used + 1].used > doc.used
  BY DEF Credential
<1> QED
  BY <1>1, NoneIsNoCredential

\* Whoever is behind a key stays behind it; a key has its type, its removal is
\* for good and its counter does not fall.
LEMMA KeysMoveForwards ==
    ASSUME PasskeyTypeOK, RetiredAreGone, KeysMove
    PROVE  /\ credential' \in [Keys -> Credential \cup {None}]
           /\ retired' \subseteq Keys /\ RetiredAreGone'
           /\ \A k \in Keys, s \in Credential : Behind(k, s) => Behind(k, s)'
           /\ \A k \in Keys : credential[k] # None /\ credential'[k] # None
                  => credential'[k].count >= credential[k].count
<1>1. /\ credential \in [Keys -> Credential \cup {None}] /\ retired \subseteq Keys
      /\ \A k \in Keys : credential[k] # None => /\ credential[k].count \in Nat
                                                /\ credential[k].used \in Nat
  BY DEF PasskeyTypeOK, Credential
<1>2. CASE UNCHANGED <<credential, retired>>
  BY <1>1, <1>2 DEF Behind, RetiredAreGone
<1>3. ASSUME NEW k \in Keys, NEW doc \in Credential, Registered(k, doc)
      PROVE  /\ credential' \in [Keys -> Credential \cup {None}]
             /\ retired' \subseteq Keys /\ RetiredAreGone'
             /\ \A j \in Keys, s \in Credential : Behind(j, s) => Behind(j, s)'
             /\ \A j \in Keys : credential[j] # None /\ credential'[j] # None
                    => credential'[j].count >= credential[j].count
  BY <1>1, <1>3 DEF Registered, Behind, RetiredAreGone
<1>4. ASSUME NEW k \in Keys, Removed(k)
      PROVE  /\ credential' \in [Keys -> Credential \cup {None}]
             /\ retired' \subseteq Keys /\ RetiredAreGone'
             /\ \A j \in Keys, s \in Credential : Behind(j, s) => Behind(j, s)'
             /\ \A j \in Keys : credential[j] # None /\ credential'[j] # None
                    => credential'[j].count >= credential[j].count
  BY <1>1, <1>4 DEF Removed, Behind, RetiredAreGone
<1>5. ASSUME NEW k \in Keys, NEW n \in Nat, Used(k, n)
      PROVE  /\ credential' \in [Keys -> Credential \cup {None}]
             /\ retired' \subseteq Keys /\ RetiredAreGone'
             /\ \A j \in Keys, s \in Credential : Behind(j, s) => Behind(j, s)'
             /\ \A j \in Keys : credential[j] # None /\ credential'[j] # None
                    => credential'[j].count >= credential[j].count
  <2>1. PICK doc : doc = [count |-> n, used |-> credential[k].used + 1]
    OBVIOUS
  <2>2. /\ doc \in Credential /\ doc # None /\ doc.used > credential[k].used
        /\ doc.count = n /\ doc.used \in Nat
    BY <1>5, <2>1, UseIsCredential DEF Used, Credential
  <2>3. /\ credential' = [credential EXCEPT ![k] = doc] /\ retired' = retired
        /\ credential[k] # None /\ n >= credential[k].count
    BY <1>5, <2>1, NoneIsNoCredential DEF Used
  <2>4. \A j \in Keys : credential'[j] = IF j = k THEN doc ELSE credential[j]
    BY <1>1, <2>3
  <2>5. \A j \in Keys, s \in Credential : Behind(j, s) => Behind(j, s)'
    <3>1. \A s \in Credential : s.used \in Nat
      BY DEF Credential
    <3> QED
      BY <1>1, <2>2, <2>3, <2>4, <3>1 DEF Behind
  <2>6. RetiredAreGone'
    BY <1>1, <2>3, <2>4 DEF RetiredAreGone
  <2> QED
    BY <1>1, <2>2, <2>3, <2>4, <2>5, <2>6
<1> QED
  BY <1>2, <1>3, <1>4, <1>5 DEF KeysMove

\* Who is behind a key no longer matches it.
LEMMA BehindIsMissed ==
    ASSUME RetiredAreGone, NEW k \in Keys, NEW s \in Credential, Behind(k, s)
    PROVE  credential[k] # s
  BY NoneIsNoCredential DEF RetiredAreGone, Behind, Credential

\* After a use its winner is behind.
LEMMA WinnerIsBehind ==
    ASSUME PasskeyTypeOK, NEW k \in Keys, NEW n \in Nat, Used(k, n),
           NEW s, s = credential[k]
    PROVE  Behind(k, s)'
<1>1. PICK doc : doc = [count |-> n, used |-> s.used + 1]
  OBVIOUS
<1>2. doc # None /\ doc.used > s.used
  BY <1>1, UseIsCredential DEF Used
<1>3. credential'[k] = doc
  BY <1>1 DEF Used, PasskeyTypeOK
<1> QED
  BY <1>2, <1>3 DEF Behind

\* compare_and_set_usage on a match is a use.
LEMMA RecordingUses ==
    ASSUME NEW s \in Assertion, NEW seen \in Credential,
           Verifies(s, seen), UsageMatches(s, seen), RecordsUse(s, seen)
    PROVE  /\ s.key \in Keys /\ s.count \in Nat
           /\ credential[s.key] = seen /\ Used(s.key, s.count) /\ KeysMove
<1>1. s.key \in Keys /\ s.count \in Nat /\ seen.count \in Nat
  BY DEF Assertion, Credential
<1>2. s.count >= seen.count
  BY <1>1 DEF Verifies
<1>3. Used(s.key, s.count) /\ credential[s.key] = seen
  BY <1>1, <1>2 DEF Used, UsageMatches, RecordsUse
<1> QED
  BY <1>1, <1>3 DEF KeysMove

\* What the device signs for a challenge or a nonce.
LEMMA SignatureFits ==
    ASSUME PasskeyTypeOK, NEW k \in Keys, Signs(k)
    PROVE  /\ Signature(k) \in Assertion /\ Signature(k) # None
           /\ device' \in [Keys -> Nat]
<1>1. Count(k, device[k] + 1) \in Nat
  BY DEF Count, PasskeyTypeOK
<1>2. Signature(k) \in Assertion
  BY <1>1 DEF Signature, Assertion
<1>3. device' \in [Keys -> Nat]
  BY DEF Signs, PasskeyTypeOK
<1> QED
  BY <1>2, <1>3, NoneIsNoAssertion

\* What no step does to the login attempts: only an attempt that matched the key
\* becomes a session, and it keeps what it presented and what it had seen.
SessionsMove ==
    \A a \in Attempts : attempt'[a].step = "session" =>
        /\ Presented(a)' = Presented(a) /\ Presented(a) \in Assertion
        /\ attempt'[a].seen = attempt[a].seen /\ attempt[a].seen \in Credential
        /\ At(a, "session") \/ credential[Presented(a).key] = attempt[a].seen

\* What no step does to the challenges.
ChallengesStay ==
    \A c \in Challenges : Usable(c) /\ challenge'[c] # "stored"
        => \E a \in Attempts : /\ attempt[a].challenge = c
                               /\ At(a, "consume")
                               /\ attempt'[a].step = "lookup"

PasskeysKept == PasskeyInv' /\ KeysMove /\ SessionsMove /\ ChallengesStay

\* A step that moves a key and leaves the logins alone.
LEMMA LoginsUntouched ==
    ASSUME PasskeyInv, KeysMove, UNCHANGED loginVars, device' \in [Keys -> Nat]
    PROVE  PasskeysKept
<1> USE DEF PasskeyInv, loginVars
<1>1. /\ credential' \in [Keys -> Credential \cup {None}]
      /\ retired' \subseteq Keys /\ RetiredAreGone'
      /\ \A k \in Keys, s \in Credential : Behind(k, s) => Behind(k, s)'
  BY KeysMoveForwards
<1>2. PasskeyTypeOK'
  BY <1>1 DEF PasskeyTypeOK
<1>3. /\ SweepsExpired' /\ AttemptsAnswer' /\ BurntIsGone' /\ BurntByOne'
      /\ AttemptsVerify' /\ LoginsDiffer' /\ ChallengesStay
  BY DEF SweepsExpired, AttemptsAnswer, BurntIsGone, BurntByOne, Burnt, AttemptsVerify,
     LoginsDiffer, ChallengesStay, Usable, At, Presented
<1>4. \A a \in Attempts : At(a, "session") =>
          /\ Presented(a) \in Assertion /\ Presented(a).key \in Keys
          /\ attempt[a].seen \in Credential
  <2>1. TAKE a \in Attempts
  <2>2. HAVE At(a, "session")
  <2>3. attempt[a].challenge \in Challenges /\ Presented(a) # None
    BY <2>2 DEF AttemptsAnswer, At
  <2>4. Presented(a) \in Assertion
    BY <2>3 DEF PasskeyTypeOK, Presented
  <2>5. attempt[a].seen \in Credential
    BY <2>2 DEF AttemptsVerify
  <2> QED
    BY <2>4, <2>5 DEF Assertion
<1>5. LoginsBehind' /\ SessionsMove
  BY <1>1, <1>4 DEF LoginsBehind, SessionsMove, At, Presented, Behind
<1> QED
  BY <1>1, <1>2, <1>3, <1>5 DEF PasskeysKept

\* One attempt changes, and stays an attempt.
Turns(a, t) ==
    /\ attempt' \in [Attempts -> Attempt]
    /\ \A b \in Attempts : attempt'[b] = IF b = a THEN t ELSE attempt[b]

\* What an assignment to one attempt makes of all of them.
LEMMA TurnsInto ==
    ASSUME PasskeyTypeOK, NEW a \in Attempts, NEW t \in Attempt,
           attempt' = [attempt EXCEPT ![a] = t]
    PROVE  Turns(a, t)
  BY DEF Turns, PasskeyTypeOK

\* What a step makes of an attempt.
Submitted(t, c) == [t EXCEPT !.step = "consume", !.challenge = c]
Looked(t, doc) == [t EXCEPT !.step = "use", !.seen = doc]
GoneTo(t, step) == [t EXCEPT !.step = step]

\* An attempt at rest is an attempt.
LEMMA IdleIsAttempt == IdleAttempt \in Attempt /\ IdleAttempt.step = "idle"
  BY DEF IdleAttempt, Attempt, AttemptSteps

\* The fields of an attempt that was submitted.
LEMMA SubmittedFits ==
    ASSUME NEW t \in Attempt, NEW c \in Challenges
    PROVE  /\ Submitted(t, c) \in Attempt
           /\ Submitted(t, c).step = "consume" /\ Submitted(t, c).challenge = c
  BY DEF Submitted, Attempt, AttemptSteps

\* The fields of an attempt that has read its challenge.
LEMMA LookedFits ==
    ASSUME NEW t \in Attempt, NEW doc \in Credential
    PROVE  /\ Looked(t, doc) \in Attempt
           /\ Looked(t, doc).step = "use" /\ Looked(t, doc).seen = doc
           /\ Looked(t, doc).challenge = t.challenge
  BY DEF Looked, Attempt, AttemptSteps

\* The fields of an attempt that has gone on.
LEMMA GoneToFits ==
    ASSUME NEW t \in Attempt, NEW step \in {"lookup", "session"}
    PROVE  /\ GoneTo(t, step) \in Attempt /\ GoneTo(t, step).step = step
           /\ GoneTo(t, step).challenge = t.challenge /\ GoneTo(t, step).seen = t.seen
  BY DEF GoneTo, Attempt, AttemptSteps

\* An attempt at work presents what a device has signed.
LEMMA AttemptsPresent ==
    ASSUME PasskeyInv, NEW a \in Attempts, ~At(a, "idle")
    PROVE  /\ attempt[a].challenge \in Challenges
           /\ Presented(a) \in Assertion /\ Presented(a).key \in Keys
<1>1. attempt[a].challenge \in Challenges /\ Presented(a) # None
  BY DEF PasskeyInv, AttemptsAnswer
<1>2. Presented(a) \in Assertion
  BY <1>1 DEF PasskeyInv, PasskeyTypeOK, Presented
<1> QED
  BY <1>1, <1>2 DEF Assertion

\* A step that changes neither keys, nor attempts, nor what was signed.
LEMMA AttemptsUntouched ==
    ASSUME PasskeyInv, UNCHANGED <<credentialVars, assertion, attempt>>,
           challenge' \in [Challenges -> {"new", "stored", "gone"}],
           \A c \in Challenges : challenge[c] = "gone" => challenge'[c] = "gone",
           expired' \subseteq Challenges, sweep' \in Sweep, SweepsExpired'
    PROVE  PasskeyInv' /\ KeysMove /\ SessionsMove
<1> USE DEF PasskeyInv, credentialVars
<1>1. PasskeyTypeOK' /\ KeysMove
  BY DEF PasskeyTypeOK, KeysMove
<1>2. AttemptsAnswer' /\ BurntByOne' /\ AttemptsVerify' /\ LoginsDiffer'
  BY DEF AttemptsAnswer, BurntByOne, Burnt, AttemptsVerify, LoginsDiffer, At, Presented
<1>3. BurntIsGone'
  BY DEF BurntIsGone, AttemptsAnswer, Burnt, At
<1>4. RetiredAreGone' /\ LoginsBehind'
  BY DEF RetiredAreGone, LoginsBehind, Behind, At, Presented
<1>5. SessionsMove
  <2>1. \A a \in Attempts : At(a, "session") =>
            Presented(a) \in Assertion /\ attempt[a].seen \in Credential
    BY AttemptsPresent DEF AttemptsVerify, At
  <2> QED
    BY <2>1 DEF SessionsMove, At, Presented
<1> QED
  BY <1>1, <1>2, <1>3, <1>4, <1>5

\* A step of one attempt that wins nothing: it ends, submits, burns or looks up.
LEMMA AttemptGoesOn ==
    ASSUME PasskeyInv, NEW a \in Attempts, NEW t \in Attempt, Turns(a, t),
           UNCHANGED <<credentialVars, expired, assertion, sweep>>,
           challenge' \in [Challenges -> {"new", "stored", "gone"}],
           \A c \in Challenges : challenge[c] = "gone" => challenge'[c] = "gone",
           \/ t.step \in {"idle", "consume"}
           \/ /\ t.step = "lookup" /\ At(a, "consume")
              /\ t.challenge = attempt[a].challenge
              /\ challenge[t.challenge] = "stored" /\ challenge'[t.challenge] = "gone"
           \/ /\ t.step = "use" /\ At(a, "lookup") /\ t.seen \in Credential
              /\ t.challenge = attempt[a].challenge
              /\ Verifies(Presented(a), t.seen),
           t.step = "consume" =>
               t.challenge \in Challenges /\ assertion[t.challenge] # None
    PROVE  PasskeyInv' /\ KeysMove /\ SessionsMove
<1> USE DEF PasskeyInv, credentialVars
<1>0. t.step \in {"idle", "consume", "lookup", "use"}
  OBVIOUS
<1>1. PasskeyTypeOK' /\ KeysMove
  BY DEF PasskeyTypeOK, KeysMove, Turns
<1>2. RetiredAreGone' /\ SweepsExpired'
  BY DEF RetiredAreGone, SweepsExpired
<1>3. AttemptsAnswer'
  BY DEF AttemptsAnswer, Turns, At, Presented
<1>4. BurntIsGone'
  <2>1. \A b \in Attempts : Burnt(b) => attempt[b].challenge \in Challenges
    BY DEF AttemptsAnswer, Burnt, At
  <2> QED
    BY <2>1 DEF BurntIsGone, Turns, Burnt, At
<1>5. BurntByOne'
  <2>1. \A b \in Attempts : Burnt(b)' =>
            \/ b # a /\ Burnt(b) /\ attempt'[b].challenge = attempt[b].challenge
            \/ b = a /\ attempt'[a].challenge = attempt[a].challenge
                     /\ (Burnt(a) \/ challenge[attempt[a].challenge] = "stored")
    BY DEF Turns, Burnt, At
  <2> QED
    BY <2>1 DEF BurntByOne, BurntIsGone
<1>6. AttemptsVerify'
  BY DEF AttemptsVerify, Turns, At, Presented
<1>7. \A b \in Attempts : attempt'[b].step = "session" =>
          At(b, "session") /\ attempt'[b] = attempt[b]
  BY <1>0 DEF Turns, At
<1>8. LoginsBehind' /\ LoginsDiffer'
  BY <1>7 DEF LoginsBehind, LoginsDiffer, Behind, At, Presented
<1>9. SessionsMove
  <2>1. \A b \in Attempts : At(b, "session") =>
            Presented(b) \in Assertion /\ attempt[b].seen \in Credential
    BY AttemptsPresent DEF AttemptsVerify, At
  <2> QED
    BY <1>7, <2>1 DEF SessionsMove, At, Presented
<1> QED
  BY <1>1, <1>2, <1>3, <1>4, <1>5, <1>6, <1>8, <1>9

\* An attempt that matches the key opens a session, and is the only one that
\* does so from what it had seen.
LEMMA AttemptWins ==
    ASSUME PasskeyInv, NEW a \in Attempts, At(a, "use"),
           UsageMatches(Presented(a), attempt[a].seen),
           RecordsUse(Presented(a), attempt[a].seen), GoTo(a, "session"),
           UNCHANGED <<challenge, expired, assertion, sweep>>
    PROVE  PasskeysKept
<1> USE DEF PasskeyInv
<1>1. PICK s \in Assertion, seen \in Credential :
          s = Presented(a) /\ seen = attempt[a].seen
  BY AttemptsPresent DEF AttemptsVerify, At
<1>2. /\ s.key \in Keys /\ s.count \in Nat
      /\ credential[s.key] = seen /\ Used(s.key, s.count) /\ KeysMove
  <2>1. Verifies(s, seen)
    BY <1>1 DEF AttemptsVerify
  <2> QED
    BY <1>1, <2>1, RecordingUses
<1>3. /\ credential' \in [Keys -> Credential \cup {None}]
      /\ retired' \subseteq Keys /\ RetiredAreGone'
      /\ \A k \in Keys, d \in Credential : Behind(k, d) => Behind(k, d)'
  BY <1>2, KeysMoveForwards
<1>4. Behind(s.key, seen)'
  BY <1>2, WinnerIsBehind
<1>5. PICK t : t = GoneTo(attempt[a], "session")
  OBVIOUS
<1>6. attempt[a] \in Attempt
  BY DEF PasskeyTypeOK
<1>7. /\ t \in Attempt /\ t.step = "session"
      /\ t.challenge = attempt[a].challenge /\ t.seen = seen
  BY <1>1, <1>5, <1>6, GoneToFits
<1>8. Turns(a, t)
  BY <1>5, <1>7, TurnsInto DEF GoTo, GoneTo
<1>9. PasskeyTypeOK'
  BY <1>3, <1>8 DEF PasskeyTypeOK, Turns, RecordsUse
<1>10. \A b \in Attempts : attempt'[b].step = "session" =>
           \/ b # a /\ At(b, "session") /\ attempt'[b] = attempt[b]
           \/ b = a
  BY <1>8 DEF Turns, At
<1>11. \A b \in Attempts : At(b, "session") =>
           /\ Presented(b) \in Assertion /\ Presented(b).key \in Keys
           /\ attempt[b].seen \in Credential /\ Behind(Presented(b).key, attempt[b].seen)
  BY AttemptsPresent DEF AttemptsVerify, LoginsBehind, At
<1>12. \A b \in Attempts : attempt'[b].challenge = attempt[b].challenge
                           /\ Presented(b)' = Presented(b)
  BY <1>7, <1>8 DEF Turns, Presented
<1>13. attempt'[a].seen = seen
  BY <1>7, <1>8 DEF Turns
<1>14. LoginsBehind'
  <2>1. ASSUME NEW b \in Attempts, At(b, "session")'
        PROVE  Behind(Presented(b).key, attempt[b].seen)'
    <3>1. CASE b = a
      BY <1>1, <1>4, <1>12, <1>13, <3>1 DEF Behind
    <3>2. CASE b # a
      <4>1. At(b, "session") /\ attempt'[b] = attempt[b]
        BY <1>10, <2>1, <3>2 DEF At
      <4>2. PICK k \in Keys, d \in Credential : k = Presented(b).key /\ d = attempt[b].seen
        BY <1>11, <4>1
      <4>3. Behind(k, d)'
        BY <1>3, <1>11, <4>1, <4>2
      <4> QED
        BY <1>12, <4>1, <4>2, <4>3 DEF Behind
    <3> QED
      BY <3>1, <3>2
  <2> QED
    BY <2>1 DEF LoginsBehind
<1>15. LoginsDiffer'
  <2>1. \A b \in Attempts : At(b, "session") =>
            Presented(b).key # s.key \/ attempt[b].seen # seen
    BY <1>2, <1>11, BehindIsMissed
  <2> QED
    BY <1>1, <1>10, <1>12, <1>13, <2>1 DEF LoginsDiffer, At
<1>16. SessionsMove
  BY <1>1, <1>2, <1>10, <1>11, <1>12, <1>13 DEF SessionsMove, At
<1>17. AttemptsAnswer' /\ BurntIsGone' /\ BurntByOne' /\ AttemptsVerify'
  <2>1. \A b \in Attempts : Burnt(b)' => Burnt(b)
    BY <1>8 DEF Turns, Burnt, At
  <2>2. \A b \in Attempts : ~At(b, "idle")' => ~At(b, "idle")
    BY <1>8 DEF Turns, At
  <2>3. AttemptsVerify'
    BY <1>7, <1>8, <1>12 DEF AttemptsVerify, Turns, At
  <2> QED
    BY <1>12, <2>1, <2>2, <2>3 DEF AttemptsAnswer, BurntIsGone, BurntByOne
<1>18. SweepsExpired' /\ ChallengesStay
  BY DEF SweepsExpired, ChallengesStay, Usable
<1> QED
  BY <1>2, <1>3, <1>9, <1>14, <1>15, <1>16, <1>17, <1>18 DEF PasskeysKept

\* The route handlers and the cleanup keep the invariant of the passkeys.
LEMMA PasskeysStep ==
    ASSUME PasskeyInv, PasskeyNext
    PROVE  PasskeysKept
<1> USE DEF PasskeyInv
<1>1. ASSUME NEW k \in Keys, Register(k)
      PROVE  PasskeysKept
  <2>1. Count(k, device[k]) \in Nat
    BY DEF Count, PasskeyTypeOK
  <2>2. [count |-> Count(k, device[k]), used |-> 0] \in Credential
    BY <2>1 DEF Credential
  <2>3. KeysMove
    BY <1>1, <2>2 DEF Register, Registered, KeysMove
  <2>4. UNCHANGED loginVars /\ device' \in [Keys -> Nat]
    BY <1>1 DEF Register, PasskeyTypeOK
  <2> QED
    BY <2>3, <2>4, LoginsUntouched
<1>2. ASSUME NEW k \in Keys, Remove(k)
      PROVE  PasskeysKept
  <2>1. KeysMove
    BY <1>2 DEF Remove, Removed, KeysMove
  <2>2. UNCHANGED loginVars /\ device' \in [Keys -> Nat]
    BY <1>2 DEF Remove, PasskeyTypeOK
  <2> QED
    BY <2>1, <2>2, LoginsUntouched
<1>3. ASSUME NEW c \in Challenges, BeginLogin(c)
      PROVE  PasskeysKept
  <2>1. challenge' \in [Challenges -> {"new", "stored", "gone"}]
    BY <1>3 DEF BeginLogin, PasskeyTypeOK
  <2>2. sweep' \in Sweep /\ sweep'.doomed = sweep.doomed
    BY <1>3 DEF BeginLogin, PasskeyTypeOK, Sweep
  <2>3. \A e \in Challenges : challenge'[e] = IF e = c THEN "stored" ELSE challenge[e]
    BY <1>3 DEF BeginLogin, PasskeyTypeOK
  <2>4. PasskeyInv' /\ KeysMove /\ SessionsMove
    BY <1>3, <2>1, <2>2, <2>3, AttemptsUntouched DEF BeginLogin, PasskeyTypeOK,
       SweepsExpired
  <2>5. ChallengesStay
    BY <2>3 DEF ChallengesStay, Usable
  <2> QED
    BY <2>4, <2>5 DEF PasskeysKept
<1>4. ASSUME NEW c \in Challenges, ChallengeExpires(c)
      PROVE  PasskeysKept
  <2>1. PasskeyInv' /\ KeysMove /\ SessionsMove
    BY <1>4, AttemptsUntouched DEF ChallengeExpires, PasskeyTypeOK, SweepsExpired
  <2>2. ChallengesStay
    BY <1>4 DEF ChallengeExpires, ChallengesStay, Usable
  <2> QED
    BY <2>1, <2>2 DEF PasskeysKept
<1>5. CASE SweepQueries
  <2>1. PICK doomed \in SUBSET Doomed : sweep' = [phase |-> "delete", doomed |-> doomed]
    BY <1>5 DEF SweepQueries
  <2>2. doomed \subseteq expired /\ expired \subseteq Challenges
    BY <2>1 DEF Doomed, PasskeyTypeOK
  <2>3. sweep' \in Sweep /\ sweep'.doomed = doomed
    BY <2>1, <2>2 DEF Sweep
  <2>4. PasskeyInv' /\ KeysMove /\ SessionsMove
    BY <1>5, <2>2, <2>3, AttemptsUntouched DEF SweepQueries, PasskeyTypeOK, SweepsExpired
  <2>5. ChallengesStay
    BY <1>5 DEF SweepQueries, ChallengesStay, Usable
  <2> QED
    BY <2>4, <2>5 DEF PasskeysKept
<1>6. CASE SweepDeletes
  <2>1. /\ challenge' \in [Challenges -> {"new", "stored", "gone"}]
        /\ \A c \in Challenges :
               challenge'[c] = IF c \in sweep.doomed THEN "gone" ELSE challenge[c]
    BY <1>6 DEF SweepDeletes, PasskeyTypeOK
  <2>2. sweep' \in Sweep /\ sweep'.doomed = {}
    BY <1>6 DEF SweepDeletes, Sweep
  <2>3. PasskeyInv' /\ KeysMove /\ SessionsMove
    BY <1>6, <2>1, <2>2, AttemptsUntouched DEF SweepDeletes, PasskeyTypeOK, SweepsExpired
  <2>4. ChallengesStay
    BY <2>1 DEF ChallengesStay, Usable, SweepsExpired
  <2> QED
    BY <2>3, <2>4 DEF PasskeysKept
<1>7. ASSUME NEW c \in Challenges, NEW k \in Keys, SignLogin(c, k)
      PROVE  PasskeysKept
  <2>1. /\ Signature(k) \in Assertion /\ Signature(k) # None
        /\ device' \in [Keys -> Nat]
    BY <1>7, SignatureFits DEF SignLogin
  <2>2. /\ assertion[c] = None
        /\ assertion' \in [Challenges -> Assertion \cup {None}]
        /\ \A e \in Challenges : assertion'[e] = IF e = c THEN Signature(k) ELSE assertion[e]
    BY <1>7, <2>1 DEF SignLogin, PasskeyTypeOK
  <2>3. UNCHANGED <<credential, retired, challenge, expired, sweep, attempt>>
    BY <1>7 DEF SignLogin, Signs
  <2>4. \A a \in Attempts : ~At(a, "idle") => Presented(a)' = Presented(a)
    BY <2>2, <2>3 DEF AttemptsAnswer, Presented
  <2>5. PasskeyTypeOK' /\ KeysMove /\ ChallengesStay
    BY <2>1, <2>2, <2>3 DEF PasskeyTypeOK, KeysMove, ChallengesStay, Usable
  <2>6. /\ RetiredAreGone' /\ SweepsExpired' /\ BurntIsGone' /\ BurntByOne'
        /\ AttemptsAnswer'
    BY <2>3, <2>4 DEF RetiredAreGone, SweepsExpired, BurntIsGone, BurntByOne, Burnt,
       AttemptsAnswer, At
  <2>7. AttemptsVerify' /\ LoginsBehind' /\ LoginsDiffer'
    BY <2>3, <2>4 DEF AttemptsVerify, LoginsBehind, LoginsDiffer, Behind, At
  <2>8. SessionsMove
    <3>1. \A a \in Attempts : At(a, "session") =>
              /\ Presented(a) \in Assertion /\ attempt[a].seen \in Credential
              /\ ~At(a, "idle")
      BY AttemptsPresent DEF AttemptsVerify, At
    <3> QED
      BY <2>3, <2>4, <3>1 DEF SessionsMove, At
  <2> QED
    BY <2>5, <2>6, <2>7, <2>8 DEF PasskeysKept
<1>8. ASSUME NEW a \in Attempts, NEW c \in Challenges, SubmitLogin(a, c)
      PROVE  PasskeysKept
  <2>1. PICK t : t = Submitted(attempt[a], c)
    OBVIOUS
  <2>2. t \in Attempt /\ t.step = "consume" /\ t.challenge = c
    BY <2>1, SubmittedFits DEF PasskeyTypeOK
  <2>3. Turns(a, t)
    BY <1>8, <2>1, <2>2, TurnsInto DEF SubmitLogin, Submitted
  <2>4. PasskeyInv' /\ KeysMove /\ SessionsMove
    BY <1>8, <2>2, <2>3, AttemptGoesOn DEF SubmitLogin, PasskeyTypeOK
  <2>5. ChallengesStay
    BY <1>8 DEF SubmitLogin, ChallengesStay, Usable
  <2> QED
    BY <2>4, <2>5 DEF PasskeysKept
<1>9. ASSUME NEW a \in Attempts, ConsumeChallenge(a)
      PROVE  PasskeysKept
  <2>1. PICK c \in Challenges : c = attempt[a].challenge
    BY <1>9, AttemptsPresent DEF ConsumeChallenge, At
  <2>2. /\ challenge' \in [Challenges -> {"new", "stored", "gone"}]
        /\ \A e \in Challenges : challenge'[e] = IF e = c THEN "gone" ELSE challenge[e]
    BY <1>9, <2>1 DEF ConsumeChallenge, PasskeyTypeOK
  <2>3. CASE Usable(c)
    <3>1. PICK t : t = GoneTo(attempt[a], "lookup")
      OBVIOUS
    <3>2. t \in Attempt /\ t.step = "lookup" /\ t.challenge = c
      BY <2>1, <3>1, GoneToFits DEF PasskeyTypeOK
    <3>3. Turns(a, t)
      BY <1>9, <2>1, <2>3, <3>1, <3>2, TurnsInto DEF ConsumeChallenge, GoTo, GoneTo
    <3>4. PasskeyInv' /\ KeysMove /\ SessionsMove
      BY <1>9, <2>1, <2>2, <2>3, <3>2, <3>3, AttemptGoesOn DEF ConsumeChallenge, Usable
    <3>5. ChallengesStay
      BY <1>9, <2>1, <2>2, <3>2, <3>3 DEF ConsumeChallenge, ChallengesStay, Usable, Turns
    <3> QED
      BY <3>4, <3>5 DEF PasskeysKept
  <2>4. CASE ~Usable(c)
    <3>1. Turns(a, IdleAttempt)
      BY <1>9, <2>1, <2>4, IdleIsAttempt, TurnsInto DEF ConsumeChallenge, Fails
    <3>2. PasskeyInv' /\ KeysMove /\ SessionsMove
      BY <1>9, <2>2, <3>1, IdleIsAttempt, AttemptGoesOn DEF ConsumeChallenge
    <3>3. ChallengesStay
      BY <2>2, <2>4 DEF ChallengesStay, Usable
    <3> QED
      BY <3>2, <3>3 DEF PasskeysKept
  <2> QED
    BY <2>3, <2>4
<1>10. ASSUME NEW a \in Attempts, LookUpKey(a)
       PROVE  PasskeysKept
  <2>1. At(a, "lookup") /\ Presented(a).key \in Keys
    BY <1>10, AttemptsPresent DEF LookUpKey, At
  <2>2. PICK doc : doc = credential[Presented(a).key]
    OBVIOUS
  <2>3. CASE doc # None /\ Verifies(Presented(a), doc)
    <3>1. doc \in Credential
      BY <2>1, <2>2, <2>3 DEF PasskeyTypeOK
    <3>2. PICK t : t = Looked(attempt[a], doc)
      OBVIOUS
    <3>3. /\ t \in Attempt /\ t.step = "use" /\ t.seen = doc
          /\ t.challenge = attempt[a].challenge
      BY <3>1, <3>2, LookedFits DEF PasskeyTypeOK
    <3>4. Turns(a, t)
      <4>1. attempt' = [attempt EXCEPT ![a].step = "use", ![a].seen = doc]
        BY <1>10, <2>2, <2>3 DEF LookUpKey
      <4>2. attempt' = [attempt EXCEPT ![a] = t]
        BY <3>2, <4>1 DEF Looked
      <4> QED
        BY <3>3, <4>2, TurnsInto
    <3>5. PasskeyInv' /\ KeysMove /\ SessionsMove
      BY <1>10, <2>1, <2>3, <3>1, <3>3, <3>4, AttemptGoesOn DEF LookUpKey, PasskeyTypeOK
    <3> QED
      BY <1>10, <3>5 DEF LookUpKey, PasskeysKept, ChallengesStay, Usable
  <2>4. CASE ~(doc # None /\ Verifies(Presented(a), doc))
    <3>1. Turns(a, IdleAttempt)
      BY <1>10, <2>2, <2>4, IdleIsAttempt, TurnsInto DEF LookUpKey, Fails
    <3>2. PasskeyInv' /\ KeysMove /\ SessionsMove
      BY <1>10, <3>1, IdleIsAttempt, AttemptGoesOn DEF LookUpKey, PasskeyTypeOK
    <3> QED
      BY <1>10, <3>2 DEF LookUpKey, PasskeysKept, ChallengesStay, Usable
  <2> QED
    BY <2>3, <2>4
<1>11. ASSUME NEW a \in Attempts, UseKey(a)
       PROVE  PasskeysKept
  <2>1. CASE UsageMatches(Presented(a), attempt[a].seen)
    BY <1>11, <2>1, AttemptWins DEF UseKey
  <2>2. CASE ~UsageMatches(Presented(a), attempt[a].seen)
    <3>1. Turns(a, IdleAttempt)
      BY <1>11, <2>2, IdleIsAttempt, TurnsInto DEF UseKey, Fails
    <3>2. PasskeyInv' /\ KeysMove /\ SessionsMove
      BY <1>11, <2>2, <3>1, IdleIsAttempt, AttemptGoesOn DEF UseKey, PasskeyTypeOK
    <3> QED
      BY <1>11, <3>2 DEF UseKey, PasskeysKept, ChallengesStay, Usable
  <2> QED
    BY <2>1, <2>2
<1> QED
  BY <1>1, <1>2, <1>3, <1>4, <1>5, <1>6, <1>7, <1>8, <1>9, <1>10, <1>11 DEF PasskeyNext

--------------------------------------------------------------------------------
(* What no step does to the keys and the logins.                              *)

\* The removal of a key leaves its owner another, if the owner keeps a last one.
LEMMA OwnersKeepKeys ==
    ASSUME PasskeyTypeOK, KeysMove, NEW u \in Protected, HeldBy(u) # {}
    PROVE  (HeldBy(u))' # {}
<1>1. PICK j \in Keys : credential[j] # None /\ OwnerOf[j] = u
  BY DEF HeldBy
<1>2. CASE UNCHANGED <<credential, retired>>
  BY <1>1, <1>2 DEF HeldBy
<1>3. ASSUME NEW k \in Keys, NEW doc \in Credential, Registered(k, doc)
      PROVE  (HeldBy(u))' # {}
  <2>1. credential'[j] # None
    BY <1>1, <1>3, NoneIsNoCredential DEF Registered, PasskeyTypeOK
  <2> QED
    BY <1>1, <2>1 DEF HeldBy
<1>4. ASSUME NEW k \in Keys, NEW n \in Nat, Used(k, n)
      PROVE  (HeldBy(u))' # {}
  <2>1. PICK doc : doc = [count |-> n, used |-> credential[k].used + 1]
    OBVIOUS
  <2>2. doc # None
    BY <1>4, <2>1, UseIsCredential DEF Used
  <2>3. credential'[j] # None
    BY <1>1, <1>4, <2>1, <2>2 DEF Used, PasskeyTypeOK
  <2> QED
    BY <1>1, <2>3 DEF HeldBy
<1>5. ASSUME NEW k \in Keys, Removed(k)
      PROVE  (HeldBy(u))' # {}
  <2>1. \A i \in Keys : credential'[i] = IF i = k THEN None ELSE credential[i]
    BY <1>5 DEF Removed, PasskeyTypeOK
  <2>2. CASE OwnerOf[k] # u
    <3>1. j # k
      BY <1>1, <2>2
    <3> QED
      BY <1>1, <2>1, <3>1 DEF HeldBy
  <2>3. CASE OwnerOf[k] = u
    <3>1. Cardinality(HeldBy(u)) > 1
      BY <1>5, <2>3 DEF Removed, LeavesMinimum
    <3>2. PICK i \in HeldBy(u) : i # k
      <4>1. SUFFICES ASSUME HeldBy(u) \subseteq {k} PROVE FALSE
        OBVIOUS
      <4>2. IsFiniteSet({k}) /\ Cardinality({k}) = 1
        BY FS_Singleton
      <4>3. Cardinality(HeldBy(u)) <= Cardinality({k}) /\ IsFiniteSet(HeldBy(u))
        BY <4>1, <4>2, FS_Subset
      <4>4. Cardinality(HeldBy(u)) \in Nat
        BY <4>3, FS_CardinalityType
      <4> QED
        BY <3>1, <4>2, <4>3, <4>4
    <3>3. i \in Keys /\ credential'[i] # None /\ OwnerOf[i] = u
      BY <2>1, <3>2 DEF HeldBy
    <3> QED
      BY <3>3 DEF HeldBy
  <2> QED
    BY <2>2, <2>3
<1> QED
  BY <1>2, <1>3, <1>4, <1>5 DEF KeysMove

\* Two sessions never answer one challenge.
LEMMA SessionsBurnApart == PasskeyInv => LoginOnce
  BY DEF PasskeyInv, BurntByOne, Burnt, LoginOnce, At
================================================================================
