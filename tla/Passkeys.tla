------------------------------- MODULE Passkeys --------------------------------
(******************************************************************************)
(* Passkey credentials and login: FirestoreCredentialStore (auth/store.py),   *)
(* FirestoreAuthenticationChallengeLedger with its background sweep           *)
(* (auth/authentication_challenges.py), and the routes of auth/routes.py      *)
(* that register, use and remove a passkey.                                   *)
(*                                                                            *)
(* A login attempt is a handler that burns its challenge, reads the           *)
(* credential, and records the use, in three separate calls to Firestore, so  *)
(* other requests run between them; a crash is an attempt that takes no more  *)
(* steps.  An attempt may be a second submission of the same assertion.       *)
(*                                                                            *)
(* Abstractions.  A sign count and a last_used_at are numbers: the device's   *)
(* signature number (0 for a counterless authenticator) and the number of     *)
(* the use (0 for none), as unique as the time of day the code stores.        *)
(* Origins, signatures, allow lists and session cookies are left out: an      *)
(* assertion is one the device made for that challenge.                       *)
(*                                                                            *)
(* A definition named ...Slip is a plausible mistake in the one below it.     *)
(******************************************************************************)
EXTENDS Naturals, FiniteSets

CONSTANTS
    Keys,           \* credential ids
    Users,          \* normalised e-mail addresses
    Protected,      \* _protected_owner_emails: users that keep a last key
    OwnerOf,        \* the user of each key
    Counting,       \* keys whose authenticator counts its signatures
    Challenges,     \* login challenges
    Attempts,       \* login/complete requests
    MaxSignatures,  \* bound: signatures one device makes
    None

ASSUME OwnersAreUsers == OwnerOf \in [Keys -> Users] /\ Protected \subseteq Users
ASSUME NoneIsNoChallenge == None \notin Challenges
ASSUME NoneIsNoKey == None \notin Keys
ASSUME MaxSignaturesNat == MaxSignatures \in Nat

VARIABLES
    credential,  \* tho_admin_credentials, by key
    retired,     \* keys registered earlier: an authenticator makes a new id
    device,      \* signatures each authenticator has made (external)
    challenge,   \* tho_admin_passkey_auth_challenges
    expired,     \* challenges past their expires_at
    assertion,   \* what a device signed for a challenge
    sweep,       \* the running cleanup of expired challenges
    attempt      \* the login requests

credentialVars == <<credential, retired, device>>
loginVars == <<challenge, expired, assertion, sweep, attempt>>
passkeyVars == <<credentialVars, loginVars>>

Credential == [count : Nat, used : Nat]
Assertion == [key : Keys, count : Nat]
Sweep == [phase : {"idle", "query", "delete"}, doomed : SUBSET Challenges]
AttemptSteps == {"idle", "consume", "lookup", "use", "session"}
Attempt == [step : AttemptSteps, challenge : Challenges \cup {None},
            seen : Credential \cup {None}]
IdleAttempt == [step |-> "idle", challenge |-> None, seen |-> None]

ASSUME NoneIsNoCredential == None \notin Credential
ASSUME NoneIsNoAssertion == None \notin Assertion

PasskeyTypeOK ==
    /\ credential \in [Keys -> Credential \cup {None}]
    /\ retired \subseteq Keys
    /\ device \in [Keys -> Nat]
    /\ challenge \in [Challenges -> {"new", "stored", "gone"}]
    /\ expired \subseteq Challenges
    /\ assertion \in [Challenges -> Assertion \cup {None}]
    /\ sweep \in Sweep
    /\ attempt \in [Attempts -> Attempt]

PasskeyInit ==
    /\ credential \in [Keys -> {None, [count |-> 0, used |-> 0]}]
    /\ retired = {}
    /\ device = [k \in Keys |-> 0]
    /\ challenge = [c \in Challenges |-> "new"]
    /\ expired = {}
    /\ assertion = [c \in Challenges |-> None]
    /\ sweep = [phase |-> "idle", doomed |-> {}]
    /\ attempt = [a \in Attempts |-> IdleAttempt]

--------------------------------------------------------------------------------
(* Credentials.                                                               *)

HeldBy(u) == {k \in Keys : credential[k] # None /\ OwnerOf[k] = u}

\* The counter before the signature is kept.
CountSlip(k, n) == IF k \in Counting THEN n - 1 ELSE 0

Count(k, n) == IF k \in Counting THEN n ELSE 0

\* register/complete: an owner's key is added only from a passkey session of
\* the same owner, which a key of that owner has opened.
Register(k) ==
    /\ credential[k] = None /\ k \notin retired
    /\ OwnerOf[k] \in Protected => HeldBy(OwnerOf[k]) # {}
    /\ credential' = [credential EXCEPT ![k] = [count |-> Count(k, device[k]),
                                                used |-> 0]]
    /\ UNCHANGED <<retired, device, loginVars>>

\* The limit counts the keys of every user.
LeavesMinimumSlip(k) == Cardinality({j \in Keys : credential[j] # None}) > 1

\* minimum_remaining = 1
LeavesMinimum(k) == Cardinality(HeldBy(OwnerOf[k])) > 1

\* The two DELETE routes: an owner's key goes only in the transaction that
\* counts what is left, anyone else's at once.
Remove(k) ==
    /\ credential[k] # None
    /\ OwnerOf[k] \in Protected => LeavesMinimum(k)
    /\ credential' = [credential EXCEPT ![k] = None]
    /\ retired' = retired \cup {k}
    /\ UNCHANGED <<device, loginVars>>

\* The authenticator of k signs once more; its assertion carries the counter.
Signs(k) ==
    /\ device[k] < MaxSignatures
    /\ device' = [device EXCEPT ![k] = @ + 1]
    /\ UNCHANGED <<credential, retired>>
Signature(k) == [key |-> k, count |-> Count(k, device[k] + 1)]

\* verify_authentication_response and CredentialUsageCAS.__post_init__: a
\* counter that is in use must advance.
Verifies(s, doc) == s.count > doc.count \/ (s.count = 0 /\ doc.count = 0)

\* The last use is not compared.
UsageMatchesSlip(s, seen) ==
    credential[s.key] # None /\ credential[s.key].count = seen.count

\* The counter is not compared.
UsageMatchesCountSlip(s, seen) == credential[s.key] # None

\* _usage_matches_record
UsageMatches(s, seen) == credential[s.key] = seen

\* usage_update
RecordsUse(s, seen) ==
    /\ credential' = [credential EXCEPT
                          ![s.key] = [count |-> s.count, used |-> seen.used + 1]]
    /\ UNCHANGED <<retired, device>>

--------------------------------------------------------------------------------
(* Login challenges.                                                          *)

\* login/begin writes the challenge and then starts a cleanup unless one runs.
BeginLogin(c) ==
    /\ challenge[c] = "new"
    /\ challenge' = [challenge EXCEPT ![c] = "stored"]
    /\ sweep' = IF sweep.phase = "idle" THEN [sweep EXCEPT !.phase = "query"]
                                        ELSE sweep
    /\ UNCHANGED <<credentialVars, expired, assertion, attempt>>

ChallengeExpires(c) ==
    /\ challenge[c] = "stored" /\ c \notin expired
    /\ expired' = expired \cup {c}
    /\ UNCHANGED <<credentialVars, challenge, assertion, sweep, attempt>>

\* The cleanup takes whatever is stored.
DoomedSlip == {c \in Challenges : challenge[c] = "stored"}

\* Only strictly earlier deadlines are abandoned.
Doomed == {c \in expired : challenge[c] = "stored"}

\* The query is bounded and ran at the time of the challenge that started it,
\* so it may miss any of them.
SweepQueries ==
    /\ sweep.phase = "query"
    /\ \E doomed \in SUBSET Doomed :
           sweep' = [phase |-> "delete", doomed |-> doomed]
    /\ UNCHANGED <<credentialVars, challenge, expired, assertion, attempt>>

SweepDeletes ==
    /\ sweep.phase = "delete"
    /\ challenge' = [c \in Challenges |->
                         IF c \in sweep.doomed THEN "gone" ELSE challenge[c]]
    /\ sweep' = [phase |-> "idle", doomed |-> {}]
    /\ UNCHANGED <<credentialVars, expired, assertion, attempt>>

--------------------------------------------------------------------------------
(* Login attempts.                                                            *)

\* The browser has the device sign the challenge.
SignLogin(c, k) ==
    /\ challenge[c] # "new" /\ assertion[c] = None
    /\ Signs(k)
    /\ assertion' = [assertion EXCEPT ![c] = Signature(k)]
    /\ UNCHANGED <<challenge, expired, sweep, attempt>>

At(a, step) == attempt[a].step = step
GoTo(a, step) == attempt' = [attempt EXCEPT ![a].step = step]

\* The request is answered with an error; its place is free for another.
Fails(a) == attempt' = [attempt EXCEPT ![a] = IdleAttempt]

\* login/complete arrives, perhaps not for the first time.
SubmitLogin(a, c) ==
    /\ At(a, "idle") /\ assertion[c] # None
    /\ attempt' = [attempt EXCEPT ![a].step = "consume", ![a].challenge = c]
    /\ UNCHANGED <<credentialVars, challenge, expired, assertion, sweep>>

\* The record is read and deleted in two calls, so both submissions see it.
UsableSlip(c) == c \notin expired

Usable(c) == challenge[c] = "stored" /\ c \notin expired

\* The challenge is burnt before anything else is looked at, and also when it
\* has expired.
ConsumeChallenge(a) ==
    /\ At(a, "consume")
    /\ challenge' = [challenge EXCEPT ![attempt[a].challenge] = "gone"]
    /\ IF Usable(attempt[a].challenge) THEN GoTo(a, "lookup") ELSE Fails(a)
    /\ UNCHANGED <<credentialVars, expired, assertion, sweep>>

Presented(a) == assertion[attempt[a].challenge]

LookUpKey(a) ==
    /\ At(a, "lookup")
    /\ LET doc == credential[Presented(a).key] IN
           IF doc # None /\ Verifies(Presented(a), doc)
           THEN attempt' = [attempt EXCEPT ![a].step = "use", ![a].seen = doc]
           ELSE Fails(a)
    /\ UNCHANGED <<credentialVars, challenge, expired, assertion, sweep>>

\* compare_and_set_usage, and the session on success.
UseKey(a) ==
    /\ At(a, "use")
    /\ IF UsageMatches(Presented(a), attempt[a].seen)
       THEN RecordsUse(Presented(a), attempt[a].seen) /\ GoTo(a, "session")
       ELSE Fails(a) /\ UNCHANGED credentialVars
    /\ UNCHANGED <<challenge, expired, assertion, sweep>>

PasskeyNext ==
    \/ \E k \in Keys : Register(k) \/ Remove(k)
    \/ \E c \in Challenges :
           \/ BeginLogin(c) \/ ChallengeExpires(c)
           \/ \E k \in Keys : SignLogin(c, k)
    \/ SweepQueries \/ SweepDeletes
    \/ \E a \in Attempts :
           \/ \E c \in Challenges : SubmitLogin(a, c)
           \/ ConsumeChallenge(a) \/ LookUpKey(a) \/ UseKey(a)

PasskeySpec == PasskeyInit /\ [][PasskeyNext]_passkeyVars

--------------------------------------------------------------------------------
(* Properties.                                                                *)

\* "Burn the challenge before credential lookup": however often an assertion
\* is submitted and whatever the cleanup deletes, a challenge opens at most
\* one session.
LoginOnce ==
    \A a, b \in Attempts :
        At(a, "session") /\ At(b, "session") /\ a # b
            => attempt[a].challenge # attempt[b].challenge

\* While a key stays registered its counter never goes back, in whatever order
\* requests that read it earlier record their use.
CountNeverFalls ==
    [][\A k \in Keys : credential[k] # None /\ credential'[k] # None
           => credential'[k].count >= credential[k].count]_credential

\* No removals at the same time leave a protected owner without a key.
OwnerKeepsAKey ==
    [][\A u \in Protected : HeldBy(u) # {} => (HeldBy(u))' # {}]_credential

\* The cleanup takes away no challenge somebody may still answer: one that is
\* not expired disappears only in the hands of an attempt.
LiveChallengeStays ==
    [][\A c \in Challenges : Usable(c) /\ challenge'[c] # "stored"
           => \E a \in Attempts : /\ attempt[a].challenge = c
                                  /\ At(a, "consume")
                                  /\ attempt'[a].step = "lookup"]_challenge
================================================================================
