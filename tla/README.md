# A TLA+ development of Project Go Forward

Project Go Forward is the storefront and back office of Texas Home Outlet: a
FastAPI application on Cloud Run over Firestore, a React frontend, and a few
Cloud Run jobs. This directory holds TLA+ modules of the parts whose
correctness depends on order, concurrency and failure, the TLC configurations
that check them, and proofs for the TLA+ proof system. Paths below are relative
to the repository root.

## 1. Inventory

| Component | State | Operations | Hard because |
|---|---|---|---|
| **Authority ledger** `database/google_ads_authority.py` | one authority record and one dispatch outbox per deployment, in Firestore | create, validate, approve, claim / release / settle / re-arm the outbox, claim / fence / reconcile / complete / release / mark the create | leases expire under their holders; a timed-out transaction can commit later |
| **Paused-create jobs** `scripts/google_ads_paused_worker*.py`, `..._dispatcher_job.py`, `google_ads_admin/dispatcher.py` | local state of each Cloud Run execution | claim, check, search, fence, create, complete, give back | several executions at once, crashes, ambiguous invocations |
| **Provider adapter** `scripts/google_ads_paused_provider.py` | campaigns at Google Ads (external) | create, search by contract label | ambiguous creates, a search that lags |
| **Owner step-up and evidence** `auth/google_ads_step_up*.py`, `google_ads_admin/approval_routes.py`, `scripts/google_ads_access_evidence_job.py` | nonces with their proofs, access evidence, the approval's proof marker | probe, begin, complete, approve, replay | one-time use, evidence that is replaced or expires, transactions that time out and commit later |
| **Passkeys and login** `auth/store.py`, `auth/authentication_challenges.py`, `auth/routes.py` | credentials, login challenges, a background cleanup | register, remove, begin and complete a login | three separate Firestore calls per login, an assertion submitted twice, the last key of an owner |
| **Inbound e-mail replies** `email_reply_*.py`, `telegram_gate.py`, the webhook of `main.py` | reply drafts, a send counter per process | acknowledge, draft, approve / reject, send | reads and writes without transactions, repeated deliveries and clicks, a crash after the send |
| **Appointments** `appointment_manager.py` | bookings per slot | book (transaction), cancel, hand over to a lead | bookings that commit after their request timed out |
| **Leads** `lead_management.py`, `tools/contact_capture.py`, `retention_purge.py` | lead documents | create, whole-document update, status transition (transaction), purge | an update of a stale copy beside a transaction or a purge |
| **E-sign and its webhook** `esign_review.py`, `docuseal_service.py`, `tools/webhook_replay.py`, routes of `main.py` | records of requests, a replay guard per process | preview, send, cancel, take a signed document in | handlers that wait for DocuSeal, deliveries repeated while one is at work, restarts |
| **Listing photos** `tools/image_storage.py`, routes of `main.py` | photos and their order in a bucket, a cached gallery per process | upload, delete, reorder, list | a cache that other processes do not invalidate, calls that fail after they were applied |
| Other routes, chat memory, cache, audit, inventory, documents, marketing, frontend | | | sequential data processing or best-effort I/O |

How they interact: the owner's approval (a request, authorised by the step-up)
writes authority record and outbox in one transaction. A dispatcher
job, started again and again, claims the outbox under a lease and asks Cloud Run to start the worker job.
The worker reads authority and outbox, claims the authority under a lease of
its own, validates, *fences* it, makes one provider call and completes the
authority with what it finds; then it settles the outbox, or gives the dispatch
back. All coordination goes through the two Firestore documents; processes
share nothing else. The owner's step-up uses the same passkeys as logins do, and
ends in the ledger's approval. A booking hands its visitor to a lead, an inbound
e-mail makes a lead and a reply; both meet in the request handlers of `main.py`.
E-sign and listing photos each own their documents.

What makes each component correct: *ledger* - documents always satisfy the
schema that reads them back, a fence is permanent, a completed record final.
*Jobs* - at most one campaign, only behind a fence; every approval ends.
*Step-up* - one ceremony, one proof, one approval, on the evidence the owner
saw. *Login* - a challenge opens one session, a use of a key is accepted once, an
owner keeps a key. *E-mail* - one reply per message, one decision per draft.
*Appointments* - no slot oversold. *Leads* - the first response stays, a purged
lead stays away, staff are alerted once. *E-sign* - only what was reviewed goes
out, a cancelled request is closed, the document of a complete event that was
answered was downloaded. *Photos* - the grouped galleries a process keeps are no older
than a minute, nothing rearranged by an upload or a deletion.

## 2. Modules

| Module | What it is |
|---|---|
| `AuthorityLedger` | the ledger: `record` and `outbox`, one action per Firestore transaction; any client may run any of them at any time |
| `PausedCreate` | EXTENDS it with worker and dispatcher executions, transactions that outlive their caller, and the provider |
| `PausedCreateOnce` | what the pipeline promises: approve, fence, make one campaign, finish, settle or give up |
| `Passkeys` | credentials, login challenges with their cleanup, login attempts |
| `OwnerApproval` | EXTENDS `Passkeys`, INSTANCE of `AuthorityLedger`: evidence probes, step-up ceremonies, approvals, beside logins and the ledger's other clients |
| `Appointments` | bookings and cancellations of slots |
| `Leads` | the leads of one visitor and everyone who writes them, the purge included |
| `EmailReplies` | the reply to an inbound e-mail: webhook, draft store, card, sender |
| `FrontDesk` | EXTENDS the last three and joins them where `main.py` does |
| `ESign` | review, sending, cancelling and the webhook |
| `ListingPhotos` | the photos of a home, their order, and the cached galleries |
| `MC...` | instances for TLC |
| `AuthorityLedger_proofs` | the ledger's theorems |
| `PausedCreate_proofs` | the jobs' theorems |
| `FrontDesk_proofs` | the theorems of appointments, leads and replies |
| `FrontDeskOnce_proofs` | EXTENDS it: the alerts, replies and decisions that happen once |
| `Passkeys_proofs` | lemmas about keys, challenges and login attempts |
| `OwnerApproval_proofs` | EXTENDS it: the theorems of logins, ceremonies, evidence and approvals |
| `ESign_proofs` | the theorems of sending, cancelling and the webhook |
| `ListingPhotos_proofs` | the theorems of the cached galleries, the orders and the types |

### The paused create

**State.** `record` is `GoogleAdsDeploymentRecord`: `worker` and `lease` are
`worker_claim_hash` and `claim_expires_at`; `fenced` and `fencer` are
`create_fenced_at` and `create_fence_claim_hash`; `ref` is
`provider_reference_hash`; `error` says whether `error_code` is set. `outbox` is
`GoogleAdsPausedCreateOutboxRecord` likewise. A claimant is a model value. The
code makes one per execution from a uuid, so a value of `Workers` or
`Dispatchers` may be taken again once nothing refers to it any more
(`FreshWorker`, `FreshDispatcher`): any number of executions, a bounded number
at a time. An expiry is `live` or `expired`; `CreateLeaseExpires` and
`OutboxLeaseExpires` may happen at any time, which allows every choice of lease
length and every delay of an execution.

**Steps.** `worker[w].step` is where `PausedCreateWorker.run` stands inside
`run_paused_create_job`: one step is one ledger transaction, one ledger read or
one provider call. `_run_transaction` has three outcomes, and so has every
transaction of an execution: it commits (`Commits`), it refuses and changes
nothing (`Refused`), or the caller sees a timeout (`TimesOut`) and the
transaction is `late`: it commits later, in any order with anything else, or
never. A create request is `inflight` until the provider carries it out or
loses it; a campaign is `visible` once the search by label returns it.
An execution reads authority and outbox one after the other when it starts;
one step does both, because a dispatch seen in the second read was already there
whenever the authority was still approved after it.

**Left out.** Versions, timestamps and the event written with each version
(no transaction of these jobs passes an expected version; the approval's
version 2 is the state SERVER_VALIDATED); error wording; the contract, its
request graph and the read-back comparison (a search is either unambiguous and
right, or an error). `PausedCreateControlPlane`, an approval without an outbox, is
used by the tests only. Here the approval keeps its effect on both documents; who
may approve is in `OwnerApproval`.

In every module, definitions whose name ends in `Slip` are plausible mistakes, one
above the definition it would replace; no specification uses them.

### Passkeys and the owner's approval

`credential` is the collection of passkeys: `count` and `used` are `sign_count`
and `last_used_at`, the two fields the compare-and-set looks at. A login attempt
is `login_complete`: it burns the challenge, reads the key, records the use, and
other requests run between these steps (`ConsumeChallenge`, `LookUpKey`,
`UseKey`). `SubmitLogin` may come twice for one assertion. `sweep` is the thread
that `issue` starts; its query and its deletion are two steps, and it may miss any
expired challenge, because the query is bounded.

`StartProbe` and `FinishProbe` are the evidence job: it reads the authority's
version, observes, and records only over the version it read and over older
evidence. `stepUp` is a step-up/complete request, `approval` a request to
approve. Either transaction can time out (`StepUpTimesOut`,
`ApprovalTimesOut`); it then commits `late`, or never. A nonce stands for the
context, the proof and the evidence document, which are hashes over it; it is
`live`, then `expired` for its consumption, then `over` for the proof made from
it. `DecideApproval` calls `Ledger!Approve`; a replay changes nothing.
`LedgerClients` is the rest of the ledger, so that a replay can meet a record
that has moved on. The in-memory stores, labels and the login by e-mailed code
are left out.

### The front desk

A booking reads the confirmed appointments of its slot and commits over exactly
that result, or reads again (`Undisturbed`: Firestore's optimistic commit over a
query). Its request waits for it or not; one that was told of its appointment hands
the visitor to a lead (`HandOff`).

A `Lead` keeps what the properties tell apart: status, first responder, and
whether it carries the visitor's phone number and chat session. A request of
`Leads` looks a lead up by session, phone or id, changes the object and writes
the whole of it (`Update`); only `Transition` is a transaction. The purge
selects, scans other collections, and deletes without looking again.

In `EmailReplies` a process handles one request at a time, because none of that
code awaits; requests of other processes run between any two calls. `draft` is
the draft's status and whether its body is the acknowledgement's placeholder.
Every call to Resend may be carried out and still report a failure. Flags are
on. `set_draft_body` has no caller and is left out; the draft status `expired`
is never reached.

### E-sign

A document and whom it goes to are one value of the deal, and the review token is
that value. `Confirm` is the check of `_send_reviewed_signing`; the call to DocuSeal
and the record are later steps, and the deal may change between them. A `Preview` is
the route or the answer 409 to a stale token, which brings a new one. A signed
submission has an event, complete or `unusable`: without a document or a deal, or with
an address that is not allowed. `Deliver` is the claim of the replay guard and the mark,
`Download` and `Store` what follows; a failure releases the claim. `Ignore` is the claim
of an unusable event, answered with 200 and kept. `downloaded` is the file in `/tmp`: the
copies in GCS, the deal's notes and Drive may fail without the answer telling
(`main.py:5813`). `Restart` empties a process's guard and ends its requests; that
DocuSeal repeats an event until it has an answer is external.

### Listing photos

One home; a photo is its number in the order of file names. Each route is its
calls to the bucket: `Put`, `Check` (the look after a failed upload), `Look`,
`Delete`, `Prune`, `Clean`, `WriteOrder`. A call may be applied and report an error.
`BeginListing`, `ListPhotos`, `ReadOrder` and `KeepGallery` are `list_all_grouped` in a
thread; from `ReadOrder` on it holds the answer that it keeps and returns, also when
that is over already. What callers make of an answer, such as the registry from which
`seo_routes.py` renders pages (five minutes in each process), is no part of the module.
`Ordered`, `Cleaned` and `Pruned` pick from a sequence by `Picked`, a filter that keeps
the order.
A `Tick` is the cache's minute: the age of a gallery is counted from the start of
its listing. `Current` excepts galleries made without a storage client, which show
no photos and are cached like any other (`image_storage.py:586`, `:621`).

## 3. Runs

| Run | Instance | Shows |
|---|---|---|
| `authority_ledger` | 3 workers, 2 dispatchers, 2 campaigns, 3 attempts | whatever clients do: `RecordValid`, `OutboxValid`, `DispatchedOnlyWhenCreated`, `FenceIsPermanent`, `CreatedIsFinal`, `FailedOnlyHeals` |
| `paused_create_safety` | 2 workers, 2 dispatchers, 2 attempts, 1 fault, symmetric | `AtMostOneCampaign`, `CampaignsAreFenced`, `CreatedIsReal`, `OnlyOwnDispatchIsRearmed` |
| `paused_create_live` | 1 worker, 2 dispatchers, 2 attempts, 1 fault, fair | `ApprovalSettles`, `CreatedIsSettled` |
| `paused_create_once` | 3 workers, 2 dispatchers, 1 attempt, 1 fault, symmetric | the jobs implement `PausedCreateOnce` (`ImplementsOnce`) |
| `owner_approval` | 3 keys of 2 users, 1 challenge, 2 attempts, 2 nonces, 2 step-ups, 2 approvals, 2 probes, 1 dispatcher, symmetric | `LoginOnce`, `OneWinnerPerReading`, `CountNeverFalls`, `OwnerKeepsAKey`, `LiveChallengeStays`, `StepUpOnce`, `AnswersAgree`, `ApprovedAsSeen` |
| `front_desk` | 1 slot for 2, 3 bookings, 2 leads, 2 requests, 1 message, 2 processes, cap 2, symmetric | `NoOversell`, `AlertedOnce`, `LostToStaleCopy`, `PurgedStays`, `OneReplyUnlessOverlap`, `DecisionStands`, `SettledStays` |
| `esign` | 3 contents, 2 of them ready, 1 submission, 3 requests, 2 processes | `SentWasReviewed`, `CancelledIsClosed`, `AnsweredIsDownloaded` |
| `listing_photos` | 3 photos, 2 processes, 1 listing thread, orders of 2, symmetric | of what `list_all_grouped` keeps and answers: `ListedWithinAMinute`, `ListedAtOnce`; of the order: `NothingRearranged` |
| `submissions` | 2 workers, 2 dispatchers, no fault | **violated**: `SubmissionsAreExclusive`, a sentence of the runbook |
| `claims` | the same | **violated**: `ClaimsAreDispatched`, a sentence of the runbook |
| `email_one_reply` | 1 message, 2 processes | **violated**: `OneReply`, a sentence of the module's docstring |
| `first_response` | 2 leads, 2 requests, 1 operator | **violated**: `FirstResponseStays`, a sentence of a docstring |

**Bounds.** `MaxAttempts` is `MAX_GOOGLE_ADS_DISPATCH_ATTEMPTS` (3 in the code,
and in the ledger's run). Two attempts are enough for the jobs' runs to have a
re-armed and a last attempt, one is enough for three workers under one
dispatch. `MaxFaults` bounds the timeouts and crashes of one behaviour, not the
expiries, refusals, rejections, lost requests and lagging searches, which are
unbounded. Two workers are a holder and a rival; the third worker of
`paused_create_once` can be a reconciler beside both. Symmetry is used only in
runs without liveness properties. The jobs' runs check for deadlock: a finished
deployment can still be looked at by a new execution. `authority_ledger` does not:
the ledger alone stops when an unfenced authority is left with a failed outbox,
and that is the end the code intends for it.

The runs of the other modules do not check for deadlock: they end when every
challenge, booking or submission has been used up. Their bounds:

* `owner_approval`: `MaxSignatures` and `MaxProbe` are 2, an older and a newer
  reading of a counter and of the evidence. The owner has a counting and a
  counterless key, so that both rules of the compare-and-set are met. `MCFocus`
  explores two kinds of states: two ceremonies and two approvals with one key and
  nobody logging in, or two logins beside one ceremony with every key. The first
  is where proofs compete, the second where uses of a key do.
* `front_desk`: `MCFocus` explores bookings while there are no leads, leads
  beside at most one appointment (the parts only meet in `HandOff`), the purge
  beside one request, and e-mail beside the lead it has just made. Three bookings
  race for two places; two requests for one lead, with a second lead to confuse it
  with; two processes for one message, with room for two sends. `alerts` stops at
  two.
* `esign`: one submission, three requests: two deliveries and a cancellation.
* `listing_photos`: three photos are enough for one to leave from between two
  others. `MCFocus` explores two staff requests at once while no gallery is
  listed, and galleries of two photos beside one staff request. `MaxWanted` bounds the
  order staff ask for, `quiet` stops at the second tick, when every gallery of
  before has run out.

Exceptions in the properties are those of the code: `OneReplyUnlessOverlap` and
`DecisionStands` leave out messages that two processes worked on at once
(`overlap`), `AlertedOnce` visitors with two requests at once (`crowded`),
`AnsweredIsDownloaded` events that were called duplicates while an attempt was
still at work (`hasty`) and events the webhook cannot use, `ListedWithinAMinute` the
answer of a listing that itself took more than a minute to the request that asked for
it, `ListedAtOnce` a process with a thread already listing, `NothingRearranged` a
deletion that had read the order before it was changed. What happens inside the exceptions is shown by the
violated runs or said in section 4.

**Fairness** (`Fairness` in `PausedCreate`; no other module assumes any: their
properties are safety, since a request that stops is nobody's to resume). A running execution takes its next
step, the provider finishes a request, a transaction nobody waits for ends, a
lease runs out, and an idle dispatcher is started again. Each is weak fairness
of one process. Nothing obliges anyone to approve, Cloud Run to start a worker,
or anything to crash. That the dispatcher job is started again is an assumption
about the deployment: the repository makes it a job that takes no argument and
may run at any time, but holds no trigger for it. Both liveness properties rest
on it, since without a dispatcher nothing heals an outbox whose worker died.
One worker is enough there: other workers only add steps that are not
obliged to happen, and what they could spoil is in the safety runs.

## 4. Where the documentation says more than the code does

`docs/runbooks/google-growth-activation.md`:

* lines 178-179, "Duplicate dispatchers use a lease and cannot submit
  concurrently". The lease is taken before the invocation and not looked at
  during it. When it ends first, a second dispatcher claims and both submit.
  The create stays single, because the fence and not the lease protects it.
* lines 138-141, the worker consumes authority only "while the same transaction
  observes its durable outbox in `DISPATCHING`". `claim_paused_create` does;
  `claim_fenced_reconciliation` never reads the outbox, so a worker that started
  under a dispatch may reconcile after that dispatch was given back or failed.
  It is harmless to the create, which reconciliation never repeats.

`email_reply_drafts.py:18-20`, "webhook retries can never create a second draft
(and therefore can never cause a second send downstream)", likewise
`email_reply_sender.py:140-143` and `telegram_gate.py:25-26`: the draft store reads,
checks and then writes without a transaction. A retry that comes after the first
attempt is harmless (`SettledStays`); one that runs beside it in another process
is not, and the sender gets two mails (`email_one_reply`).

`lead_management.py:161-163`, "The first transition into a contacted stage records
an immutable response clock", and `main.py:7914-7916`: `update_lead` writes every
field of what the request read earlier, so an edit that began before the first
transition removes it again (`first_response`). Nothing else does
(`LostToStaleCopy`).

Smaller ones, without a run:

* A send that DocuSeal carried out but whose answer was lost is reported as
  "nothing was sent" (`main.py:5583`); the submission has no record and cannot be
  cancelled from the deal.
* "Receive DocuSeal completion webhooks and mirror signed PDFs to GCS"
  (`main.py:5715`): an event without a document, without a deal or with an address that
  is not allowed is answered with 200 and not repeated, and so is one whose copy to GCS
  failed.
* "The photos you add show up on the Inventory page of the website, usually within a
  minute" (`docs/team/photo-upload-guide.md:7`) is about a page that asks
  `list_all_grouped`. Server-rendered pages are made from a registry that each process
  keeps for five minutes and no photo change invalidates (`seo_routes.py:282`, `:413`).
* A worker that cannot verify the account's currency releases or marks its claim
  with `provider_currency_unverified` (`google_ads_paused_worker.py:969`, `:1024`), which
  is none of the errors the ledger can record (`database/models.py:46`): the
  transaction is refused, and the claim stays until its lease runs out.
* An approved draft whose mail failed stays approved and no operation sends it
  again, though `email_reply_sender.py:93` calls it retryable.
* A booking of a converted lead sets it back to `qualified` (`main.py:7753`), and sets
  that status without a first response.

Also: after a rejected invocation on the last attempt `run_dispatcher_job`
reports `"outbox_state": "PENDING"` although the release has made it `FAILED`. That
is a literal in its report and no state of the model.

## 5. Proofs

`AuthorityLedger_proofs` proves, for any sets of claimants and campaigns and any
positive attempt limit, that under `LedgerSpec` the types, `RecordValid`,
`OutboxValid` and `DispatchedOnlyWhenCreated` always hold and that
`FenceIsPermanent`, `CreatedIsFinal` and `FailedOnlyHeals` hold of every step. Assumed: `None` is no
claimant or campaign (`NoneIsNoValue`), the limit is positive
(`MaxAttemptsPositive`). The invariant is `LedgerData`: the validators of both
documents need each other (a fence implies approval, an approval implies an
outbox); and two facts no validator says are needed: a DISPATCHING outbox has
used an attempt, on which a re-armed PENDING one rests, and one yet to be
written has used none. The action properties follow from
it step by step.

`PausedCreate_proofs` proves of `Spec`, for any number of workers, dispatchers,
attempts, crashes and timeouts:

* `TypeCorrect`, and `JobsUseLedger`: every step of the pipeline is one
  transaction of the ledger or none, called with what it is meant for
  (`Arguments`). So all theorems of the ledger hold of the pipeline too.
* `OneCampaign`, `FenceFirst`, `NoImaginedCreate`: the invariants
  `AtMostOneCampaign`, `CampaignsAreFenced` and `CreatedIsReal`.
* `KeepsThePromise`: the pipeline implements `PausedCreateOnce`
  (`ImplementsOnce`).
* `OwnDispatchOnly`: the action property `OnlyOwnDispatchIsRearmed`. Every
  transaction but the two that give a dispatch back either needs an expired lease
  or leaves DISPATCHING for good; those two name the claimant they give back, and
  only its own execution, a worker started under it or a transaction it left
  behind runs them (`GivenBackByName`, `ByItsOwn`).

Assumed besides the ledger's: campaigns are named by the worker that asked for
them or `Preexisting` (`CampaignsAreNamedByCreator`, `PreexistingIsNoWorker`),
and the fault bound is a number. The argument: `AtMostOneCampaign` is not
inductive, because a state with one campaign and a second worker about to create
satisfies it. `CreatorIsAlone` says that a worker about to create holds the fence
and nothing exists. It is true at the fence because no campaign can precede the
fence (`CampaignsAreFenced`) but a pre-existing one, which the search before it
would have seen; and because the worker could not hold the fence already when it
asked. That last part is `ClaimsInOrder`: a worker between its claim and its
fence has no transaction of its own still under way, so nothing but its own next
step can fence in its name. The structure is by actor: `WorkerStepFrame` and
`NextFrame` say what a step of a worker and a step outside of them may touch,
`WorkerFlow` where a worker's step leads, and `Rival` what another's transaction
cannot do; each part of `Inductive` then follows from these. TLC also finds
`Inductive` true in every state of the safety run's instance.

`FrontDesk_proofs` proves of `FrontDesk`'s `Spec`, for any number of slots,
bookings, leads, requests, operators, messages and processes and any capacity and
cap: `TypeCorrect`, `SlotsKeepToCapacity` (`NoOversell`), `OnlyStaleCopiesLose`
(`LostToStaleCopy`), `PurgedStayAway` (`PurgedStays`) and `SettledForGood`
(`SettledStays`). Assumed: bookings are finite and the capacity a number
(`BookingsFinite`, `MaxPerSlotNat`), an absent lead is not a document
(`NoneIsNoDocument`), staff move leads to statuses (`MovesAreStatuses`), the cap is
a number (`CapNat`), and a process without a message names none
(`NoMessageIsOutside`). Each component has an invariant of its own. `NoOversell`
needs `CommitsHaveRoom`: a full slot and a booking about to commit to it would
satisfy it, and `Undisturbed` ties what the booking has seen to what is there. The
leads need `WritersHaveRead`: a writer holds a document it once read. The
replies need `RunsHaveMessages`, `SendersHaveRoom` and `SettledAreDone`: a message
that is decided, with no process at work on it, has nothing left that an action
would act on. The lemmas `AppointmentsKeepInv`, `LeadsKeepInv` and
`RepliesKeepInv` take each component's actions one by one; `NextKeepsInv` adds the
two actions that join components, each of them one step of both.

`FrontDeskOnce_proofs` adds what happens once, which needs to know who else is at
work. The added assumption is `ProcessesFinite`: whether two processes overlap on
a message is counted. Its invariant is `OnceInv`, that of `FrontDesk_proofs` with
two more parts:

* `AlertInv`, for `StaffAlertedOnce` (`AlertedOnce`): while no two requests overlapped
  and no purge took a lead, one request is at work, what it is about to write it read
  from the leads as they are (`WritersAreCurrent`), an alert sent is matched by a
  number on file (`NumberIsKnown`), and who may still alert found none
  (`AlertIsFirst`). `AlertedOnce` alone is not inductive: one alert sent and a
  request about to send another satisfies it.
* `ReplyInv`, for `OneReplyEach` (`OneReplyUnlessOverlap`) and `DecisionsStand`
  (`DecisionStands`): for a message without overlap, what each step of its one
  handler knows of the draft and of the mails sent (`HandlerOK`). That the handler is
  the only one follows from how the history of overlaps is kept (`OneHandler`);
  `HandlerActs`, `HandlerGoes` and `HandlerEnds` are the kinds of step it takes, and
  `OneMessageAnswered` says that each of them keeps a decision.

`ESign_proofs` proves `TypeCorrect`, `OnlyReviewedIsSent` (`SentWasReviewed`),
`CancelledStaysClosed` (`CancelledIsClosed`) and `NoEventIsLost`
(`AnsweredIsDownloaded`), for any number of requests, submissions, processes and
restarts. Assumed: contents that are ready are contents, and `None` is no content,
status, submission or process (`ReadyContents`, `NoneIsNoStatus`,
`NoneIsNoRequestPart`, `NoneIsNoSubmission`). Each property needs what is known
on the way to it: a request about to send holds a reviewed content
(`SendsReviewed`), one about to mark a record has archived the submission
(`CancelsArchived`), and a guard that holds a complete event belongs to an attempt under
way or to one that has downloaded its document (`GuardIsEarned`). That an event stays
what it is once it was sent (`StepsLeaveEvents`) keeps answers earned
(`AnswersAreEarned`).

`Passkeys_proofs` and `OwnerApproval_proofs` prove ten theorems of
`OwnerApproval`'s `Spec`, for any number of keys, users, challenges, nonces, requests
and probes: `TypeCorrect`, `OneSessionPerChallenge` (`LoginOnce`), `OneProofPerCeremony`
(`StepUpOnce`), `OneUsePerReading` (`OneWinnerPerReading`), `AnswersAlwaysAgree`
(`AnswersAgree`), `CountsStand` (`CountNeverFalls`), `LastKeyStays` (`OwnerKeepsAKey`),
`LiveChallengesStay` (`LiveChallengeStays`), `ApprovalsRestOnEvidence`
(`ApprovedAsSeen`), and `LedgerIsUsedAsSpecified`: every step is one of
`LedgerSpec` or leaves the ledger alone, so the ledger's theorems hold here too.
Assumed: keys have owners and the protected are users (`OwnersAreUsers`), `None` is
no value of the kinds it stands beside (`NoneIsNo...`), bounds are numbers
(`MaxSignaturesNat`, `MaxProbeNat`, `MaxAttemptsPositive`). The
invariant is `OwnInv`. Its heart is `Behind`: a use of a key that was accepted
is behind the key, which has been removed for good or whose document tells of a
later use. Who read the key as the winner did can then no longer match it
(`BehindIsMissed`), and two winners have read it differently. `OneWinnerPerReading`
is not inductive without it: a winner, and a second request about to win with the
same reading, satisfies it. Burning a challenge and consuming a nonce are
atomic in the code; that one burner is left, `BurntByOne` and `WonByOne` keep
through the steps after.

`ListingPhotos_proofs` proves `GalleriesCatchUp` (`ListedWithinAMinute`),
`AnswersAreShown` (`ListedAtOnce`), `TypeCorrect` and `OthersStayInPlace`
(`NothingRearranged`), for any number of photos, processes and threads and orders of
any length. Assumed: `None` is no process (`NoneIsNoProcess`), the photos and the
length of an order are numbers (`PhotoCountNat`, `MaxWantedNat`). The invariant
`GalleryInv` counts time with the property: a listing still under way, or a gallery
kept, that differs from the bucket is as old as the bucket's last change
(`LateListingsAreOld`, `StaleGalleriesAreOld`), and what the process that answered has
listed and keeps since is current (`OwnListingsAreCurrent`, `OwnGalleriesAreCurrent`). Of
a listing this is said at both of its steps, while it holds what it has found and when
it holds its answer (`ListsWhatIsThere`).

The types and the orders are `ArrangeInv`: what is about to be written names no photo
twice (`WritesAreOrders`), without which an order with a photo in it twice could
be written, and the order is no longer than staff may ask for (`OrderIsAsked`), since a
deletion passes it on. They rest on what `_ordered`, `set_photo_order` and
`delete_photo` do to a sequence of any length. A filter defined by recursion, such as
`SelectSeq`, would need induction over data; `Picked` therefore says which places of
a sequence are kept and puts them in their order by `Rank`, how many of the places
come up to each. That the ranks count the places from one on, each of them once, is a
fact about finite sets (`RanksCount`, `PlacesAscend`); that picking and joining keep
what comes before what (`PickingKeepsOrder`, `ConcatKeepsOrder`) follows by
arithmetic. `GalleriesInOrder` is the result for `_ordered`: each photo once, those
arranged in staff's order, then the others by name. For `NothingRearranged` it is
enough that a photo does not precede another both ways (`PrecedesOneWay`), and that to
prune an order leaves the rest of it as it was (`PrunedPrecedes`).

TLC finds each of these invariants true in every state of the corresponding run's
instance, `AlertInv` and `ReplyInv` in that of `MCFrontDesk`.

Only model-checked:

* the liveness properties `ApprovalSettles` and `CreatedIsSettled`, which need
  fairness;
* the runs that expect a violation.

No theorem rests on the value of a bound such as `MaxFaults`: those only keep the runs finite.

## 6. Plan

Done: all modules of section 2, their runs, and the proofs of section 5, of every
invariant and action property that a run checks. Left: a module of the sign-in by
e-mailed code (section 7).

## 7. Not modelled

Most of the repository is sequential: one request or one script run that reads,
computes and answers, with no state that two actors share or that a later run
relies on. For such code a state machine would repeat the program. That is why
the modules cover a small share of its lines, and the hard ones. In particular:

* Request parsing, authorisation of routes, rate limits (a window per process)
  and page rendering in `main.py`, `seo_routes.py`, `pm_routes.py`, `mira_routes.py`;
  the registry from which pages are rendered, kept for five minutes, so that these
  pages may show older galleries than section 2's listing photos answer with.
* Chat and prompt handling, conversation memory and the best-effort cache. Two
  messages of one chat at the same time can lose one in the history
  (`chat_history.py`), which only the wording of later answers depends on.
* Inventory synchronisation, scraping, document and marketing tools, PDF filling:
  data transformation. The validation of a signing packet
  (`esign_review.py`) is of this kind too: `ESign` has its outcome.
* Audit log, BigQuery sync, the nurture batch, notifications: one run at a time or
  best effort. The purge is modelled for leads.
* The in-memory stores that stand in for Firestore in tests, and the fallback of
  the photos to local disk.
* The daily cap over all processes: it is documented as one of each process.
* The sign-in by e-mailed code (`auth/email_code.py`, two routes of `main.py`) and
  the directory of allowed and blocked staff. A code is read, counted, compared and
  deleted in separate calls to Firestore, so requests that overlap can use one code
  twice or delete a newer one; a module of it would look like `EmailReplies`.
* The frontend.

`PROJECT.json` lists each component with its reason.
