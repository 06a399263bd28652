------------------------------ MODULE ESign_proofs -----------------------------
(******************************************************************************)
(* Theorems of ESign, for any number of contents, submissions, requests and   *)
(* processes.                                                                 *)
(*                                                                            *)
(* A request carries what it knew when it gave up its thread: the content it  *)
(* sends, the submission it saves, cancels or stores.  The invariant says     *)
(* that what it carries is still true when it goes on.                        *)
(******************************************************************************)
EXTENDS ESign, TLAPS

\* What waits to be sent has been reviewed.
SendsReviewed == \A r \in Requests : At(r, "send") => request[r].content \in reviewed

\* Past the call that sends, a request works on a submission that is there.
WorksOnSubmission ==
    \A r \in Requests : ~At(r, "idle") /\ ~At(r, "send") =>
        SubmissionOf(r) \in Submissions /\ submission[SubmissionOf(r)] # None

\* Only what was sent has a record.
RecordsAreOfSent == \A i \in Submissions : record[i] # None => submission[i] # None

\* What waits to be marked cancelled has been archived.
CancelsArchived ==
    \A r \in Requests : At(r, "cancel") => submission[SubmissionOf(r)].archived

\* A webhook request runs in the process whose guard it claimed.
HandlersHaveProcess ==
    \A r \in Requests : request[r].step \in {"download", "store"} =>
        request[r].process \in Processes

HasEvent(i) == submission[i] # None /\ submission[i].event # "none"
Unusable(i) == submission[i] # None /\ submission[i].event = "unusable"

\* A guard holds a complete event while it is handled in its process, and
\* afterwards only if it was dealt with.
GuardIsEarned ==
    \A p \in Processes : \A i \in guard[p] \ downloaded :
        Unusable(i) \/ \E r \in Handling(i) : request[r].process = p

\* What is answered had its event sent, or its document downloaded; a complete
\* event the latter.
AnswersAreEarned ==
    /\ \A i \in answered : HasEvent(i) \/ i \in downloaded
    /\ AnsweredIsDownloaded

ESignInv ==
    /\ TypeOK
    /\ SendsReviewed /\ WorksOnSubmission /\ RecordsAreOfSent /\ CancelsArchived
    /\ HandlersHaveProcess /\ GuardIsEarned
    /\ SentWasReviewed /\ CancelledIsClosed /\ AnswersAreEarned

\* A request at rest is a request.
LEMMA IdleIsRequest ==
    /\ IdleRequest \in Request
    /\ IdleRequest.step = "idle" /\ IdleRequest.process = None
  BY DEF IdleRequest, Request

\* The invariant holds at the start.
LEMMA Initially == Init => ESignInv
<1> SUFFICES ASSUME Init PROVE ESignInv
  OBVIOUS
<1> USE DEF Init
<1>1. \A r \in Requests : request[r] = IdleRequest
  OBVIOUS
<1>2. TypeOK
  BY IdleIsRequest DEF TypeOK
<1>3. SendsReviewed /\ WorksOnSubmission /\ CancelsArchived /\ HandlersHaveProcess
  BY <1>1, IdleIsRequest
  DEF SendsReviewed, WorksOnSubmission, CancelsArchived, HandlersHaveProcess, At
<1>4. GuardIsEarned
  BY Zenon DEF GuardIsEarned
<1>5. /\ RecordsAreOfSent /\ SentWasReviewed /\ CancelledIsClosed /\ AnswersAreEarned
  BY NoneIsNoStatus
  DEF RecordsAreOfSent, SentWasReviewed, CancelledIsClosed, AnswersAreEarned,
      AnsweredIsDownloaded
<1> QED
  BY <1>2, <1>3, <1>4, <1>5 DEF ESignInv

--------------------------------------------------------------------------------
(* What a step does to the requests and to the records.                       *)

\* Marking or saving a record of a submission that is there gives it the new
\* status or leaves it, and touches no other.
LEMMA SavedRecord ==
    ASSUME TypeOK, NEW i \in Submissions,
           NEW status \in {"pending", "completed", "cancelled"},
           Save(i, status) \/ Mark(i, status)
    PROVE  /\ record' \in [Submissions -> {None, "pending", "completed", "cancelled"}]
           /\ \A j \in Submissions : record'[j] = record[j] \/ (j = i /\ record'[j] = status)
<1>1. record \in [Submissions -> {None, "pending", "completed", "cancelled"}]
  BY DEF TypeOK
<1>2. CASE record' = record
  BY <1>1, <1>2
<1>3. CASE record' = [record EXCEPT ![i] = status]
  <2>1. \A j \in Submissions : record'[j] = IF j = i THEN status ELSE record[j]
    BY <1>1, <1>3
  <2>2. record' \in [Submissions -> {None, "pending", "completed", "cancelled"}]
    BY <1>1, <1>3
  <2> QED
    BY <2>1, <2>2
<1> QED
  BY <1>2, <1>3 DEF Save, Mark

\* What happens to a submission once its event is sent leaves the event.
EventsLast ==
    \A i \in Submissions : HasEvent(i) =>
        submission'[i] # None /\ submission'[i].event = submission[i].event

\* Answers stay earned as long as none is given.
LEMMA AnswersStayEarned ==
    ASSUME TypeOK, AnswersAreEarned, EventsLast, UNCHANGED <<answered, downloaded, hasty>>
    PROVE  AnswersAreEarned'
  BY DEF TypeOK, AnswersAreEarned, AnsweredIsDownloaded, EventsLast, HasEvent

\* A step that leaves the guards alone and ends no handling keeps what the
\* guards hold earned.
LEMMA HandlingGoesOn ==
    ASSUME TypeOK, GuardIsEarned, EventsLast, guard' = guard, downloaded' = downloaded,
           \A r \in Requests : request[r].step \in {"download", "store"} =>
               /\ request'[r].step \in {"download", "store"}
               /\ request'[r].submission = request[r].submission
               /\ request'[r].process = request[r].process
    PROVE  GuardIsEarned'
<1>1. \A i \in Submissions : Unusable(i) => Unusable(i)'
  BY DEF EventsLast, HasEvent, Unusable
<1>2. \A i \in Submissions : \A r \in Handling(i) :
          r \in Handling(i)' /\ request'[r].process = request[r].process
  BY DEF Handling, SubmissionOf
<1> QED
  BY <1>1, <1>2 DEF GuardIsEarned, TypeOK

\* What a step makes of a submission and of a request.
Signed(s, event) == [s EXCEPT !.event = event]
Archived(s) == [s EXCEPT !.archived = TRUE]
NewlySent(c) == [content |-> c, event |-> "none", archived |-> FALSE]
Sending(q, p, c) == [q EXCEPT !.step = "send", !.process = p, !.content = c]
Saving(q, i) == [q EXCEPT !.step = "save", !.submission = i]
Asking(q, p, i) == [q EXCEPT !.step = "archive", !.process = p, !.submission = i]
Downloading(q, p, i) == [q EXCEPT !.step = "download", !.process = p, !.submission = i]
GoneTo(q, step) == [q EXCEPT !.step = step]

\* What the buyer signs or staff archive stays the submission that was sent.
LEMMA StaysSent ==
    ASSUME NEW s \in Submission, NEW event \in {"complete", "unusable"}
    PROVE  /\ Signed(s, event) \in Submission /\ Signed(s, event) # None
           /\ Signed(s, event).archived = s.archived /\ Signed(s, event).content = s.content
           /\ Archived(s) \in Submission /\ Archived(s) # None
           /\ Archived(s).archived /\ Archived(s).content = s.content
           /\ Archived(s).event = s.event
<1>1. /\ Signed(s, event) \in Submission
      /\ Signed(s, event).archived = s.archived /\ Signed(s, event).content = s.content
  BY DEF Submission, Signed
<1>2. /\ Archived(s) \in Submission
      /\ Archived(s).archived /\ Archived(s).content = s.content
      /\ Archived(s).event = s.event
  BY DEF Submission, Archived
<1> QED
  BY <1>1, <1>2, NoneIsNoSubmission

\* What is sent carries the content of its request.
LEMMA SentHasContent ==
    ASSUME NEW c \in Contents
    PROVE  /\ NewlySent(c) \in Submission /\ NewlySent(c) # None
           /\ NewlySent(c).content = c
<1>1. NewlySent(c) \in Submission /\ NewlySent(c).content = c
  BY DEF Submission, NewlySent
<1> QED
  BY <1>1, NoneIsNoSubmission

\* A request that goes on carries what its next step needs.
LEMMA SendingFits ==
    ASSUME NEW q \in Request, NEW p \in Processes, NEW c \in Contents
    PROVE  /\ Sending(q, p, c) \in Request
           /\ Sending(q, p, c).step = "send" /\ Sending(q, p, c).content = c
  BY DEF Request, Sending

\* The fields of a request that is about to save.
LEMMA SavingFits ==
    ASSUME NEW q \in Request, NEW i \in Submissions
    PROVE  /\ Saving(q, i) \in Request
           /\ Saving(q, i).step = "save" /\ Saving(q, i).submission = i
  BY DEF Request, Saving

\* The fields of a request that is about to ask the provider.
LEMMA AskingFits ==
    ASSUME NEW q \in Request, NEW p \in Processes, NEW i \in Submissions
    PROVE  /\ Asking(q, p, i) \in Request
           /\ Asking(q, p, i).step = "archive" /\ Asking(q, p, i).submission = i
  BY DEF Request, Asking

\* The fields of a request that is about to download.
LEMMA DownloadingFits ==
    ASSUME NEW q \in Request, NEW p \in Processes, NEW i \in Submissions
    PROVE  /\ Downloading(q, p, i) \in Request
           /\ Downloading(q, p, i).step = "download"
           /\ Downloading(q, p, i).submission = i /\ Downloading(q, p, i).process = p
  BY DEF Request, Downloading

\* The fields of a request that has gone on.
LEMMA GoneToFits ==
    ASSUME NEW q \in Request, NEW step \in {"cancel", "store"}
    PROVE  /\ GoneTo(q, step) \in Request
           /\ GoneTo(q, step).step = step
           /\ GoneTo(q, step).submission = q.submission
           /\ GoneTo(q, step).process = q.process
  BY DEF Request, GoneTo

\* One request changes, and stays a request.
Turns(r, q) ==
    /\ request' \in [Requests -> Request]
    /\ \A t \in Requests : request'[t] = IF t = r THEN q ELSE request[t]

\* What an assignment to one request makes of all of them.
LEMMA TurnsInto ==
    ASSUME TypeOK, NEW r \in Requests, NEW q \in Request,
           request' = [request EXCEPT ![r] = q]
    PROVE  Turns(r, q)
  BY DEF Turns, TypeOK

\* Releasing an event in the process of the request that ends leaves no event
\* unearned: what the other processes hold, their requests still handle.
LEMMA ReleasedIsEarned ==
    ASSUME TypeOK, GuardIsEarned, submission' = submission,
           NEW r \in Requests, Turns(r, IdleRequest),
           SubmissionOf(r) \in Submissions, request[r].process \in Processes,
           guard' = Released(SubmissionOf(r), request[r].process), downloaded' = downloaded
    PROVE  GuardIsEarned'
<1>1. ASSUME NEW z \in Processes, NEW j \in guard'[z] \ downloaded', ~Unusable(j)'
      PROVE  \E t \in Handling(j)' : request'[t].process = z
  <2>1. j \in guard[z] \ downloaded
    BY <1>1 DEF Released, TypeOK
  <2>2. PICK t \in Handling(j) : request[t].process = z
    BY <1>1, <2>1 DEF GuardIsEarned, Unusable
  <2>3. t # r
    BY <1>1, <2>2 DEF Released, TypeOK, Handling
  <2> QED
    BY <2>2, <2>3 DEF Turns, Handling, SubmissionOf
<1> QED
  BY <1>1 DEF GuardIsEarned

\* No step takes an event back or changes it.
LEMMA StepsLeaveEvents ==
    ASSUME TypeOK, [Next]_vars
    PROVE  EventsLast
<1>1. ASSUME NEW i \in Submissions, BuyerSigns(i)
      PROVE  EventsLast
  BY <1>1 DEF BuyerSigns, EventsLast, HasEvent, TypeOK
<1>2. ASSUME NEW r \in Requests, SendForSignature(r)
      PROVE  EventsLast
  BY <1>2 DEF SendForSignature, EventsLast, HasEvent, TypeOK
<1>3. ASSUME NEW r \in Requests, Archive(r)
      PROVE  EventsLast
  <2>1. CASE UNCHANGED submission
    BY <2>1 DEF EventsLast, HasEvent
  <2>2. CASE submission' = [submission EXCEPT ![SubmissionOf(r)].archived = TRUE]
    <3>1. submission' = [submission EXCEPT ![SubmissionOf(r)] =
                             Archived(submission[SubmissionOf(r)])]
      BY <2>2 DEF Archived
    <3>2. ASSUME NEW i \in Submissions, HasEvent(i)
          PROVE  submission'[i] # None /\ submission'[i].event = submission[i].event
      <4>1. submission[i] \in Submission
        BY <3>2 DEF TypeOK, HasEvent
      <4>2. Archived(submission[i]) # None /\ Archived(submission[i]).event = submission[i].event
        BY <4>1, StaysSent
      <4>3. submission'[i] \in {submission[i], Archived(submission[i])}
        BY <3>1 DEF TypeOK
      <4> QED
        BY <3>2, <4>2, <4>3 DEF HasEvent
    <3> QED
      BY <3>2 DEF EventsLast
  <2> QED
    BY <1>3, <2>1, <2>2 DEF Archive
<1>4. CASE UNCHANGED submission
  BY <1>4 DEF EventsLast, HasEvent
<1>5. ASSUME NEW r \in Requests, NEW p \in Processes,
             Confirm(r, p) \/ AskCancel(r, p) \/ \E i \in Submissions : Deliver(r, i, p)
      PROVE  UNCHANGED submission
  BY <1>5 DEF Confirm, AskCancel, Deliver
<1>6. ASSUME NEW r \in Requests,
             SaveRecord(r) \/ MarkCancelled(r) \/ Download(r) \/ Store(r)
      PROVE  UNCHANGED submission
  BY <1>6 DEF SaveRecord, MarkCancelled, Download, Store
<1>7. ASSUME NEW p \in Processes,
             Restart(p) \/ \E i \in Submissions : Duplicate(i, p) \/ Ignore(i, p)
      PROVE  UNCHANGED submission
  BY <1>7 DEF Restart, Duplicate, Ignore
<1>8. EditDeal \/ Preview \/ UNCHANGED vars => UNCHANGED submission
  BY DEF EditDeal, Preview, vars
<1> QED
  BY <1>1, <1>2, <1>3, <1>4, <1>5, <1>6, <1>7, <1>8 DEF Next

\* Every step keeps the invariant.
LEMMA StepKeepsInv == ESignInv /\ [Next]_vars => ESignInv'
<1> SUFFICES ASSUME ESignInv, [Next]_vars PROVE ESignInv'
  OBVIOUS
<1> USE DEF ESignInv, At, SubmissionOf
<1>a. \A r \in Requests : request[r] \in Request
  BY DEF TypeOK
<1>b. \A i \in Submissions : submission[i] # None => submission[i] \in Submission
  BY DEF TypeOK
<1>c. reviewed \subseteq Ready /\ Ready \subseteq Contents
  BY ReadyContents DEF TypeOK
<1>d. EventsLast
  BY StepsLeaveEvents
<1>e. UNCHANGED <<answered, downloaded, hasty>> => AnswersAreEarned'
  BY <1>d, AnswersStayEarned
<1>1. CASE EditDeal
  <2>1. GuardIsEarned'
    BY <1>1, <1>d, HandlingGoesOn DEF EditDeal
  <2> QED
    BY <1>1, <1>e, <2>1 DEF EditDeal, TypeOK, SendsReviewed, WorksOnSubmission,
       RecordsAreOfSent, CancelsArchived, HandlersHaveProcess, SentWasReviewed,
       CancelledIsClosed
<1>2. CASE Preview
  <2>1. Prepared \in Ready
    BY <1>2 DEF Preview, Prepared
  <2>2. GuardIsEarned'
    BY <1>2, <1>d, HandlingGoesOn DEF Preview
  <2> QED
    BY <1>2, <1>e, <2>1, <2>2 DEF Preview, TypeOK, SendsReviewed, WorksOnSubmission,
       RecordsAreOfSent, CancelsArchived, HandlersHaveProcess, SentWasReviewed,
       CancelledIsClosed
<1>3. ASSUME NEW i \in Submissions, BuyerSigns(i)
      PROVE  ESignInv'
  <2>1. PICK event \in {"complete", "unusable"} :
            /\ submission' = [submission EXCEPT ![i] = Signed(submission[i], event)]
            /\ submission[i] \in Submission /\ submission[i] # None
    BY <1>3, <1>b DEF BuyerSigns, Signed
  <2>2. PICK c : c = Signed(submission[i], event)
    OBVIOUS
  <2>3. /\ c \in Submission /\ c # None
        /\ c.archived = submission[i].archived /\ c.content = submission[i].content
    BY <2>1, <2>2, StaysSent
  <2>4. TypeOK'
    BY <1>3, <2>1, <2>2, <2>3 DEF BuyerSigns, TypeOK
  <2>5. \A j \in Submissions : submission'[j] = IF j = i THEN c ELSE submission[j]
    BY <2>1, <2>2 DEF TypeOK
  <2>6. SendsReviewed' /\ HandlersHaveProcess' /\ GuardIsEarned' /\ AnswersAreEarned'
    BY <1>3, <1>d, <1>e, HandlingGoesOn DEF BuyerSigns, SendsReviewed, HandlersHaveProcess
  <2>7. WorksOnSubmission' /\ RecordsAreOfSent'
    BY <1>3, <2>3, <2>5 DEF BuyerSigns, WorksOnSubmission, RecordsAreOfSent
  <2>8. CancelsArchived'
    BY <1>3, <2>3, <2>5 DEF BuyerSigns, CancelsArchived, WorksOnSubmission
  <2>9. SentWasReviewed' /\ CancelledIsClosed'
    BY <1>3, <2>1, <2>3, <2>5 DEF BuyerSigns, SentWasReviewed, CancelledIsClosed
  <2> QED
    BY <2>4, <2>6, <2>7, <2>8, <2>9
<1>4. ASSUME NEW p \in Processes, Restart(p)
      PROVE  ESignInv'
  <2>1. /\ request' \in [Requests -> Request]
        /\ \A r \in Requests : \/ request'[r].step = "idle"
                               \/ request'[r] = request[r] /\ request[r].process # p
    BY <1>4, IdleIsRequest DEF Restart, TypeOK
  <2>2. guard' \in [Processes -> SUBSET Submissions]
    BY <1>4 DEF Restart, TypeOK
  <2>3. TypeOK'
    BY <1>4, <2>1, <2>2 DEF Restart, TypeOK
  <2>4. GuardIsEarned'
    <3>1. ASSUME NEW z \in Processes, NEW j \in guard'[z] \ downloaded', ~Unusable(j)'
          PROVE  \E t \in Handling(j)' : request'[t].process = z
      <4>1. z # p /\ j \in guard[z] \ downloaded
        BY <1>4, <3>1 DEF Restart, TypeOK
      <4>2. PICK t \in Handling(j) : request[t].process = z
        BY <1>4, <3>1, <4>1 DEF GuardIsEarned, Restart, Unusable
      <4>3. request'[t] = request[t]
        BY <1>4, <4>1, <4>2 DEF Restart, Handling
      <4> QED
        BY <4>2, <4>3 DEF Handling
    <3> QED
      BY <3>1 DEF GuardIsEarned
  <2>5. SendsReviewed' /\ WorksOnSubmission' /\ CancelsArchived' /\ HandlersHaveProcess'
    BY <1>4, <2>1 DEF Restart, SendsReviewed, WorksOnSubmission, CancelsArchived,
       HandlersHaveProcess
  <2>6. RecordsAreOfSent' /\ SentWasReviewed' /\ CancelledIsClosed' /\ AnswersAreEarned'
    BY <1>4, <1>e DEF Restart, RecordsAreOfSent, SentWasReviewed, CancelledIsClosed
  <2> QED
    BY <2>3, <2>4, <2>5, <2>6
<1>5. ASSUME NEW p \in Processes, NEW i \in Submissions, Duplicate(i, p)
      PROVE  ESignInv'
  <2>1. TypeOK'
    BY <1>5 DEF Duplicate, Answers, TypeOK
  <2>2. HasEvent(i)
    BY <1>5 DEF Duplicate, Event, HasEvent
  <2>3. i \in hasty' \/ i \in downloaded \/ Unusable(i)
    BY <1>5 DEF Duplicate, GuardIsEarned
  <2>4. AnswersAreEarned'
    BY <1>5, <2>2, <2>3
    DEF Duplicate, Answers, AnswersAreEarned, AnsweredIsDownloaded, HasEvent, Unusable
  <2>5. GuardIsEarned'
    BY <1>5, <1>d, HandlingGoesOn DEF Duplicate
  <2> QED
    BY <1>5, <2>1, <2>4, <2>5 DEF Duplicate, SendsReviewed, WorksOnSubmission,
       RecordsAreOfSent, CancelsArchived, HandlersHaveProcess, SentWasReviewed,
       CancelledIsClosed
<1>6. ASSUME NEW r \in Requests, NEW p \in Processes, Confirm(r, p)
      PROVE  ESignInv'
  <2>1. Prepared \in reviewed /\ Prepared \in Contents /\ request[r].step = "idle"
    BY <1>6, <1>c DEF Confirm, MaySend
  <2>2. request' = [request EXCEPT ![r] = Sending(request[r], p, Prepared)]
    BY <1>6 DEF Confirm, Sending
  <2>3. PICK q : q = Sending(request[r], p, Prepared)
    OBVIOUS
  <2>4. q \in Request /\ q.step = "send" /\ q.content = Prepared
    BY <2>1, <2>3, <1>a, SendingFits
  <2>5. Turns(r, q)
    BY <2>2, <2>3, <2>4, TurnsInto
  <2>6. TypeOK'
    BY <1>6, <2>5 DEF Confirm, Turns, TypeOK
  <2>7. GuardIsEarned'
    BY <1>6, <2>1, <2>5, <1>d, HandlingGoesOn DEF Confirm, Turns
  <2>8. SendsReviewed' /\ WorksOnSubmission' /\ CancelsArchived' /\ HandlersHaveProcess'
    BY <1>6, <2>1, <2>4, <2>5 DEF Confirm, Turns, SendsReviewed, WorksOnSubmission,
       CancelsArchived, HandlersHaveProcess
  <2>9. RecordsAreOfSent' /\ SentWasReviewed' /\ CancelledIsClosed' /\ AnswersAreEarned'
    BY <1>6, <1>e DEF Confirm, RecordsAreOfSent, SentWasReviewed, CancelledIsClosed
  <2> QED
    BY <2>6, <2>7, <2>8, <2>9
<1>7. ASSUME NEW r \in Requests, NEW p \in Processes, AskCancel(r, p)
      PROVE  ESignInv'
  <2>1. PICK i \in Submissions :
            /\ record[i] = "pending"
            /\ request' = [request EXCEPT ![r] = Asking(request[r], p, i)]
    BY <1>7 DEF AskCancel, Asking
  <2>2. PICK q : q = Asking(request[r], p, i)
    OBVIOUS
  <2>3. q \in Request /\ q.step = "archive" /\ q.submission = i
    BY <2>2, <1>a, AskingFits
  <2>4. Turns(r, q) /\ request[r].step = "idle"
    BY <1>7, <2>1, <2>2, <2>3, TurnsInto DEF AskCancel
  <2>5. submission[i] # None
    BY <2>1, NoneIsNoStatus DEF RecordsAreOfSent
  <2>6. TypeOK'
    BY <1>7, <2>4 DEF AskCancel, Turns, TypeOK
  <2>7. GuardIsEarned'
    BY <1>7, <2>4, <1>d, HandlingGoesOn DEF AskCancel, Turns
  <2>8. SendsReviewed' /\ WorksOnSubmission' /\ CancelsArchived' /\ HandlersHaveProcess'
    BY <1>7, <2>3, <2>4, <2>5 DEF AskCancel, Turns, SendsReviewed, WorksOnSubmission,
       CancelsArchived, HandlersHaveProcess
  <2>9. RecordsAreOfSent' /\ SentWasReviewed' /\ CancelledIsClosed' /\ AnswersAreEarned'
    BY <1>7, <1>e DEF AskCancel, RecordsAreOfSent, SentWasReviewed, CancelledIsClosed
  <2> QED
    BY <2>6, <2>7, <2>8, <2>9
<1>8. ASSUME NEW r \in Requests, NEW p \in Processes, NEW i \in Submissions,
             Deliver(r, i, p)
      PROVE  ESignInv'
  <2>1. PICK q : q = Downloading(request[r], p, i)
    OBVIOUS
  <2>2. q \in Request /\ q.step = "download" /\ q.submission = i /\ q.process = p
    BY <2>1, <1>a, DownloadingFits
  <2>3. request' = [request EXCEPT ![r] = q]
    BY <1>8, <2>1 DEF Deliver, Downloading
  <2>4. Turns(r, q) /\ request[r].step = "idle"
    BY <1>8, <2>2, <2>3, TurnsInto DEF Deliver
  <2>5. /\ record' \in [Submissions -> {None, "pending", "completed", "cancelled"}]
        /\ \A j \in Submissions : \/ record'[j] = record[j]
                                  \/ j = i /\ record'[j] = "completed"
    BY <1>8, SavedRecord DEF Deliver
  <2>6. submission[i] # None
    BY <1>8 DEF Deliver, Event
  <2>7. guard' \in [Processes -> SUBSET Submissions]
    BY <1>8 DEF Deliver, Claimed, TypeOK
  <2>8. TypeOK'
    BY <1>8, <2>4, <2>5, <2>7 DEF Deliver, Turns, TypeOK
  <2>9. GuardIsEarned'
    <3>1. ASSUME NEW z \in Processes, NEW j \in guard'[z] \ downloaded', ~Unusable(j)'
          PROVE  \E t \in Handling(j)' : request'[t].process = z
      <4>1. CASE z = p /\ j = i
        BY <2>2, <2>4, <4>1 DEF Turns, Handling
      <4>2. CASE ~(z = p /\ j = i)
        <5>1. j \in guard[z] \ downloaded
          BY <1>8, <3>1, <4>2 DEF Deliver, Claimed, TypeOK
        <5>2. PICK t \in Handling(j) : request[t].process = z
          BY <1>8, <3>1, <5>1 DEF Deliver, GuardIsEarned, Unusable
        <5> QED
          BY <2>4, <5>2 DEF Turns, Handling
      <4> QED
        BY <4>1, <4>2
    <3> QED
      BY <3>1 DEF GuardIsEarned
  <2>10. SendsReviewed' /\ WorksOnSubmission' /\ CancelsArchived' /\ HandlersHaveProcess'
    BY <1>8, <2>2, <2>4, <2>6 DEF Deliver, Turns, SendsReviewed, WorksOnSubmission,
       CancelsArchived, HandlersHaveProcess
  <2>11. RecordsAreOfSent' /\ SentWasReviewed' /\ CancelledIsClosed' /\ AnswersAreEarned'
    BY <1>8, <1>e, <2>5, <2>6
    DEF Deliver, RecordsAreOfSent, SentWasReviewed, CancelledIsClosed
  <2> QED
    BY <2>8, <2>9, <2>10, <2>11
<1>9. ASSUME NEW r \in Requests, SendForSignature(r)
      PROVE  ESignInv'
  <2>1. CASE Ends(r) /\ UNCHANGED submission
    <3>1. Turns(r, IdleRequest) /\ request[r].step = "send"
      BY <1>9, <2>1, TurnsInto, IdleIsRequest DEF SendForSignature, Ends
    <3>2. TypeOK'
      BY <1>9, <2>1, <3>1 DEF SendForSignature, Turns, TypeOK
    <3>3. GuardIsEarned'
      BY <1>9, <3>1, <1>d, HandlingGoesOn DEF SendForSignature, Turns
    <3>4. SendsReviewed' /\ WorksOnSubmission' /\ CancelsArchived' /\ HandlersHaveProcess'
      BY <1>9, <2>1, <3>1, IdleIsRequest DEF SendForSignature, Turns, SendsReviewed,
         WorksOnSubmission, CancelsArchived, HandlersHaveProcess
    <3> QED
      BY <1>9, <2>1, <3>2, <3>3, <3>4, <1>e DEF SendForSignature, RecordsAreOfSent,
         SentWasReviewed, CancelledIsClosed
  <2>2. ASSUME NEW i \in Submissions, submission[i] = None,
               submission' = [submission EXCEPT
                     ![i] = [content |-> request[r].content, event |-> "none",
                             archived |-> FALSE]],
               \/ request' = [request EXCEPT ![r].step = "save", ![r].submission = i]
               \/ Ends(r)
        PROVE  ESignInv'
    <3>1. PICK sent : sent = NewlySent(request[r].content)
      OBVIOUS
    <3>2. /\ request[r].step = "send"
          /\ request[r].content \in reviewed /\ request[r].content \in Contents
      BY <1>9, <1>c DEF SendForSignature, SendsReviewed
    <3>3. sent \in Submission /\ sent # None /\ sent.content = request[r].content
      BY <3>1, <3>2, SentHasContent
    <3>4. submission' = [submission EXCEPT ![i] = sent]
      BY <2>2, <3>1 DEF NewlySent
    <3>5. PICK q : \/ q = IdleRequest /\ Ends(r)
                   \/ q = Saving(request[r], i) /\ request' = [request EXCEPT ![r] = q]
      BY <2>2 DEF Saving
    <3>6. /\ q \in Request
          /\ q.step = "idle" \/ (q.step = "save" /\ q.submission = i)
      BY <3>5, <1>a, IdleIsRequest, SavingFits
    <3>7. Turns(r, q)
      BY <3>5, <3>6, TurnsInto DEF Ends
    <3>8. \A j \in Submissions : submission'[j] = IF j = i THEN sent ELSE submission[j]
      BY <3>4 DEF TypeOK
    <3>9. TypeOK'
      BY <1>9, <3>3, <3>4, <3>7 DEF SendForSignature, Turns, TypeOK
    <3>10. GuardIsEarned'
      BY <1>9, <3>2, <3>7, <1>d, HandlingGoesOn DEF SendForSignature, Turns
    <3>11. WorksOnSubmission' /\ HandlersHaveProcess' /\ SendsReviewed'
      BY <1>9, <3>3, <3>6, <3>7, <3>8 DEF SendForSignature, Turns, WorksOnSubmission,
         HandlersHaveProcess, SendsReviewed
    <3>12. CancelsArchived'
      <4>1. \A t \in Requests : request[t].step = "cancel" => request[t].submission # i
        BY <2>2 DEF WorksOnSubmission
      <4>2. \A t \in Requests : request'[t].step = "cancel" =>
                request'[t] = request[t]
        BY <3>6, <3>7 DEF Turns
      <4>3. ASSUME NEW t \in Requests, request'[t].step = "cancel"
            PROVE  submission'[request'[t].submission].archived
        <5>1. request[t].submission \in Submissions
          BY <4>2, <4>3 DEF WorksOnSubmission
        <5> QED
          BY <3>8, <4>1, <4>2, <4>3, <5>1 DEF CancelsArchived
      <4> QED
        BY <4>3 DEF CancelsArchived
    <3>13. RecordsAreOfSent' /\ CancelledIsClosed' /\ AnswersAreEarned'
      BY <1>9, <2>2, <3>3, <3>8, NoneIsNoStatus, <1>e
      DEF SendForSignature, RecordsAreOfSent, CancelledIsClosed
    <3>14. SentWasReviewed'
      BY <1>9, <1>c, <3>2, <3>3, <3>8 DEF SendForSignature, SentWasReviewed
    <3> QED
      BY <3>9, <3>10, <3>11, <3>12, <3>13, <3>14
  <2> QED
    BY <1>9, <2>1, <2>2 DEF SendForSignature
<1>10. ASSUME NEW r \in Requests, SaveRecord(r) \/ MarkCancelled(r)
       PROVE  ESignInv'
  <2>1. PICK i \in Submissions : i = request[r].submission /\ submission[i] # None
    BY <1>10 DEF SaveRecord, MarkCancelled, WorksOnSubmission
  <2>2. /\ Turns(r, IdleRequest) /\ request[r].step \in {"save", "cancel"}
        /\ UNCHANGED <<deal, reviewed, submission, guard, answered, downloaded, hasty>>
    BY <1>10, TurnsInto, IdleIsRequest DEF SaveRecord, MarkCancelled, Ends
  <2>3. /\ record' \in [Submissions -> {None, "pending", "completed", "cancelled"}]
        /\ \A j \in Submissions : \/ record'[j] = record[j]
                                  \/ j = i /\ record'[j] = "pending"
                                  \/ j = i /\ record'[j] = "cancelled" /\ submission[i].archived
    <3>1. CASE SaveRecord(r)
      BY <2>1, <3>1, SavedRecord DEF SaveRecord
    <3>2. CASE MarkCancelled(r)
      <4>1. submission[i].archived
        BY <2>1, <3>2 DEF MarkCancelled, CancelsArchived
      <4> QED
        BY <2>1, <3>2, <4>1, SavedRecord DEF MarkCancelled
    <3> QED
      BY <1>10, <3>1, <3>2
  <2>4. TypeOK'
    BY <2>2, <2>3 DEF Turns, TypeOK
  <2>5. GuardIsEarned'
    BY <1>d, <2>2, HandlingGoesOn DEF Turns
  <2>6. SendsReviewed' /\ WorksOnSubmission' /\ CancelsArchived' /\ HandlersHaveProcess'
    BY <2>2, IdleIsRequest
    DEF Turns, SendsReviewed, WorksOnSubmission, CancelsArchived, HandlersHaveProcess
  <2>7. RecordsAreOfSent' /\ CancelledIsClosed' /\ SentWasReviewed' /\ AnswersAreEarned'
    BY <2>1, <2>2, <2>3, <1>e DEF RecordsAreOfSent, CancelledIsClosed, SentWasReviewed
  <2> QED
    BY <2>4, <2>5, <2>6, <2>7
<1>11. ASSUME NEW r \in Requests, Archive(r)
      PROVE  ESignInv'
  <2>1. PICK i \in Submissions : i = request[r].submission /\ submission[i] # None
    BY <1>11 DEF Archive, WorksOnSubmission
  <2>2. CASE Ends(r) /\ UNCHANGED submission
    <3>1. Turns(r, IdleRequest) /\ request[r].step = "archive"
      BY <1>11, <2>2, TurnsInto, IdleIsRequest DEF Archive, Ends
    <3>2. TypeOK'
      BY <1>11, <2>2, <3>1 DEF Archive, Turns, TypeOK
    <3>3. GuardIsEarned'
      BY <1>11, <3>1, <1>d, HandlingGoesOn DEF Archive, Turns
    <3>4. SendsReviewed' /\ WorksOnSubmission' /\ CancelsArchived' /\ HandlersHaveProcess'
      BY <1>11, <2>2, <3>1, IdleIsRequest DEF Archive, Turns, SendsReviewed,
         WorksOnSubmission, CancelsArchived, HandlersHaveProcess
    <3> QED
      BY <1>11, <2>2, <3>2, <3>3, <3>4, <1>e DEF Archive, RecordsAreOfSent,
         SentWasReviewed, CancelledIsClosed
  <2>3. CASE submission' = [submission EXCEPT ![i].archived = TRUE]
             /\ (GoTo(r, "cancel") \/ Ends(r))
    <3>1. PICK archived : archived = Archived(submission[i])
      OBVIOUS
    <3>2. submission' = [submission EXCEPT ![i] = archived]
      BY <2>3, <3>1 DEF Archived
    <3>3. /\ archived \in Submission /\ archived # None /\ archived.archived
          /\ archived.content = submission[i].content
      BY <2>1, <3>1, <1>b, StaysSent
    <3>4. PICK q : \/ q = IdleRequest /\ Ends(r)
                   \/ /\ q = GoneTo(request[r], "cancel")
                      /\ request' = [request EXCEPT ![r] = q]
      BY <2>3 DEF GoTo, GoneTo
    <3>5. /\ q \in Request
          /\ q.step = "idle" \/ (q.step = "cancel" /\ q.submission = i)
      BY <2>1, <3>4, <1>a, IdleIsRequest, GoneToFits
    <3>6. Turns(r, q)
      BY <3>4, <3>5, TurnsInto DEF Ends
    <3>7. \A j \in Submissions : submission'[j] = IF j = i THEN archived ELSE submission[j]
      BY <3>2 DEF TypeOK
    <3>8. TypeOK'
      BY <1>11, <3>2, <3>3, <3>6 DEF Archive, Turns, TypeOK
    <3>9. GuardIsEarned'
      BY <1>11, <3>6, <1>d, HandlingGoesOn DEF Archive, Turns
    <3>10. WorksOnSubmission' /\ HandlersHaveProcess' /\ SendsReviewed'
      BY <1>11, <3>3, <3>5, <3>6, <3>7 DEF Archive, Turns, WorksOnSubmission,
         HandlersHaveProcess, SendsReviewed
    <3>11. CancelsArchived'
      BY <1>11, <3>3, <3>5, <3>6, <3>7 DEF Archive, Turns, CancelsArchived,
         WorksOnSubmission
    <3>12. RecordsAreOfSent' /\ CancelledIsClosed' /\ AnswersAreEarned'
      BY <1>11, <3>3, <3>7, <1>e DEF Archive, RecordsAreOfSent, CancelledIsClosed
    <3>13. SentWasReviewed'
      BY <1>11, <2>1, <3>3, <3>7 DEF Archive, SentWasReviewed
    <3> QED
      BY <3>8, <3>9, <3>10, <3>11, <3>12, <3>13
  <2> QED
    BY <1>11, <2>1, <2>2, <2>3 DEF Archive, ArchiveFails
<1>12. ASSUME NEW r \in Requests, Download(r)
       PROVE  ESignInv'
  <2>1. /\ request[r].step = "download" /\ request[r].process \in Processes
        /\ request[r].submission \in Submissions
    BY <1>12 DEF Download, HandlersHaveProcess, WorksOnSubmission
  <2>2. CASE GoTo(r, "store") /\ UNCHANGED guard
    <3>1. PICK q : q = GoneTo(request[r], "store")
      OBVIOUS
    <3>2. /\ q \in Request /\ q.step = "store"
          /\ q.submission = request[r].submission /\ q.process = request[r].process
      BY <3>1, <1>a, GoneToFits
    <3>3. Turns(r, q)
      BY <2>2, <3>1, <3>2, TurnsInto DEF GoTo, GoneTo
    <3>4. TypeOK'
      BY <1>12, <2>2, <3>3 DEF Download, Turns, TypeOK
    <3>5. GuardIsEarned'
      BY <1>12, <2>1, <2>2, <3>2, <3>3, <1>d, HandlingGoesOn DEF Download, Turns
    <3>6. SendsReviewed' /\ WorksOnSubmission' /\ CancelsArchived' /\ HandlersHaveProcess'
      BY <1>12, <2>1, <3>2, <3>3 DEF Download, Turns, SendsReviewed, WorksOnSubmission,
         CancelsArchived, HandlersHaveProcess
    <3> QED
      BY <1>12, <3>4, <3>5, <3>6, <1>e DEF Download, RecordsAreOfSent, SentWasReviewed,
         CancelledIsClosed
  <2>3. CASE Ends(r) /\ guard' = Released(SubmissionOf(r), request[r].process)
    <3>1. Turns(r, IdleRequest)
      BY <2>3, TurnsInto, IdleIsRequest DEF Ends
    <3>2. TypeOK'
      BY <1>12, <2>3, <3>1 DEF Download, Released, Turns, TypeOK
    <3>3. GuardIsEarned'
      BY <1>12, <2>1, <2>3, <3>1, ReleasedIsEarned DEF Download
    <3>4. SendsReviewed' /\ WorksOnSubmission' /\ CancelsArchived' /\ HandlersHaveProcess'
      BY <1>12, <3>1, IdleIsRequest DEF Download, Turns, SendsReviewed, WorksOnSubmission,
         CancelsArchived, HandlersHaveProcess
    <3> QED
      BY <1>12, <3>2, <3>3, <3>4, <1>e DEF Download, RecordsAreOfSent, SentWasReviewed,
         CancelledIsClosed
  <2> QED
    BY <1>12, <2>2, <2>3 DEF Download
<1>13. ASSUME NEW r \in Requests, Store(r)
       PROVE  ESignInv'
  <2>1. PICK i \in Submissions : i = request[r].submission
    BY <1>13 DEF Store, WorksOnSubmission
  <2>2. /\ request[r].step = "store" /\ request[r].process \in Processes
        /\ Turns(r, IdleRequest)
    BY <1>13, TurnsInto, IdleIsRequest DEF Store, Ends, HandlersHaveProcess
  <2>3. \/ downloaded' = downloaded \cup {i} /\ Answers(i) /\ UNCHANGED guard
        \/ guard' = Released(i, request[r].process) /\ UNCHANGED <<downloaded, answered>>
    BY <1>13, <2>1 DEF Store
  <2>4. TypeOK'
    BY <1>13, <2>2, <2>3 DEF Store, Released, Answers, Turns, TypeOK
  <2>5. GuardIsEarned'
    <3>1. CASE downloaded' = downloaded \cup {i} /\ UNCHANGED guard
      BY <1>13, <2>1, <2>2, <3>1 DEF Store, Turns, GuardIsEarned, Handling, Unusable
    <3>2. CASE guard' = Released(i, request[r].process) /\ UNCHANGED downloaded
      BY <1>13, <2>1, <2>2, <3>2, ReleasedIsEarned DEF Store
    <3> QED
      BY <2>3, <3>1, <3>2
  <2>6. SendsReviewed' /\ WorksOnSubmission' /\ CancelsArchived' /\ HandlersHaveProcess'
    BY <1>13, <2>2, IdleIsRequest DEF Store, Turns, SendsReviewed, WorksOnSubmission,
       CancelsArchived, HandlersHaveProcess
  <2>7. AnswersAreEarned'
    <3>1. CASE downloaded' = downloaded \cup {i} /\ Answers(i)
      BY <1>13, <3>1
      DEF Store, Answers, AnswersAreEarned, AnsweredIsDownloaded, HasEvent
    <3> QED
      BY <1>13, <1>e, <2>3, <3>1 DEF Store
  <2> QED
    BY <1>13, <2>4, <2>5, <2>6, <2>7 DEF Store, RecordsAreOfSent, SentWasReviewed,
       CancelledIsClosed
<1>14. ASSUME NEW p \in Processes, NEW i \in Submissions, Ignore(i, p)
       PROVE  ESignInv'
  <2>1. TypeOK'
    BY <1>14 DEF Ignore, Claimed, Answers, TypeOK
  <2>2. HasEvent(i) /\ Unusable(i)
    BY <1>14 DEF Ignore, Event, HasEvent, Unusable
  <2>3. AnswersAreEarned'
    BY <1>14, <2>2
    DEF Ignore, Answers, AnswersAreEarned, AnsweredIsDownloaded, HasEvent, Unusable
  <2>4. GuardIsEarned'
    <3>1. \A z \in Processes : \A j \in guard'[z] : j \in guard[z] \/ j = i
      BY <1>14 DEF Ignore, Claimed, TypeOK
    <3> QED
      BY <1>14, <2>2, <3>1 DEF Ignore, GuardIsEarned, Handling, Unusable
  <2> QED
    BY <1>14, <2>1, <2>3, <2>4 DEF Ignore, SendsReviewed, WorksOnSubmission,
       RecordsAreOfSent, CancelsArchived, HandlersHaveProcess, SentWasReviewed,
       CancelledIsClosed
<1>15. CASE UNCHANGED vars
  <2>1. UNCHANGED <<deal, reviewed, submission, record, guard, request, answered,
                    downloaded, hasty>>
    BY <1>15 DEF vars
  <2>2. GuardIsEarned'
    BY <1>d, <2>1, HandlingGoesOn
  <2> QED
    BY <1>e, <2>1, <2>2 DEF TypeOK, SendsReviewed, WorksOnSubmission, RecordsAreOfSent,
       CancelsArchived, HandlersHaveProcess, SentWasReviewed, CancelledIsClosed
<1> QED
  BY <1>1, <1>2, <1>3, <1>4, <1>5, <1>6, <1>7, <1>8, <1>9, <1>10, <1>11, <1>12, <1>13,
     <1>14, <1>15 DEF Next

\* The invariant holds of every state.
LEMMA Invariance == Spec => []ESignInv
  BY Initially, StepKeepsInv, PTL DEF Spec

--------------------------------------------------------------------------------
(* Theorems.                                                                  *)

\* No step of a request, a delivery or a restart takes the deal, a submission,
\* a record or a request out of its type.
THEOREM TypeCorrect == Spec => []TypeOK
  BY Invariance, PTL DEF ESignInv

\* _send_reviewed_signing: whatever DocuSeal holds was previewed by staff and
\* was ready, for any number of requests and of edits between the preview, the
\* confirmation and the call.
THEOREM OnlyReviewedIsSent == Spec => []SentWasReviewed
  BY Invariance, PTL DEF ESignInv

\* The cancel route marks a record only after DocuSeal has archived the
\* submission, and nothing opens it again.
THEOREM CancelledStaysClosed == Spec => []CancelledIsClosed
  BY Invariance, PTL DEF ESignInv

\* The webhook with the ReplayGuard: a complete event DocuSeal stops sending has
\* its document downloaded, for any number of processes, deliveries, failures and
\* restarts, unless a delivery was called a duplicate during an attempt.  Of an
\* event the webhook cannot use, and of the copies of a document, it says nothing.
THEOREM NoEventIsLost == Spec => []AnsweredIsDownloaded
  BY Invariance, PTL DEF ESignInv, AnswersAreEarned
================================================================================
