--------------------------------- MODULE ESign ---------------------------------
(******************************************************************************)
(* Sending a deal's document for signature and receiving it back: the         *)
(* preview, send, cancel and webhook routes of main.py over esign_review.py,  *)
(* docuseal_service.py and the ReplayGuard of tools/webhook_replay.py.        *)
(*                                                                            *)
(* Each handler gives up its thread while it waits for DocuSeal, so other     *)
(* requests run between its steps, in its process or in another.  DocuSeal    *)
(* sends the event of a signed submission until an answer says it arrived,    *)
(* perhaps while an earlier attempt is still at work.                         *)
(*                                                                            *)
(* Abstractions.  What a document would print, and to whom it would go, is    *)
(* one value of the deal; its review token is that value.  A submission       *)
(* sends one event, complete or unusable to the webhook; events of another    *)
(* type are left out.  ESIGN_AUTO_SEND is off, as by default.  The webhook    *)
(* has its secret, and the event is younger than the replay window.  A mark   *)
(* reads and writes its record in one step: what it reads is only whether the *)
(* record is there.  The copies of a downloaded document, and the one each    *)
(* process keeps of the records for when Firestore does not answer, are left  *)
(* out.                                                                       *)
(*                                                                            *)
(* A definition named ...Slip is a plausible mistake in the one below it.     *)
(******************************************************************************)
EXTENDS Naturals, FiniteSets

CONSTANTS
    Contents,     \* what the deal's document can say
    Ready,        \* contents without problems
    Submissions,  \* DocuSeal submissions, in any order
    Requests,     \* requests of staff and of DocuSeal
    Processes,    \* processes of the service
    None

ASSUME ReadyContents == Ready \subseteq Contents /\ None \notin Contents
ASSUME NoneIsNoStatus == None \notin {"pending", "completed", "cancelled"}
ASSUME NoneIsNoRequestPart == None \notin Submissions \cup Processes

VARIABLES
    deal,        \* the content of the deal as it is now
    reviewed,    \* contents staff have previewed, with a token
    submission,  \* at DocuSeal (external)
    record,      \* esign_requests: status of each submission
    guard,       \* _seen of the ReplayGuard of each process
    request,     \* the requests
    answered,    \* events DocuSeal has an answer for (external)
    downloaded,  \* signed documents written to a file in /tmp
    hasty        \* history: events called duplicates while an attempt ran

vars == <<deal, reviewed, submission, record, guard, request, answered, downloaded,
          hasty>>

\* The event of a signed submission is unusable if it names no document or no
\* deal, or a document at an address that is not allowed.  A submission may be
\* archived after it was signed.
Submission == [content : Contents, event : {"none", "complete", "unusable"},
               archived : BOOLEAN]
Request == [step : {"idle", "send", "save", "archive", "cancel", "download", "store"},
            process : Processes \cup {None}, submission : Submissions \cup {None},
            content : Contents \cup {None}]
IdleRequest == [step |-> "idle", process |-> None, submission |-> None,
                content |-> None]

ASSUME NoneIsNoSubmission == None \notin Submission

TypeOK ==
    /\ deal \in Contents
    /\ reviewed \subseteq Ready
    /\ submission \in [Submissions -> Submission \cup {None}]
    /\ record \in [Submissions -> {None, "pending", "completed", "cancelled"}]
    /\ guard \in [Processes -> SUBSET Submissions]
    /\ request \in [Requests -> Request]
    /\ answered \subseteq Submissions /\ downloaded \subseteq Submissions
    /\ hasty \subseteq Submissions

Init ==
    /\ deal \in Contents
    /\ reviewed = {}
    /\ submission = [i \in Submissions |-> None]
    /\ record = [i \in Submissions |-> None]
    /\ guard = [p \in Processes |-> {}]
    /\ request = [r \in Requests |-> IdleRequest]
    /\ answered = {} /\ downloaded = {} /\ hasty = {}

--------------------------------------------------------------------------------

At(r, step) == request[r].step = step
GoTo(r, step) == request' = [request EXCEPT ![r].step = step]
Ends(r) == request' = [request EXCEPT ![r] = IdleRequest]
SubmissionOf(r) == request[r].submission

\* _save_esign_request swallows the errors of Firestore.
Save(i, status) == record' \in {record, [record EXCEPT ![i] = status]}

\* _mark_esign_request: only a record that is there.
Mark(i, status) == IF record[i] = None THEN UNCHANGED record ELSE Save(i, status)

--------------------------------------------------------------------------------
(* Review and sending.                                                        *)

EditDeal ==
    /\ deal' \in Contents
    /\ UNCHANGED <<reviewed, submission, record, guard, request, answered, downloaded,
                   hasty>>

\* prepare_signing_packet: there is a packet, and a token, only for a deal
\* without problems.
Prepared == IF deal \in Ready THEN deal ELSE None

\* The preview, or the 409 that shows it again because the token was stale.
Preview ==
    /\ Prepared # None
    /\ reviewed' = reviewed \cup {Prepared}
    /\ UNCHANGED <<deal, submission, record, guard, request, answered, downloaded, hasty>>

\* The token of the review is not compared.
MaySendStaleSlip(token) == Prepared # None

\* A packet that is not ready is sent.
MaySendUnreadySlip(token) == token = Prepared

MaySend(token) == Prepared # None /\ token = Prepared

\* _send_reviewed_signing, with the token of a preview or without.
Confirm(r, p) ==
    /\ At(r, "idle")
    /\ \E token \in reviewed \cup {None} : MaySend(token)
    /\ request' = [request EXCEPT ![r].step = "send", ![r].process = p,
                                  ![r].content = Prepared]
    /\ UNCHANGED <<deal, reviewed, submission, record, guard, answered, downloaded, hasty>>

\* docuseal_send_for_signature. A failure may be an answer that was lost.
SendForSignature(r) ==
    /\ At(r, "send")
    /\ \/ \E i \in Submissions :
              /\ submission[i] = None
              /\ submission' = [submission EXCEPT
                     ![i] = [content |-> request[r].content, event |-> "none",
                             archived |-> FALSE]]
              /\ \/ request' = [request EXCEPT ![r].step = "save", ![r].submission = i]
                 \/ Ends(r)
       \/ Ends(r) /\ UNCHANGED submission
    /\ UNCHANGED <<deal, reviewed, record, guard, answered, downloaded, hasty>>

SaveRecord(r) ==
    /\ At(r, "save")
    /\ Save(SubmissionOf(r), "pending")
    /\ Ends(r)
    /\ UNCHANGED <<deal, reviewed, submission, guard, answered, downloaded, hasty>>

--------------------------------------------------------------------------------
(* Cancelling.                                                                *)

AskCancel(r, p) ==
    /\ At(r, "idle")
    /\ \E i \in Submissions :
           /\ record[i] = "pending"
           /\ request' = [request EXCEPT ![r].step = "archive", ![r].process = p,
                                         ![r].submission = i]
    /\ UNCHANGED <<deal, reviewed, submission, record, guard, answered, downloaded, hasty>>

\* The record is marked whatever DocuSeal answers.
ArchiveFailsSlip(r) == GoTo(r, "cancel")

\* "DocuSeal didn't cancel the request."
ArchiveFails(r) == Ends(r)

Archive(r) ==
    /\ At(r, "archive")
    /\ \/ /\ submission' = [submission EXCEPT ![SubmissionOf(r)].archived = TRUE]
          /\ GoTo(r, "cancel") \/ ArchiveFails(r)
       \/ ArchiveFails(r) /\ UNCHANGED submission
    /\ UNCHANGED <<deal, reviewed, record, guard, answered, downloaded, hasty>>

MarkCancelled(r) ==
    /\ At(r, "cancel")
    /\ Mark(SubmissionOf(r), "cancelled")
    /\ Ends(r)
    /\ UNCHANGED <<deal, reviewed, submission, guard, answered, downloaded, hasty>>

--------------------------------------------------------------------------------
(* Signing and the webhook.                                                   *)

\* The buyer signs what is still open.
BuyerSigns(i) ==
    /\ submission[i] # None /\ submission[i].event = "none" /\ ~submission[i].archived
    /\ \E event \in {"complete", "unusable"} :
           submission' = [submission EXCEPT ![i].event = event]
    /\ UNCHANGED <<deal, reviewed, record, guard, request, answered, downloaded, hasty>>

\* DocuSeal hears the answer, or sends the event again.
Answers(i) == answered' \in {answered, answered \cup {i}}

Handling(i) == {r \in Requests : request[r].step \in {"download", "store"}
                                 /\ SubmissionOf(r) = i}

Event(i) == submission[i] # None /\ submission[i].event # "none" /\ i \notin answered

\* A second delivery of what the guard of the process has seen.
Duplicate(i, p) ==
    /\ Event(i) /\ i \in guard[p]
    /\ Answers(i)
    /\ hasty' = IF \E r \in Handling(i) : request[r].process = p
                THEN hasty \cup {i} ELSE hasty
    /\ UNCHANGED <<deal, reviewed, submission, record, guard, request, downloaded>>

Claimed(i, p) == [guard EXCEPT ![p] = @ \cup {i}]

\* claim, and an unusable event is answered with 200 and stays claimed.
Ignore(i, p) ==
    /\ Event(i) /\ i \notin guard[p] /\ submission[i].event = "unusable"
    /\ guard' = Claimed(i, p)
    /\ Answers(i)
    /\ UNCHANGED <<deal, reviewed, submission, record, request, downloaded, hasty>>

\* claim, and the record of the submission is marked.  An event that does not
\* name its submission marks nothing, like a mark that fails.
Deliver(r, i, p) ==
    /\ At(r, "idle")
    /\ Event(i) /\ i \notin guard[p] /\ submission[i].event = "complete"
    /\ guard' = Claimed(i, p)
    /\ Mark(i, "completed")
    /\ request' = [request EXCEPT ![r].step = "download", ![r].process = p,
                                  ![r].submission = i]
    /\ UNCHANGED <<deal, reviewed, submission, answered, downloaded, hasty>>

\* The event stays in the guard.
ReleasedSlip(i, p) == guard

\* release: "Let DocuSeal's retry of this same event be processed."
Released(i, p) == [guard EXCEPT ![p] = @ \ {i}]

Download(r) ==
    /\ At(r, "download")
    /\ \/ GoTo(r, "store") /\ UNCHANGED guard
       \/ Ends(r) /\ guard' = Released(SubmissionOf(r), request[r].process)
    /\ UNCHANGED <<deal, reviewed, submission, record, answered, downloaded, hasty>>

\* The file is written and the answer is 200 whatever becomes of the copies in
\* GCS, in the deal's notes and in Drive; only the file itself may fail.
Store(r) ==
    /\ At(r, "store")
    /\ LET i == SubmissionOf(r) IN
       \/ downloaded' = downloaded \cup {i} /\ Answers(i) /\ UNCHANGED guard
       \/ guard' = Released(i, request[r].process) /\ UNCHANGED <<downloaded, answered>>
    /\ Ends(r)
    /\ UNCHANGED <<deal, reviewed, submission, record, hasty>>

--------------------------------------------------------------------------------

\* A process restarts: its guard and its requests are gone.
Restart(p) ==
    /\ guard' = [guard EXCEPT ![p] = {}]
    /\ request' = [r \in Requests |-> IF request[r].process = p THEN IdleRequest
                                      ELSE request[r]]
    /\ UNCHANGED <<deal, reviewed, submission, record, answered, downloaded, hasty>>

Next ==
    \/ EditDeal \/ Preview
    \/ \E i \in Submissions : BuyerSigns(i)
    \/ \E p \in Processes :
           \/ Restart(p)
           \/ \E i \in Submissions : Duplicate(i, p) \/ Ignore(i, p)
    \/ \E r \in Requests :
           \/ \E p \in Processes :
                  \/ Confirm(r, p) \/ AskCancel(r, p)
                  \/ \E i \in Submissions : Deliver(r, i, p)
           \/ SendForSignature(r) \/ SaveRecord(r)
           \/ Archive(r) \/ MarkCancelled(r)
           \/ Download(r) \/ Store(r)

Spec == Init /\ [][Next]_vars

--------------------------------------------------------------------------------
(* Properties.                                                                *)

\* "Nothing goes to a buyer for signature unless a staff member previewed the
\* exact values and confirmed", however often the deal is edited between the
\* preview, the confirmation and the call to DocuSeal.
SentWasReviewed ==
    \A i \in Submissions : submission[i] # None =>
        submission[i].content \in reviewed \cap Ready

\* "Signing request cancelled. The buyer can no longer sign it.": a record is
\* cancelled only when the submission is closed at DocuSeal, whatever other
\* processes do to the record between the check, the call and the mark.
CancelledIsClosed ==
    \A i \in Submissions : record[i] = "cancelled" =>
        submission[i] # None /\ submission[i].archived

\* The complete event of a signed document that DocuSeal stops sending has been
\* dealt with: the document was downloaded, in one process or another, after
\* however many failures, restarts and repeated deliveries - unless a delivery
\* was called a duplicate while the first attempt was still running, and might
\* yet fail or be cut off.  What happens to the file then is not promised: the
\* copy in GCS may fail, and the answer is the same.
AnsweredIsDownloaded ==
    \A i \in answered \ hasty : submission[i].event = "complete" => i \in downloaded
================================================================================
