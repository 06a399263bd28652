----------------------------- MODULE EmailReplies ------------------------------
(******************************************************************************)
(* The reply to an inbound e-mail: the webhook that acknowledges a message    *)
(* or drafts a reply (email_inbound_webhook in main.py), the draft store      *)
(* (email_reply_drafts.py), the approve/reject card (telegram_gate.py) and    *)
(* the sender (email_reply_sender.py).                                        *)
(*                                                                            *)
(* A process of the service handles one of these requests at a time, since    *)
(* none of the code below gives up its thread; requests of other processes    *)
(* run between any two calls to Firestore or to Resend.  Deliveries and       *)
(* clicks may come any number of times.                                       *)
(*                                                                            *)
(* Abstractions.  A draft is its status and whether its body is the           *)
(* placeholder of an acknowledgement.  The flags are on: one that is off      *)
(* takes steps away.  The day does not change.  The lead of a delivery is     *)
(* in FrontDesk.                                                              *)
(*                                                                            *)
(* A definition named ...Slip is a plausible mistake in the one below it.     *)
(******************************************************************************)
EXTENDS Naturals, FiniteSets

CONSTANTS
    Messages,   \* inbound e-mails
    SafeAck,    \* those that triage labels LABEL_SAFE_ACK
    Processes,  \* processes of the service
    Cap,        \* EMAIL_REPLY_DAILY_CAP
    NoMessage

ASSUME SafeAckAreMessages == SafeAck \subseteq Messages
ASSUME NoMessageIsOutside == NoMessage \notin Messages
ASSUME CapNat == Cap \in Nat
ASSUME ProcessesFinite == IsFiniteSet(Processes)

VARIABLES
    draft,    \* email_reply_drafts, by message
    cards,    \* drafts whose card is in the chat
    counted,  \* _daily_sent, by process
    run,      \* the request each process is handling, if any
    mails,    \* replies that reached the sender of each message (external)
    garbled,  \* messages answered with the placeholder (external)
    overlap,  \* history: messages handled by two processes at once
    settled   \* history: messages decided while nobody was handling them

emailVars == <<draft, cards, counted, run, mails, garbled, overlap, settled>>

DraftStatuses == {"absent", "pending", "approved", "rejected", "sent"}
Draft == [status : DraftStatuses, placeholder : BOOLEAN]
Steps == {"idle", "ack", "ackWrite", "ackSend", "draft", "draftWrite",
          "read", "write", "reply", "replySend"}
\* A handler that moves a draft goes from "read" to "write" with the status it
\* moves it to; acks tells the auto-acknowledgement from a click.
Run == [step : Steps, message : Messages \cup {NoMessage}, to : DraftStatuses,
        acks : BOOLEAN, placeholder : BOOLEAN]
IdleRun == [step |-> "idle", message |-> NoMessage, to |-> "absent", acks |-> FALSE,
            placeholder |-> FALSE]

EmailTypeOK ==
    /\ draft \in [Messages -> Draft]
    /\ cards \subseteq Messages
    /\ counted \in [Processes -> 0..Cap]
    /\ run \in [Processes -> Run]
    /\ mails \in [Messages -> Nat]
    /\ garbled \subseteq Messages /\ overlap \subseteq Messages
    /\ settled \subseteq Messages

EmailInit ==
    /\ draft = [m \in Messages |-> [status |-> "absent", placeholder |-> FALSE]]
    /\ cards = {}
    /\ counted = [p \in Processes |-> 0]
    /\ run = [p \in Processes |-> IdleRun]
    /\ mails = [m \in Messages |-> 0]
    /\ garbled = {} /\ overlap = {} /\ settled = {}

--------------------------------------------------------------------------------

RunAt(p, step) == run[p].step = step
MessageOf(p) == run[p].message
StatusOf(p) == draft[MessageOf(p)].status
HandlersOf(m) == {p \in Processes : run[p].message = m}

RunGoes(p, step) == run' = [run EXCEPT ![p].step = step]
RunEnds(p) == run' = [run EXCEPT ![p] = IdleRun]
Move(p, status) == run' = [run EXCEPT ![p].step = "read", ![p].to = status]
Write(p, status, placeholder) ==
    draft' = [draft EXCEPT ![MessageOf(p)] = [status |-> status,
                                              placeholder |-> placeholder]]

\* Kept by every step: who has met whom, and what nobody is working on.
KeepHistory ==
    /\ overlap' = overlap \cup {m \in Messages : Cardinality((HandlersOf(m))') > 1}
    /\ settled' = settled \cup {m \in Messages :
                      /\ draft'[m].status \in {"approved", "rejected", "sent"}
                      /\ (HandlersOf(m))' = {}}

Receives(p, m, step, to) ==
    /\ RunAt(p, "idle")
    /\ run' = [run EXCEPT ![p] = [IdleRun EXCEPT !.step = step, !.message = m,
                                                !.to = to]]
    /\ UNCHANGED <<draft, cards, counted, mails, garbled>>

\* A delivery of the webhook, for the first time or again.
Deliver(p, m) ==
    /\ Receives(p, m, IF m \in SafeAck THEN "ack" ELSE "draft", "absent")
    /\ KeepHistory

\* A press of a button of the card.
Click(p, m) ==
    /\ m \in cards
    /\ \E verdict \in {"approved", "rejected"} : Receives(p, m, "read", verdict)
    /\ KeepHistory

\* A draft that exists is written over.
MayCreateSlip(p) == StatusOf(p) \in {"absent", "pending"}

\* create_draft goes on to write only if its read finds nothing.
MayCreate(p) == StatusOf(p) = "absent"

CapReached(p) == counted[p] >= Cap

\* send_auto_ack until create_draft has read. Without an acknowledgement, also
\* when the store fails, the delivery goes on to draft a reply.
AckRead(p) ==
    /\ RunAt(p, "ack")
    /\ \/ ~CapReached(p) /\ MayCreate(p) /\ RunGoes(p, "ackWrite")
       \/ RunGoes(p, "draft")
    /\ UNCHANGED <<draft, cards, counted, mails, garbled>>
    /\ KeepHistory

\* The write may be applied although it reports an error.
AckWrite(p) ==
    /\ RunAt(p, "ackWrite")
    /\ \/ Write(p, "pending", TRUE) /\ \E step \in {"ackSend", "draft"} : RunGoes(p, step)
       \/ RunGoes(p, "draft") /\ UNCHANGED draft
    /\ UNCHANGED <<cards, counted, mails, garbled>>
    /\ KeepHistory

\* The request and its answer may each be lost; what counts is the answer.
Sends(p, placeholder) ==
    /\ mails' = [mails EXCEPT ![MessageOf(p)] = @ + 1]
    /\ garbled' = IF placeholder THEN garbled \cup {MessageOf(p)} ELSE garbled
Counts(p) == counted' = [counted EXCEPT ![p] = @ + 1]

AckSend(p) ==
    /\ RunAt(p, "ackSend")
    /\ \/ /\ Sends(p, FALSE) /\ Counts(p)
          /\ run' = [run EXCEPT ![p].step = "read", ![p].to = "approved",
                                ![p].acks = TRUE]
       \/ Sends(p, FALSE) /\ RunGoes(p, "draft") /\ UNCHANGED counted
       \/ RunGoes(p, "draft") /\ UNCHANGED <<mails, garbled, counted>>
    /\ UNCHANGED <<draft, cards>>
    /\ KeepHistory

\* The draft of a substantive reply, and its card when it was created.
DraftRead(p) ==
    /\ RunAt(p, "draft")
    /\ IF MayCreate(p) THEN RunGoes(p, "draftWrite") ELSE RunEnds(p)
    /\ UNCHANGED <<draft, cards, counted, mails, garbled>>
    /\ KeepHistory

DraftWrite(p) ==
    /\ RunAt(p, "draftWrite")
    /\ Write(p, "pending", FALSE)
    /\ RunEnds(p)
    /\ cards' \in {cards, cards \cup {MessageOf(p)}}
    /\ UNCHANGED <<counted, mails, garbled>>
    /\ KeepHistory

\* Rejected drafts may be decided again.
LegalSlip(from, to) ==
    \/ from \in {"pending", "rejected"} /\ to \in {"approved", "rejected"}
    \/ from = "approved" /\ to = "sent"

\* An approved draft whose mail did not go out may be approved again.
LegalRetrySlip(from, to) ==
    \/ from \in {"pending", "approved"} /\ to \in {"approved", "rejected"}
    \/ from = "approved" /\ to = "sent"

\* _LEGAL_TRANSITIONS; nothing moves a draft to "expired".
Legal(from, to) ==
    \/ from = "pending" /\ to \in {"approved", "rejected"}
    \/ from = "approved" /\ to = "sent"

\* transition: read and check here, update in the next step.  An illegal move
\* raises and ends the request.  The read of handle_update before it asks for
\* no more than this one.
MoveRead(p) ==
    /\ RunAt(p, "read")
    /\ IF Legal(StatusOf(p), run[p].to) THEN RunGoes(p, "write") ELSE RunEnds(p)
    /\ UNCHANGED <<draft, cards, counted, mails, garbled>>
    /\ KeepHistory

MoveWrite(p) ==
    /\ RunAt(p, "write")
    /\ draft' = [draft EXCEPT ![MessageOf(p)].status = run[p].to]
    /\ \/ run[p].to = "approved" /\ run[p].acks /\ Move(p, "sent")
       \/ run[p].to = "approved" /\ ~run[p].acks /\ RunGoes(p, "reply")
       \/ run[p].to # "approved" /\ RunEnds(p)
    /\ UNCHANGED <<cards, counted, mails, garbled>>
    /\ KeepHistory

\* send_approved_reply
ReplyRead(p) ==
    /\ RunAt(p, "reply")
    /\ IF StatusOf(p) = "approved" /\ ~CapReached(p)
       THEN run' = [run EXCEPT ![p].step = "replySend",
                               ![p].placeholder = draft[MessageOf(p)].placeholder]
       ELSE RunEnds(p)
    /\ UNCHANGED <<draft, cards, counted, mails, garbled>>
    /\ KeepHistory

ReplySend(p) ==
    /\ RunAt(p, "replySend")
    /\ \/ Sends(p, run[p].placeholder) /\ Counts(p) /\ Move(p, "sent")
       \/ Sends(p, run[p].placeholder) /\ RunEnds(p) /\ UNCHANGED counted
       \/ RunEnds(p) /\ UNCHANGED <<mails, garbled, counted>>
    /\ UNCHANGED <<draft, cards>>
    /\ KeepHistory

\* An exception ends the request, or a restart the process.
Stops(p) ==
    /\ ~RunAt(p, "idle")
    /\ RunEnds(p)
    /\ counted' \in {counted, [counted EXCEPT ![p] = 0]}
    /\ UNCHANGED <<draft, cards, mails, garbled>>
    /\ KeepHistory

\* A request that was received goes on.
Goes(p) ==
    \/ AckRead(p) \/ AckWrite(p) \/ AckSend(p)
    \/ DraftRead(p) \/ DraftWrite(p)
    \/ MoveRead(p) \/ MoveWrite(p)
    \/ ReplyRead(p) \/ ReplySend(p)
    \/ Stops(p)

EmailNext ==
    \E p \in Processes :
        \/ \E m \in Messages : Deliver(p, m) \/ Click(p, m)
        \/ Goes(p)

EmailSpec == EmailInit /\ [][EmailNext]_emailVars

--------------------------------------------------------------------------------
(* Properties.                                                                *)

\* "Webhook retries can never create a second draft (and therefore can never
\* cause a second send downstream)": as the documents say it.
OneReply == \A m \in Messages : mails[m] <= 1

\* What the code keeps of it, through repeated deliveries, clicks, lost answers
\* and crashes: unless two processes worked on the message at the same time, it
\* gets one reply at most, and never the placeholder of an acknowledgement.
OneReplyUnlessOverlap ==
    \A m \in Messages \ overlap : mails[m] <= 1 /\ m \notin garbled

\* "A decided draft can never be flipped or re-sent": with the same exception, a
\* decision stands and the mail goes out before the draft says so.
DecisionStands ==
    [][\A m \in Messages \ overlap' :
           /\ draft[m].status = "rejected" =>
                  draft'[m].status = "rejected" /\ mails'[m] = 0
           /\ draft[m].status = "sent" => draft'[m].status = "sent"
           /\ draft'[m].status = "sent" => mails'[m] = 1]_emailVars

\* And without exception: once a message is decided and no process works on it,
\* no later delivery, click or retry changes its draft or sends another mail.
SettledStays ==
    [][\A m \in settled : draft'[m] = draft[m] /\ mails'[m] = mails[m]]_emailVars
================================================================================
