--------------------------- MODULE FrontDesk_proofs ----------------------------
(******************************************************************************)
(* Theorems of FrontDesk, for any number of slots, bookings, leads, requests, *)
(* messages and processes.                                                    *)
(*                                                                            *)
(* Each component has an invariant of its own, kept by its steps, and the     *)
(* actions that join two components are one step of each.                     *)
(******************************************************************************)
EXTENDS FrontDesk, FiniteSetTheorems, TLAPS

--------------------------------------------------------------------------------
(* Appointments.                                                              *)

\* Who is about to commit has seen a place that is free.
CommitsHaveRoom ==
    \A b \in Bookings :
        BookingAt(b, "commit") =>
            Cardinality(booking[b].seen) < MAX_PER_SLOT

AppointmentInv == AppointmentTypeOK /\ CommitsHaveRoom /\ NoOversell

\* The confirmed appointments of a slot are finitely many.
LEMMA ConfirmedFinite ==
    ASSUME NEW s
    PROVE  /\ IsFiniteSet(Confirmed(s))
           /\ Cardinality(Confirmed(s)) \in Nat
<1>1. Confirmed(s) \subseteq Bookings
  BY DEF Confirmed
<1> QED
  BY <1>1, BookingsFinite, FS_Subset, FS_CardinalityType

\* What takes confirmed appointments away, or none, oversells no slot.
LEMMA FewerIsFine ==
    ASSUME NoOversell,
           \A s \in Slots : Confirmed(s)' \subseteq Confirmed(s)
    PROVE  NoOversell'
<1> SUFFICES ASSUME NEW s \in Slots
             PROVE  Cardinality(Confirmed(s)') <= MAX_PER_SLOT
  BY DEF NoOversell
<1>1. Cardinality(Confirmed(s)) <= MAX_PER_SLOT
  BY DEF NoOversell
<1>2. Confirmed(s)' \subseteq Confirmed(s)
  OBVIOUS
<1>3. /\ IsFiniteSet(Confirmed(s)')
      /\ Cardinality(Confirmed(s)') <= Cardinality(Confirmed(s))
  BY <1>2, ConfirmedFinite, FS_Subset
<1>4. Cardinality(Confirmed(s)') \in Nat
  BY <1>3, FS_CardinalityType
<1> QED
  BY <1>1, <1>3, <1>4, ConfirmedFinite, MaxPerSlotNat

\* Every step of a booking keeps the types and the capacity.
LEMMA AppointmentsKeepInv ==
    ASSUME AppointmentInv, AppointmentNext
    PROVE  AppointmentInv'
<1> PICK b \in Bookings :
        \/ Book(b) \/ ReadSlot(b) \/ Commit(b)
        \/ BookingTimesOut(b) \/ BookingFails(b) \/ Cancel(b)
  BY DEF AppointmentNext
<1> USE DEF AppointmentInv
<1> USE DEF AppointmentTypeOK, CommitsHaveRoom, BookingAt, BookingGoes, Booking
<1>1. ASSUME appointment' = appointment, AppointmentTypeOK',
             \A c \in Bookings : booking'[c].slot = booking[c].slot
      PROVE  NoOversell'
  <2>1. \A s \in Slots : Confirmed(s)' \subseteq Confirmed(s)
    BY <1>1 DEF Confirmed
  <2> QED
    BY <2>1, FewerIsFine
<1>2. CASE Book(b)
  <2>1. AppointmentTypeOK' /\ CommitsHaveRoom'
    BY <1>2 DEF Book
  <2> QED
    BY <1>1, <1>2, <2>1 DEF Book
<1>3. CASE ReadSlot(b)
  <2>1. Confirmed(booking[b].slot) \subseteq Bookings
    BY DEF Confirmed
  <2>2. AppointmentTypeOK'
    BY <1>3, <2>1 DEF ReadSlot
  <2>3. CommitsHaveRoom'
    BY <1>3, ConfirmedFinite, MaxPerSlotNat DEF ReadSlot, Full
  <2> QED
    BY <1>1, <1>3, <2>2, <2>3 DEF ReadSlot
<1>4. CASE Commit(b)
  <2>1. AppointmentTypeOK' /\ CommitsHaveRoom'
    BY <1>4 DEF Commit
  <2>2. CASE Undisturbed(b)
    <3>1. SUFFICES ASSUME NEW s \in Slots
                   PROVE  Cardinality(Confirmed(s)') <= MAX_PER_SLOT
      BY <2>1 DEF NoOversell
    <3>2. \A c \in Bookings : booking'[c].slot = booking[c].slot
      BY <1>4, <2>2 DEF Commit
    <3>3. Confirmed(s)' \subseteq Confirmed(s) \cup {b}
      BY <1>4, <2>2, <3>2 DEF Commit, Confirmed
    <3>4. CASE s = booking[b].slot
      <4>1. Cardinality(Confirmed(s)) < MAX_PER_SLOT
        BY <1>4, <2>2, <3>4 DEF Commit, Undisturbed
      <4>2. /\ IsFiniteSet(Confirmed(s) \cup {b})
            /\ Cardinality(Confirmed(s) \cup {b}) <= Cardinality(Confirmed(s)) + 1
        <5>1. IsFiniteSet(Confirmed(s)) /\ Cardinality(Confirmed(s)) \in Nat
          BY ConfirmedFinite
        <5>2. /\ IsFiniteSet(Confirmed(s) \cup {b})
              /\ Cardinality(Confirmed(s) \cup {b}) =
                    IF b \in Confirmed(s) THEN Cardinality(Confirmed(s))
                                          ELSE Cardinality(Confirmed(s)) + 1
          BY <5>1, FS_AddElement
        <5> QED
          BY <5>1, <5>2
      <4>3. /\ IsFiniteSet(Confirmed(s)')
            /\ Cardinality(Confirmed(s)') <= Cardinality(Confirmed(s) \cup {b})
        BY <3>3, <4>2, FS_Subset
      <4> QED
        BY <4>1, <4>2, <4>3, FS_CardinalityType, ConfirmedFinite, MaxPerSlotNat
    <3>5. CASE s # booking[b].slot
      <4>1. Confirmed(s)' \subseteq Confirmed(s)
        BY <3>2, <3>3, <3>5 DEF Confirmed
      <4>2. Cardinality(Confirmed(s)) <= MAX_PER_SLOT
        BY DEF NoOversell
      <4>3. /\ IsFiniteSet(Confirmed(s)')
            /\ Cardinality(Confirmed(s)') <= Cardinality(Confirmed(s))
        BY <4>1, ConfirmedFinite, FS_Subset
      <4> QED
        BY <4>2, <4>3, FS_CardinalityType, ConfirmedFinite, MaxPerSlotNat
    <3> QED
      BY <3>4, <3>5
  <2>3. CASE ~Undisturbed(b)
    BY <1>1, <1>4, <2>1, <2>3 DEF Commit
  <2> QED
    BY <2>1, <2>2, <2>3
<1>5. CASE BookingTimesOut(b)
  <2>1. AppointmentTypeOK' /\ CommitsHaveRoom'
    BY <1>5 DEF BookingTimesOut
  <2> QED
    BY <1>1, <1>5, <2>1 DEF BookingTimesOut
<1>6. CASE BookingFails(b)
  <2>1. AppointmentTypeOK' /\ CommitsHaveRoom'
    BY <1>6 DEF BookingFails
  <2> QED
    BY <1>1, <1>6, <2>1 DEF BookingFails
<1>7. CASE Cancel(b)
  <2>1. AppointmentTypeOK' /\ CommitsHaveRoom'
    BY <1>7 DEF Cancel
  <2>2. \A s \in Slots : Confirmed(s)' \subseteq Confirmed(s)
    BY <1>7 DEF Cancel, Confirmed
  <2> QED
    BY <2>1, <2>2, FewerIsFine
<1> QED
  BY <1>2, <1>3, <1>4, <1>5, <1>6, <1>7

--------------------------------------------------------------------------------
(* Leads.                                                                     *)

\* Who is about to write a lead has read it.
WritersHaveRead ==
    \A r \in Requests :
        RequestAt(r, "write") => request[r].lead \in LeadIds /\ request[r].seen \in Lead

LeadInv == LeadTypeOK /\ WritersHaveRead

\* A change of status moves no first response and keeps the phone number.
LEMMA TransitionKeeps ==
    ASSUME NEW doc \in Lead, NEW status \in Statuses,
           NEW actor \in Operators \cup {Mira}
    PROVE  /\ Transitioned(doc, status, actor) \in Lead
           /\ doc.phone => Transitioned(doc, status, actor).phone
           /\ doc.first # None => Transitioned(doc, status, actor).first = doc.first
  BY DEF Transitioned, Lead

\* So does whatever a request makes of the lead it has read.
LEMMA ChangesKeep ==
    ASSUME NEW r \in Requests, request[r].seen \in Lead, NEW doc \in Changes(r)
    PROVE  /\ doc \in Lead
           /\ request[r].seen.phone => doc.phone
           /\ request[r].seen.first # None => doc.first = request[r].seen.first
<1> DEFINE seen == request[r].seen
<1>1. CASE request[r].kind \in {"capture", "callback"}
  BY <1>1 DEF Changes, Lead
<1>2. CASE request[r].kind = "handoff"
  BY <1>2 DEF Changes, Lead, Statuses, CONTACTED_LEAD_STATUSES
<1>3. CASE request[r].kind = "triage"
  <2>1. doc \in {seen} \cup {Transitioned(seen, status, Mira) : status \in Moves}
    BY <1>3 DEF Changes
  <2>2. ASSUME NEW status \in Moves, doc = Transitioned(seen, status, Mira)
        PROVE  /\ doc \in Lead
               /\ seen.phone => doc.phone
               /\ seen.first # None => doc.first = seen.first
    BY <2>2, TransitionKeeps, MovesAreStatuses
  <2> QED
    BY <2>1, <2>2
<1>4. CASE request[r].kind \notin {"capture", "callback", "handoff", "triage"}
  BY <1>4 DEF Changes
<1> QED
  BY <1>1, <1>2, <1>3, <1>4

\* What no step of the leads does.
LossIsStale(l) ==
    Lost(l) => \E r \in Requests : /\ RequestAt(r, "write") /\ request[r].lead = l
                                   /\ request[r].seen # lead[l]
ReturnIsWriteBack(l) ==
    l \in retention.purged /\ lead[l] = None /\ lead'[l] # None =>
        \E r \in Requests : /\ RequestAt(r, "write") /\ request[r].lead = l
                            /\ request[r].seen # None
LeadsKept == \A l \in LeadIds : LossIsStale(l) /\ ReturnIsWriteBack(l)

\* A step that leaves the leads alone loses nothing of them.
LEMMA UntouchedIsKept ==
    ASSUME lead' = lead
    PROVE  LeadsKept
  BY DEF LeadsKept, LossIsStale, ReturnIsWriteBack, Lost

\* Nor does a new lead, which takes the place of none.
LEMMA NewLeadIsKept ==
    ASSUME LeadTypeOK, NEW phone \in BOOLEAN, NEW session \in BOOLEAN,
           Adds(phone, session)
    PROVE  LeadsKept /\ lead' \in [LeadIds -> Lead \cup {None}]
<1> PICK l \in Fresh :
        lead' = [lead EXCEPT ![l] = [status |-> "new", first |-> None,
                                     phone |-> phone, session |-> session]]
  BY DEF Adds
<1>1. l \in LeadIds /\ lead[l] = None /\ l \notin retention.purged
  BY DEF Fresh
<1>2. [status |-> "new", first |-> None, phone |-> phone, session |-> session] \in Lead
  BY DEF Lead, Statuses
<1> QED
  BY <1>1, <1>2 DEF LeadsKept, LossIsStale, ReturnIsWriteBack, Lost, LeadTypeOK

\* A request that begins is a request, and the others stay theirs.
LEMMA AskingIsRequest ==
    ASSUME request \in [Requests -> Request], NEW r \in Requests, NEW kind \in Kinds,
           NEW step \in {"session", "phone", "id"},
           request' = [request EXCEPT ![r].step = step, ![r].kind = kind]
    PROVE  request' \in [Requests -> Request]
<1>1. [request[r] EXCEPT !.step = step, !.kind = kind] \in Request
  <2>1. request[r] \in Request
    OBVIOUS
  <2> QED
    BY <2>1 DEF Request
<1>2. request' = [request EXCEPT ![r] = [request[r] EXCEPT !.step = step, !.kind = kind]]
  OBVIOUS
<1> QED
  BY <1>1, <1>2

\* Every step of the leads keeps the types and what no step does.
LEMMA LeadsKeepInv ==
    ASSUME LeadInv, LeadNext
    PROVE  LeadInv' /\ LeadsKept
<1> USE DEF LeadInv, LeadTypeOK, WritersHaveRead, RequestAt
<1>1. CASE CreateLead
  BY <1>1, NewLeadIsKept DEF CreateLead
<1>2. ASSUME NEW l \in LeadIds, NEW status \in Moves, NEW operator \in Operators,
             Transition(l, status, operator)
      PROVE  LeadInv' /\ LeadsKept
  <2>1. lead[l] \in Lead
    BY <1>2 DEF Transition
  <2>2. lead' = [lead EXCEPT ![l] = Transitioned(lead[l], status, operator)]
    BY <1>2 DEF Transition
  <2>3. /\ Transitioned(lead[l], status, operator) \in Lead
        /\ lead[l].phone => Transitioned(lead[l], status, operator).phone
        /\ lead[l].first # None =>
               Transitioned(lead[l], status, operator).first = lead[l].first
    BY <2>1, TransitionKeeps, MovesAreStatuses
  <2>4. lead[l] # None
    BY <1>2 DEF Transition
  <2>5. LeadInv'
    BY <1>2, <2>2, <2>3 DEF Transition
  <2>6. LeadsKept
    BY <2>2, <2>3, <2>4 DEF LeadsKept, LossIsStale, ReturnIsWriteBack, Lost
  <2> QED
    BY <2>5, <2>6
<1>3. ASSUME NEW r \in Requests, NEW kind \in Kinds, Ask(r, kind)
      PROVE  LeadInv' /\ LeadsKept
  <2>1. Begins[kind] \in {"session", "phone", "id"}
    BY DEF Begins, Kinds
  <2>2. LeadInv'
    <3>1. UNCHANGED <<lead, alerts, retention>> /\ crowded' \in BOOLEAN
      BY <1>3 DEF Ask
    <3>2. request' = [request EXCEPT ![r].step = Begins[kind], ![r].kind = kind]
      BY <1>3 DEF Ask
    <3>3. request' \in [Requests -> Request]
      BY <2>1, <3>2, AskingIsRequest
    <3>4. \A q \in Requests : RequestAt(q, "write")' => q # r /\ request'[q] = request[q]
      BY <2>1, <3>2, <3>3 DEF Request, RequestAt
    <3> QED
      BY <3>1, <3>3, <3>4 DEF RequestAt
  <2> QED
    BY <1>3, <2>2, UntouchedIsKept DEF Ask
<1>4. ASSUME NEW r \in Requests, FindByPhone(r) \/ FindBySession(r) \/ FindById(r)
      PROVE  LeadInv' /\ LeadsKept
  <2>1. lead' = lead /\ alerts' = alerts /\ crowded' = crowded /\ retention' = retention
    BY <1>4 DEF FindByPhone, FindBySession, FindById
  <2>2. \/ RequestEnds(r)
        \/ \E step \in {"session", "phone", "create"} : RequestGoes(r, step)
        \/ \E l \in LeadIds : lead[l] # None /\ Takes(r, l)
    <3>1. CASE FindByPhone(r)
      BY <3>1 DEF FindByPhone, Carrying
    <3>2. CASE FindBySession(r)
      BY <3>2 DEF FindBySession, Carrying
    <3>3. CASE FindById(r)
      BY <3>3 DEF FindById
    <3> QED
      BY <1>4, <3>1, <3>2, <3>3
  <2>3. CASE RequestEnds(r)
    BY <2>1, <2>3, UntouchedIsKept DEF RequestEnds, Request, IdleRequest
  <2>4. CASE \E step \in {"session", "phone", "create"} : RequestGoes(r, step)
    BY <2>1, <2>4, UntouchedIsKept DEF RequestGoes, Request
  <2>5. ASSUME NEW l \in LeadIds, lead[l] # None, Takes(r, l)
        PROVE  LeadInv' /\ LeadsKept
    <3>1. lead[l] \in Lead
      BY <2>5
    <3> DEFINE taken == [request[r] EXCEPT !.step = "write", !.lead = l, !.seen = lead[l]]
    <3>2. request' = [request EXCEPT ![r] = taken]
      BY <2>5 DEF Takes
    <3>3. /\ taken \in Request
          /\ taken.lead = l /\ taken.seen = lead[l]
      BY <3>1 DEF Request
    <3> HIDE DEF taken
    <3>4. /\ request' \in [Requests -> Request]
          /\ WritersHaveRead'
      BY <3>1, <3>2, <3>3
    <3> HIDE DEF WritersHaveRead
    <3>5. LeadInv'
      BY <2>1, <3>4
    <3> QED
      BY <2>1, <3>5, UntouchedIsKept
  <2> QED
    BY <2>2, <2>3, <2>4, <2>5
<1>5. ASSUME NEW r \in Requests, Create(r)
      PROVE  LeadInv' /\ LeadsKept
  <2>1. LeadsKept /\ lead' \in [LeadIds -> Lead \cup {None}]
    BY <1>5, NewLeadIsKept DEF Create
  <2>2. RequestGoes(r, "alert") \/ RequestEnds(r)
    BY <1>5 DEF Create
  <2>3. /\ request' \in [Requests -> Request]
        /\ WritersHaveRead'
    BY <2>2 DEF RequestGoes, RequestEnds, Request, IdleRequest
  <2> QED
    BY <1>5, <2>1, <2>3 DEF Create
<1>6. ASSUME NEW r \in Requests, Update(r)
      PROVE  LeadInv' /\ LeadsKept
  <2>1. PICK doc \in Changes(r) : lead' = [lead EXCEPT ![request[r].lead] = doc]
    BY <1>6 DEF Update
  <2>2. /\ RequestAt(r, "write")
        /\ request[r].lead \in LeadIds /\ request[r].seen \in Lead
    BY <1>6 DEF Update
  <2>3. /\ doc \in Lead
        /\ request[r].seen.phone => doc.phone
        /\ request[r].seen.first # None => doc.first = request[r].seen.first
    BY <2>2, ChangesKeep
  <2>4. RequestGoes(r, "alert") \/ RequestEnds(r)
    BY <1>6 DEF Update
  <2>5. /\ request' \in [Requests -> Request]
        /\ WritersHaveRead'
    BY <2>4 DEF RequestGoes, RequestEnds, Request, IdleRequest
  <2>6. LeadInv'
    BY <1>6, <2>1, <2>2, <2>3, <2>5 DEF Update
  <2>7. ASSUME NEW l \in LeadIds
        PROVE  LossIsStale(l) /\ ReturnIsWriteBack(l)
    <3>1. CASE l # request[r].lead
      BY <2>1, <3>1 DEF LossIsStale, ReturnIsWriteBack, Lost
    <3>2. CASE l = request[r].lead
      <4>1. lead'[l] = doc
        BY <2>1, <2>2, <3>2
      <4>2. request[r].seen = lead[l] => ~Lost(l)
        BY <2>3, <4>1 DEF Lost
      <4>3. request[r].seen # None
        BY <2>2, NoneIsNoDocument
      <4> QED
        BY <2>2, <3>2, <4>2, <4>3 DEF LossIsStale, ReturnIsWriteBack
    <3> QED
      BY <3>1, <3>2
  <2> QED
    BY <2>6, <2>7 DEF LeadsKept
<1>7. ASSUME NEW r \in Requests, AlertStaff(r) \/ RequestStops(r)
      PROVE  LeadInv' /\ LeadsKept
  BY <1>7, UntouchedIsKept
  DEF AlertStaff, RequestStops, RequestEnds, Request, IdleRequest
<1>8. ASSUME NEW l \in LeadIds, LeadAges(l)
      PROVE  LeadInv' /\ LeadsKept
  BY <1>8, UntouchedIsKept DEF LeadAges, Retention
<1>9. CASE SelectExpired
  <2>1. LeadInv'
    BY <1>9 DEF SelectExpired, Retention
  <2> QED
    BY <1>9, <2>1, UntouchedIsKept DEF SelectExpired
<1>10. CASE DeleteExpired
  <2>1. LeadInv'
    BY <1>10 DEF DeleteExpired, Retention
  <2>2. LeadsKept
    BY <1>10 DEF DeleteExpired, LeadsKept, LossIsStale, ReturnIsWriteBack, Lost
  <2> QED
    BY <2>1, <2>2
<1> QED
  BY <1>1, <1>2, <1>3, <1>4, <1>5, <1>6, <1>7, <1>8, <1>9, <1>10 DEF LeadNext

--------------------------------------------------------------------------------
(* Replies to e-mail.                                                         *)

Decided == {"approved", "rejected", "sent"}

\* A process works on a message, or is idle.
RunsHaveMessages == \A p \in Processes : ~RunAt(p, "idle") => MessageOf(p) \in Messages

\* Who is about to send has found the cap not reached.
SendersHaveRoom ==
    \A p \in Processes :
        run[p].step \in {"ackWrite", "ackSend", "replySend"} => counted[p] < Cap

\* Where a request for a settled message may stand: it finds the draft decided.
Harmless(p) ==
    \/ run[p].step \in {"ack", "draft"}
    \/ RunAt(p, "read") /\ run[p].to \in {"approved", "rejected"}

SettledAreDone ==
    \A m \in settled :
        /\ draft[m].status \in Decided
        /\ \A p \in HandlersOf(m) : Harmless(p)

EmailInv == EmailTypeOK /\ RunsHaveMessages /\ SendersHaveRoom /\ SettledAreDone

\* What no step does to a settled message.
MessagesKept == \A m \in settled : draft'[m] = draft[m] /\ mails'[m] = mails[m]

\* What every step of a process does, whichever it is.
EmailFrame(p) ==
    /\ draft' \in [Messages -> Draft]
    /\ cards' \subseteq Messages
    /\ counted' \in [Processes -> 0..Cap]
    /\ run' \in [Processes -> Run]
    /\ mails' \in [Messages -> Nat]
    /\ garbled' \subseteq Messages
    /\ \A q \in Processes \ {p} : run'[q] = run[q] /\ counted'[q] = counted[q]
    /\ run'[p].step # "idle" => run'[p].message \in Messages
    /\ run'[p].step \in {"ackWrite", "ackSend", "replySend"} => counted'[p] < Cap
    /\ \A m \in settled :
           /\ draft'[m] = draft[m] /\ mails'[m] = mails[m]
           /\ run'[p].message = m =>
                  \/ run'[p].step \in {"ack", "draft"}
                  \/ run'[p].step = "read" /\ run'[p].to \in {"approved", "rejected"}
    /\ KeepHistory

\* What every step of a process does is enough for the invariant.
LEMMA FrameKeepsInv ==
    ASSUME EmailInv, NEW p \in Processes, EmailFrame(p)
    PROVE  EmailInv' /\ MessagesKept
<1> USE DEF EmailInv, EmailFrame
<1>1. EmailTypeOK'
  BY DEF EmailTypeOK, KeepHistory
<1>2. RunsHaveMessages' /\ SendersHaveRoom'
  BY DEF RunsHaveMessages, SendersHaveRoom, RunAt, MessageOf
<1>3. ASSUME NEW m \in settled'
      PROVE  /\ draft'[m].status \in Decided
             /\ \A q \in (HandlersOf(m))' : (Harmless(q))'
  <2>1. CASE m \in settled
    <3>1. draft'[m].status \in Decided
      BY <2>1 DEF SettledAreDone
    <3>2. ASSUME NEW q \in (HandlersOf(m))'
          PROVE  (Harmless(q))'
      <4>1. CASE q = p
        BY <2>1, <3>2, <4>1 DEF HandlersOf, Harmless, RunAt
      <4>2. CASE q # p
        BY <2>1, <3>2, <4>2 DEF HandlersOf, Harmless, RunAt, SettledAreDone
      <4> QED
        BY <4>1, <4>2
    <3> QED
      BY <3>1, <3>2
  <2>2. CASE m \notin settled
    BY <1>3, <2>2 DEF KeepHistory, Decided
  <2> QED
    BY <2>1, <2>2
<1> QED
  BY <1>1, <1>2, <1>3 DEF SettledAreDone, MessagesKept

\* The three ways a step leaves the request of p.
RunLeads(p, step, to) ==
    /\ run' \in [Processes -> Run]
    /\ \A q \in Processes \ {p} : run'[q] = run[q]
    /\ run'[p].step = step
    /\ run'[p].to = to
    /\ step # "idle" => run'[p].message = run[p].message
    /\ step = "idle" => run'[p].message = NoMessage

\* Where the steps of a handler lead it.
LEMMA RunsLead ==
    ASSUME run \in [Processes -> Run], NEW p \in Processes
    PROVE  /\ \A step \in Steps \ {"idle"} :
                  RunGoes(p, step) => RunLeads(p, step, run[p].to)
           /\ RunEnds(p) => RunLeads(p, "idle", "absent")
           /\ \A status \in DraftStatuses : Move(p, status) => RunLeads(p, "read", status)
<1>1. ASSUME NEW step \in Steps \ {"idle"}, RunGoes(p, step)
      PROVE  RunLeads(p, step, run[p].to)
  BY <1>1 DEF RunGoes, RunLeads, Run
<1>2. ASSUME RunEnds(p)
      PROVE  RunLeads(p, "idle", "absent")
  <2>1. IdleRun \in Run
    BY DEF IdleRun, Run, Steps, DraftStatuses
  <2> QED
    BY <1>2, <2>1 DEF RunEnds, RunLeads, IdleRun
<1>3. ASSUME NEW status \in DraftStatuses, Move(p, status)
      PROVE  RunLeads(p, "read", status)
  <2>1. run' = [run EXCEPT ![p] = [run[p] EXCEPT !.step = "read", !.to = status]]
    BY <1>3 DEF Move
  <2>2. [run[p] EXCEPT !.step = "read", !.to = status] \in Run
    BY DEF Run, Steps
  <2> QED
    BY <2>1, <2>2 DEF RunLeads, Run
<1> QED
  BY <1>1, <1>2, <1>3

\* Every step of a handler keeps to its frame, and so the invariant.
LEMMA RepliesKeepInv ==
    ASSUME EmailInv, EmailNext
    PROVE  EmailInv' /\ MessagesKept
<1> PICK p \in Processes :
        \/ \E m \in Messages : Deliver(p, m) \/ Click(p, m)
        \/ Goes(p)
  BY DEF EmailNext
<1> SUFFICES EmailFrame(p)
  BY FrameKeepsInv
<1> USE CapNat DEF EmailInv, EmailTypeOK, RunsHaveMessages, SendersHaveRoom, RunAt, MessageOf
\* A settled message that p works on is decided, and p is where it does no harm.
<1>h. ASSUME NEW m \in settled, run[p].message = m
      PROVE  /\ draft[m].status \in Decided
             /\ Harmless(p)
  BY <1>h DEF SettledAreDone, HandlersOf
<1>1. ASSUME NEW m \in Messages, Deliver(p, m) \/ Click(p, m)
      PROVE  EmailFrame(p)
  <2>1. PICK step \in {"ack", "draft", "read"}, to \in {"absent", "approved", "rejected"} :
            /\ Receives(p, m, step, to)
            /\ step = "read" => to # "absent"
    BY <1>1 DEF Deliver, Click
  <2>2. KeepHistory
    BY <1>1 DEF Deliver, Click
  <2> DEFINE received == [IdleRun EXCEPT !.step = step, !.message = m, !.to = to]
  <2>3. /\ received \in Run
        /\ received.step = step /\ received.message = m /\ received.to = to
    BY DEF IdleRun, Run, Steps, DraftStatuses
  <2>4. run' = [run EXCEPT ![p] = received]
    BY <2>1 DEF Receives
  <2>5. UNCHANGED <<draft, cards, counted, mails, garbled>>
    BY <2>1 DEF Receives
  <2>6. run' \in [Processes -> Run] /\ run'[p] = received
    BY <2>3, <2>4
  <2> HIDE DEF received
  <2> QED
    BY <2>1, <2>2, <2>3, <2>4, <2>5, <2>6 DEF EmailFrame
<1>2. CASE AckRead(p)
  <2>1. \E step \in {"ackWrite", "draft"} : RunLeads(p, step, run[p].to)
    BY <1>2, RunsLead DEF AckRead, Steps
  <2>2. run'[p].step = "ackWrite" => counted[p] < Cap /\ MayCreate(p)
    BY <1>2, RunsLead DEF AckRead, Steps, RunLeads, CapReached
  <2>3. ~RunAt(p, "idle")
    BY <1>2 DEF AckRead
  <2> QED
    BY <1>2, <1>h, <2>1, <2>2, <2>3
    DEF AckRead, MayCreate, StatusOf, RunLeads, EmailFrame, Decided
<1>3. CASE AckWrite(p)
  <2>1. \E step \in {"ackSend", "draft"} : RunLeads(p, step, run[p].to)
    BY <1>3, RunsLead DEF AckWrite, Steps
  <2>0. RunAt(p, "ackWrite") /\ MessageOf(p) \in Messages
    BY <1>3 DEF AckWrite
  <2>2. draft' \in [Messages -> Draft]
    <3>1. [status |-> "pending", placeholder |-> TRUE] \in Draft
      BY DEF Draft, DraftStatuses
    <3> QED
      BY <1>3, <2>0, <3>1 DEF AckWrite, Write
  <2>3. \A m \in settled : draft'[m] = draft[m] /\ run[p].message # m
    BY <1>3, <1>h, <2>0 DEF AckWrite, Write, Harmless
  <2> QED
    BY <1>3, <2>1, <2>2, <2>3 DEF AckWrite, RunLeads, EmailFrame
<1>4. CASE AckSend(p)
  <2>1. RunAt(p, "ackSend") /\ MessageOf(p) \in Messages
    BY <1>4 DEF AckSend
  <2>2. \E step \in {"read", "draft"}, to \in DraftStatuses : RunLeads(p, step, to)
    <3>1. CASE RunGoes(p, "draft")
      <4>1. run[p].to \in DraftStatuses
        BY DEF Run
      <4> QED
        BY <3>1, <4>1, RunsLead DEF Steps
    <3>2. CASE run' = [run EXCEPT ![p].step = "read", ![p].to = "approved", ![p].acks = TRUE]
      <4>1. run' = [run EXCEPT ![p] = [run[p] EXCEPT !.step = "read", !.to = "approved",
                                                    !.acks = TRUE]]
        BY <3>2
      <4>2. [run[p] EXCEPT !.step = "read", !.to = "approved", !.acks = TRUE] \in Run
        BY DEF Run, Steps, DraftStatuses
      <4>3. RunLeads(p, "read", "approved")
        BY <4>1, <4>2 DEF RunLeads, Run
      <4> QED
        BY <4>3 DEF DraftStatuses
    <3> QED
      BY <1>4, <3>1, <3>2 DEF AckSend
  <2>3. \A m \in settled : run[p].message # m
    BY <1>h, <2>1 DEF Harmless
  <2>4. /\ mails' \in [Messages -> Nat]
        /\ \A m \in settled : mails'[m] = mails[m]
        /\ garbled' \subseteq Messages
    BY <1>4, <2>1, <2>3 DEF AckSend, Sends
  <2>5. /\ counted' \in [Processes -> 0..Cap]
        /\ \A q \in Processes \ {p} : counted'[q] = counted[q]
    <3>1. counted[p] + 1 \in 0..Cap
      BY <2>1
    <3>2. Counts(p) \/ counted' = counted
      BY <1>4 DEF AckSend
    <3> QED
      BY <3>1, <3>2 DEF Counts
  <2>6. draft' = draft /\ cards' = cards /\ KeepHistory
    BY <1>4 DEF AckSend
  <2>7. run' \in [Processes -> Run] /\ \A q \in Processes \ {p} : run'[q] = run[q]
    BY <2>2 DEF RunLeads
  <2>8. run'[p].message = run[p].message /\ run'[p].step \in {"read", "draft"}
    BY <2>2 DEF RunLeads
  <2> QED
    BY <2>1, <2>3, <2>4, <2>5, <2>6, <2>7, <2>8 DEF EmailFrame
<1>5. CASE DraftRead(p)
  <2>1. \/ RunLeads(p, "draftWrite", run[p].to) /\ MayCreate(p)
        \/ RunLeads(p, "idle", "absent")
    BY <1>5, RunsLead DEF DraftRead, Steps
  <2> QED
    BY <1>5, <1>h, <2>1, NoMessageIsOutside
    DEF DraftRead, MayCreate, StatusOf, RunLeads, EmailFrame, Decided
<1>6. CASE DraftWrite(p)
  <2>1. RunLeads(p, "idle", "absent")
    BY <1>6, RunsLead DEF DraftWrite
  <2>2. RunAt(p, "draftWrite") /\ MessageOf(p) \in Messages
    BY <1>6 DEF DraftWrite
  <2>3. draft' \in [Messages -> Draft]
    BY <1>6 DEF DraftWrite, Write, Draft, DraftStatuses
  <2>4. \A m \in settled : draft'[m] = draft[m]
    BY <1>6, <1>h, <2>2 DEF DraftWrite, Write, Harmless
  <2>5. cards' \subseteq Messages
    BY <1>6, <2>2 DEF DraftWrite
  <2> QED
    BY <1>6, <2>1, <2>3, <2>4, <2>5, NoMessageIsOutside DEF DraftWrite, RunLeads, EmailFrame
<1>7. CASE MoveRead(p)
  <2>1. \/ RunLeads(p, "write", run[p].to) /\ Legal(StatusOf(p), run[p].to)
        \/ RunLeads(p, "idle", "absent")
    BY <1>7, RunsLead DEF MoveRead, Steps
  <2>2. RunAt(p, "read")
    BY <1>7 DEF MoveRead
  <2>3. ASSUME NEW m \in settled, run[p].message = m
        PROVE  ~Legal(StatusOf(p), run[p].to)
    BY <1>h, <2>2, <2>3 DEF Harmless, Legal, StatusOf, Decided
  <2> QED
    BY <1>7, <2>1, <2>2, <2>3, NoMessageIsOutside DEF MoveRead, RunLeads, EmailFrame
<1>8. CASE MoveWrite(p)
  <2>1. RunAt(p, "write") /\ run[p].to \in DraftStatuses
    BY <1>8 DEF MoveWrite, Run
  <2>2. \E step \in {"read", "reply", "idle"}, to \in DraftStatuses : RunLeads(p, step, to)
    BY <1>8, <2>1, RunsLead DEF MoveWrite, Steps, DraftStatuses
  <2>3. \A m \in settled : run[p].message # m
    BY <1>h, <2>1 DEF Harmless
  <2>4. draft' = [draft EXCEPT ![MessageOf(p)].status = run[p].to]
    BY <1>8 DEF MoveWrite
  <2>5. draft' \in [Messages -> Draft] /\ \A m \in settled : draft'[m] = draft[m]
    BY <2>1, <2>3, <2>4 DEF Draft
  <2> QED
    BY <1>8, <2>1, <2>2, <2>3, <2>5, NoMessageIsOutside DEF MoveWrite, RunLeads, EmailFrame
<1>9. CASE ReplyRead(p)
  <2>1. RunAt(p, "reply")
    BY <1>9 DEF ReplyRead
  <2>2. \A m \in settled : run[p].message # m
    BY <1>h, <2>1 DEF Harmless
  <2>3. \/ \E to \in DraftStatuses : RunLeads(p, "replySend", to) /\ counted[p] < Cap
        \/ RunLeads(p, "idle", "absent")
    <3>1. CASE RunEnds(p)
      BY <3>1, RunsLead
    <3>2. CASE ~RunEnds(p)
      <4> DEFINE placeholder == draft[MessageOf(p)].placeholder
      <4>1. placeholder \in BOOLEAN
        BY <2>1 DEF Draft
      <4>2. run' = [run EXCEPT ![p] = [run[p] EXCEPT !.step = "replySend",
                                                    !.placeholder = placeholder]]
        BY <1>9, <3>2 DEF ReplyRead
      <4> HIDE DEF placeholder
      <4>3. [run[p] EXCEPT !.step = "replySend", !.placeholder = placeholder] \in Run
        BY <4>1 DEF Run, Steps
      <4>4. RunLeads(p, "replySend", run[p].to) /\ run[p].to \in DraftStatuses
        BY <4>2, <4>3 DEF RunLeads, Run
      <4>5. counted[p] < Cap
        BY <1>9, <3>2 DEF ReplyRead, CapReached
      <4> QED
        BY <4>4, <4>5
    <3> QED
      BY <3>1, <3>2
  <2> QED
    BY <1>9, <2>1, <2>2, <2>3, NoMessageIsOutside DEF ReplyRead, RunLeads, EmailFrame
<1>10. CASE ReplySend(p)
  <2>1. RunAt(p, "replySend") /\ MessageOf(p) \in Messages
    BY <1>10 DEF ReplySend
  <2>2. \E step \in {"read", "idle"}, to \in DraftStatuses : RunLeads(p, step, to)
    BY <1>10, RunsLead DEF ReplySend, DraftStatuses
  <2>3. \A m \in settled : run[p].message # m
    BY <1>h, <2>1 DEF Harmless
  <2>4. /\ mails' \in [Messages -> Nat]
        /\ \A m \in settled : mails'[m] = mails[m]
        /\ garbled' \subseteq Messages
    BY <1>10, <2>1, <2>3 DEF ReplySend, Sends
  <2>5. /\ counted' \in [Processes -> 0..Cap]
        /\ \A q \in Processes \ {p} : counted'[q] = counted[q]
    BY <1>10, <2>1 DEF ReplySend, Counts
  <2> QED
    BY <1>10, <2>1, <2>2, <2>3, <2>4, <2>5, NoMessageIsOutside
    DEF ReplySend, RunLeads, EmailFrame
<1>11. CASE Stops(p)
  <2>1. RunLeads(p, "idle", "absent")
    BY <1>11, RunsLead DEF Stops
  <2>2. /\ counted' \in [Processes -> 0..Cap]
        /\ \A q \in Processes \ {p} : counted'[q] = counted[q]
    BY <1>11 DEF Stops
  <2> QED
    BY <1>11, <2>1, <2>2, NoMessageIsOutside DEF Stops, RunLeads, EmailFrame
<1> QED
  BY <1>1, <1>2, <1>3, <1>4, <1>5, <1>6, <1>7, <1>8, <1>9, <1>10, <1>11 DEF Goes

--------------------------------------------------------------------------------
(* The parts together.                                                        *)

FrontDeskInv == AppointmentInv /\ LeadInv /\ EmailInv

\* The invariant holds at the start.
LEMMA Initially == Init => FrontDeskInv
<1> SUFFICES ASSUME Init PROVE FrontDeskInv
  OBVIOUS
<1>1. AppointmentInv
  <2>1. \A b \in Bookings : booking[b] \in Booking /\ booking[b].step = "idle"
    <3>1. TAKE b \in Bookings
    <3>2. PICK s \in Slots : booking[b] = [step |-> "idle", slot |-> s, seen |-> {},
                                         waits |-> TRUE]
      BY DEF Init, AppointmentInit
    <3> QED
      BY <3>2 DEF Booking
  <2>2. booking \in [Bookings -> Booking]
    BY <2>1 DEF Init, AppointmentInit
  <2>3. AppointmentTypeOK /\ CommitsHaveRoom
    BY <2>1, <2>2 DEF Init, AppointmentInit, AppointmentTypeOK, CommitsHaveRoom, BookingAt
  <2>4. \A s \in Slots : Confirmed(s) = {}
    BY DEF Init, AppointmentInit, Confirmed
  <2>5. NoOversell
    BY <2>4, FS_EmptySet, MaxPerSlotNat DEF NoOversell
  <2> QED
    BY <2>3, <2>5 DEF AppointmentInv
<1>2. LeadInv
  <2>1. IdleRequest \in Request /\ IdleRequest.step = "idle"
    BY DEF IdleRequest, Request
  <2>2. [old |-> {}, doomed |-> {}, purged |-> {}] \in Retention
    BY DEF Retention
  <2>3. lead \in [LeadIds -> Lead \cup {None}]
    BY DEF Init, LeadInit
  <2>4. request \in [Requests -> Request]
    BY <2>1 DEF Init, LeadInit
  <2>5. alerts \in 0..2 /\ crowded \in BOOLEAN /\ retention \in Retention
    <3>1. alerts = 0 /\ retention = [old |-> {}, doomed |-> {}, purged |-> {}]
      BY DEF Init, LeadInit
    <3>2. crowded \in BOOLEAN
      BY Zenon DEF Init, LeadInit
    <3> QED
      BY <3>1, <3>2, <2>2
  <2>6. \A r \in Requests : request[r].step = "idle"
    BY <2>1 DEF Init, LeadInit
  <2>7. WritersHaveRead
    BY <2>6 DEF WritersHaveRead, RequestAt
  <2> QED
    BY <2>3, <2>4, <2>5, <2>7 DEF LeadInv, LeadTypeOK
<1>3. EmailInv
  <2>1. IdleRun \in Run /\ [status |-> "absent", placeholder |-> FALSE] \in Draft
    BY DEF IdleRun, Run, Steps, Draft, DraftStatuses
  <2> QED
    BY <2>1, CapNat DEF Init, EmailInit, EmailInv, EmailTypeOK, RunsHaveMessages,
       SendersHaveRoom, SettledAreDone, RunAt, IdleRun
<1> QED
  BY <1>1, <1>2, <1>3 DEF FrontDeskInv

\* What no step of the whole does.
Kept == LeadsKept /\ MessagesKept

\* Every step of the front desk keeps the three invariants.
LEMMA NextKeepsInv ==
    ASSUME FrontDeskInv, Next
    PROVE  FrontDeskInv' /\ Kept
<1> USE DEF FrontDeskInv, Kept
<1>1. ASSUME UNCHANGED appointmentVars PROVE AppointmentInv'
  BY <1>1 DEF appointmentVars, AppointmentInv, AppointmentTypeOK, CommitsHaveRoom,
     BookingAt, NoOversell, Confirmed
<1>2. ASSUME UNCHANGED leadVars PROVE LeadInv' /\ LeadsKept
  BY <1>2, UntouchedIsKept DEF leadVars, LeadInv, LeadTypeOK, WritersHaveRead, RequestAt
<1>3. ASSUME UNCHANGED emailVars PROVE EmailInv' /\ MessagesKept
  BY <1>3 DEF emailVars, EmailInv, EmailTypeOK, RunsHaveMessages, SendersHaveRoom,
     SettledAreDone, RunAt, MessageOf, HandlersOf, Harmless, MessagesKept
<1>4. CASE Scheduling
  BY <1>2, <1>3, <1>4, AppointmentsKeepInv DEF Scheduling
<1>5. CASE Capturing
  BY <1>1, <1>3, <1>5, LeadsKeepInv DEF Capturing
<1>6. CASE Replying
  <2>1. EmailNext
    BY <1>6 DEF Replying, EmailNext
  <2> QED
    BY <1>1, <1>2, <1>6, <2>1, RepliesKeepInv DEF Replying
<1>7. ASSUME NEW p \in Processes, NEW m \in Messages, Inbound(p, m)
      PROVE  FrontDeskInv' /\ Kept
  <2>1. EmailNext
    BY <1>7 DEF Inbound, EmailNext
  <2>2. LeadsKept /\ lead' \in [LeadIds -> Lead \cup {None}]
    BY <1>7, NewLeadIsKept, UntouchedIsKept DEF Inbound, LeadInv, LeadTypeOK
  <2>3. LeadInv'
    BY <1>7, <2>2 DEF Inbound, LeadInv, LeadTypeOK, WritersHaveRead, RequestAt
  <2> QED
    BY <1>1, <1>7, <2>1, <2>2, <2>3, RepliesKeepInv DEF Inbound
<1>8. ASSUME NEW b \in Bookings, NEW r \in Requests, HandOff(b, r)
      PROVE  FrontDeskInv' /\ Kept
  <2>1. AppointmentTypeOK' /\ CommitsHaveRoom'
    BY <1>8 DEF HandOff, BookingAt, BookingGoes, AppointmentInv, AppointmentTypeOK,
       CommitsHaveRoom, Booking
  <2>2. \A s \in Slots : Confirmed(s)' \subseteq Confirmed(s)
    BY <1>8 DEF HandOff, BookingGoes, Confirmed, AppointmentInv, AppointmentTypeOK
  <2>3. NoOversell'
    BY <2>2, FewerIsFine DEF AppointmentInv
  <2>4. LeadInv' /\ LeadsKept
    <3>1. Begins["handoff"] = "id" /\ "handoff" \in Kinds
      BY DEF Begins, Kinds
    <3>2. LeadInv'
      <4>1. UNCHANGED <<lead, alerts, retention>> /\ crowded' \in BOOLEAN
        BY <1>8 DEF HandOff, Ask, LeadInv, LeadTypeOK
      <4>0. Ask(r, "handoff")
        BY <1>8 DEF HandOff
      <4>2. request' = [request EXCEPT ![r].step = "id", ![r].kind = "handoff"]
        BY <3>1, <4>0 DEF Ask
      <4>3. request' \in [Requests -> Request]
        BY <3>1, <4>2, AskingIsRequest DEF LeadInv, LeadTypeOK
      <4>4. WritersHaveRead'
        BY <4>2 DEF LeadInv, LeadTypeOK, WritersHaveRead, RequestAt
      <4> QED
        BY <4>1, <4>3, <4>4 DEF LeadInv, LeadTypeOK
    <3> QED
      BY <1>8, <3>2, UntouchedIsKept DEF HandOff, Ask
  <2> QED
    BY <1>3, <1>8, <2>1, <2>3, <2>4 DEF HandOff, AppointmentInv
<1> QED
  BY <1>4, <1>5, <1>6, <1>7, <1>8 DEF Next

\* So does a step of something else.
LEMMA StutterKeepsInv ==
    ASSUME FrontDeskInv, UNCHANGED vars
    PROVE  FrontDeskInv' /\ Kept
  BY UntouchedIsKept DEF FrontDeskInv, Kept, vars, appointmentVars, leadVars, emailVars,
     AppointmentInv, AppointmentTypeOK, CommitsHaveRoom, BookingAt, NoOversell, Confirmed,
     LeadInv, LeadTypeOK, WritersHaveRead, RequestAt,
     EmailInv, EmailTypeOK, RunsHaveMessages, SendersHaveRoom, SettledAreDone, RunAt,
     MessageOf, HandlersOf, Harmless, MessagesKept

\* The invariant holds of every state.
LEMMA Invariance == Spec => []FrontDeskInv
<1>1. FrontDeskInv /\ [Next]_vars => FrontDeskInv'
  BY NextKeepsInv, StutterKeepsInv
<1> QED
  BY Initially, <1>1, PTL DEF Spec

\* And every step keeps to what no step does.
LEMMA KeptAlways == Spec => [][Kept]_vars
<1>1. FrontDeskInv /\ [Next]_vars => [Kept]_vars
  BY NextKeepsInv
<1> QED
  BY Invariance, <1>1, PTL DEF Spec

\* No step of the front desk takes a document or a request out of its type,
\* whatever is sent, clicked, booked, edited or purged, and in whatever order.
THEOREM TypeCorrect == Spec => []TypeOK
<1>1. FrontDeskInv => TypeOK
  BY DEF FrontDeskInv, AppointmentInv, LeadInv, EmailInv, TypeOK
<1> QED
  BY Invariance, <1>1, PTL

\* No slot is oversold, for any number of bookings that race for it, in time or
\* late, and any capacity.
THEOREM SlotsKeepToCapacity == Spec => []NoOversell
<1>1. FrontDeskInv => NoOversell
  BY DEF FrontDeskInv, AppointmentInv
<1> QED
  BY Invariance, <1>1, PTL

\* A first response or a phone number is lost only to a request that read the
\* lead before somebody else changed it.
THEOREM OnlyStaleCopiesLose == Spec => LostToStaleCopy
<1>1. [Kept]_vars => [\A l \in LeadIds : LossIsStale(l)]_lead
  BY DEF Kept, LeadsKept, vars, leadVars
<1>2. Spec => [][\A l \in LeadIds : LossIsStale(l)]_lead
  BY KeptAlways, <1>1, PTL
<1> QED
  BY <1>2 DEF LostToStaleCopy, LossIsStale

\* A purged lead comes back only through a request that had read it before.
THEOREM PurgedStayAway == Spec => PurgedStays
<1>1. LeadTypeOK => retention.purged \subseteq LeadIds
  BY DEF LeadTypeOK, Retention
<1> DEFINE Back == \A l \in retention.purged : lead[l] = None /\ lead'[l] # None =>
           \E r \in Requests : /\ RequestAt(r, "write") /\ request[r].lead = l
                               /\ request[r].seen # None
<1>2. FrontDeskInv /\ [Kept]_vars => [Back]_lead
  BY <1>1 DEF Kept, LeadsKept, ReturnIsWriteBack, vars, leadVars, FrontDeskInv, LeadInv
<1>3. Spec => [][Back]_lead
  BY KeptAlways, Invariance, <1>2, PTL
<1> QED
  BY <1>3 DEF PurgedStays

\* Once a message is decided and no process works on it, nothing changes its
\* draft or sends another mail, for any number of processes.
THEOREM SettledForGood == Spec => SettledStays
<1>1. [Kept]_vars => [MessagesKept]_emailVars
  BY DEF Kept, vars
<1>2. Spec => [][MessagesKept]_emailVars
  BY KeptAlways, <1>1, PTL
<1> QED
  BY <1>2 DEF SettledStays, MessagesKept
================================================================================
