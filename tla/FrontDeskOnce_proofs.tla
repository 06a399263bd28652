-------------------------- MODULE FrontDeskOnce_proofs -------------------------
(******************************************************************************)
(* Further theorems of FrontDesk: what happens once.  Staff are alerted once, *)
(* a message gets one reply, and a decision stands, unless two requests of    *)
(* the visitor, or two handlers of the message, ran at the same time.         *)
(*                                                                            *)
(* While that has not happened, whoever is at work holds the only copy of     *)
(* what it read, and the invariants say of each step what it then knows.      *)
(******************************************************************************)
EXTENDS FrontDesk_proofs

--------------------------------------------------------------------------------
(* Alerts.                                                                    *)

Alone == ~crowded /\ retention.purged = {}

OneAtWork ==
    \A r, q \in Requests : ~RequestAt(r, "idle") /\ ~RequestAt(q, "idle") => r = q

\* What the writer read of the phone number is still so.
WritersAreCurrent ==
    \A r \in Requests : RequestAt(r, "write") =>
        /\ lead[request[r].lead] # None
        /\ lead[request[r].lead].phone = request[r].seen.phone

\* Once an alert was sent, or is about to be, some lead carries the number.
NumberIsKnown ==
    alerts > 0 \/ (\E r \in Requests : RequestAt(r, "alert")) => Carrying("phone") # {}

\* A capture that may come to an alert follows none.
MayAlert(t) ==
    \/ t.step = "alert"
    \/ t.kind = "capture" /\ t.step \in {"session", "create"}
    \/ t.kind = "capture" /\ t.step = "write" /\ ~t.seen.phone
AlertIsFirst == \A r \in Requests : MayAlert(request[r]) => alerts = 0

\* The capture of a message looks a lead up by its number first, not by its id.
CapturesAskForNumber ==
    \A r \in Requests : request[r].kind = "capture" => ~RequestAt(r, "id")

AlertParts ==
    /\ OneAtWork /\ WritersAreCurrent /\ NumberIsKnown
    /\ AlertIsFirst /\ CapturesAskForNumber /\ alerts <= 1

AlertInv == Alone => AlertParts

\* Leads come, and change their status, while no request takes a step.
LEMMA LeadsMayMove ==
    ASSUME LeadInv, AlertParts, UNCHANGED <<request, alerts>>,
           \A l \in LeadIds : lead[l] # None =>
               lead'[l] # None /\ lead'[l].phone = lead[l].phone
    PROVE  AlertParts'
<1> USE DEF AlertParts
<1>1. WritersAreCurrent'
  BY DEF WritersAreCurrent, RequestAt, LeadInv, WritersHaveRead
<1>2. Carrying("phone") # {} => Carrying("phone")' # {}
  BY DEF Carrying
<1>3. NumberIsKnown'
  BY <1>2 DEF NumberIsKnown, RequestAt
<1> QED
  BY <1>1, <1>3 DEF OneAtWork, AlertIsFirst, CapturesAskForNumber, RequestAt

\* A request goes on while the others are idle: what has to be shown of it.
Fits(t) ==
    /\ t.step = "write" => lead[t.lead] # None /\ lead[t.lead].phone = t.seen.phone
    /\ alerts > 0 \/ t.step = "alert" => Carrying("phone") # {}
    /\ MayAlert(t) => alerts = 0
    /\ t.kind = "capture" => t.step # "id"
    /\ alerts <= 1

RequestTurns(r, t) ==
    \A q \in Requests : request'[q] = IF q = r THEN t ELSE request[q]

\* It is enough to show that of the one request that takes the step.
LEMMA OneRequestTurns ==
    ASSUME NEW r \in Requests, NEW t, RequestTurns(r, t), Fits(t)',
           \A q \in Requests \ {r} : RequestAt(q, "idle")
    PROVE  AlertParts'
<1> USE DEF RequestTurns, RequestAt
<1>1. OneAtWork'
  BY DEF OneAtWork
<1>2. WritersAreCurrent'
  BY DEF WritersAreCurrent, Fits
<1>3. NumberIsKnown'
  BY DEF NumberIsKnown, Fits
<1>4. AlertIsFirst'
  BY DEF AlertIsFirst, MayAlert, Fits
<1>5. CapturesAskForNumber'
  BY DEF CapturesAskForNumber, Fits
<1> QED
  BY <1>1, <1>2, <1>3, <1>4, <1>5 DEF AlertParts, Fits

\* A lead is added, with the number or without it.
LEMMA AddedLead ==
    ASSUME LeadTypeOK, NEW phone \in BOOLEAN, NEW session \in BOOLEAN, Adds(phone, session)
    PROVE  /\ \A l \in LeadIds : lead[l] # None => lead'[l] # None /\ lead'[l] = lead[l]
           /\ phone => Carrying("phone")' # {}
<1>1. PICK l \in Fresh :
          lead' = [lead EXCEPT ![l] = [status |-> "new", first |-> None,
                                       phone |-> phone, session |-> session]]
  BY DEF Adds
<1>2. PICK doc : doc = [status |-> "new", first |-> None, phone |-> phone, session |-> session]
  OBVIOUS
<1>3. doc \in Lead /\ doc.phone = phone /\ doc # None
  BY <1>2, NoneIsNoDocument DEF Lead, Statuses
<1>4. l \in LeadIds /\ lead[l] = None
  BY <1>1 DEF Fresh
<1>5. \A k \in LeadIds : lead'[k] = IF k = l THEN doc ELSE lead[k]
  BY <1>1, <1>2 DEF LeadTypeOK
<1>6. phone => l \in Carrying("phone")'
  BY <1>3, <1>4, <1>5 DEF Carrying
<1> QED
  BY <1>4, <1>5, <1>6

\* What a step makes of a request.
ReqGoneTo(t, step) == [t EXCEPT !.step = step]
ReqTaken(t, l, doc) == [t EXCEPT !.step = "write", !.lead = l, !.seen = doc]
ReqAsked(t, step, kind) == [t EXCEPT !.step = step, !.kind = kind]

\* The fields of a request that has moved.
LEMMA RequestsFit ==
    ASSUME NEW t \in Request
    PROVE  /\ IdleRequest.step = "idle"
           /\ \A step \in {"idle", "session", "phone", "id", "create", "write", "alert"} :
                  ReqGoneTo(t, step).step = step /\ ReqGoneTo(t, step).kind = t.kind
           /\ \A l \in LeadIds, doc \in Lead :
                  /\ ReqTaken(t, l, doc).step = "write" /\ ReqTaken(t, l, doc).kind = t.kind
                  /\ ReqTaken(t, l, doc).lead = l /\ ReqTaken(t, l, doc).seen = doc
           /\ \A step \in {"session", "phone", "id"}, kind \in Kinds :
                  ReqAsked(t, step, kind).step = step /\ ReqAsked(t, step, kind).kind = kind
  BY DEF IdleRequest, ReqGoneTo, ReqTaken, ReqAsked, Request

\* What an assignment to one request makes of all of them.
LEMMA RequestTurnsInto ==
    ASSUME LeadTypeOK, NEW r \in Requests, NEW t, request' = [request EXCEPT ![r] = t]
    PROVE  RequestTurns(r, t)
  BY DEF LeadTypeOK, RequestTurns

\* A request that ends, or that looks further, while the leads stand.
LEMMA RequestGoesOn ==
    ASSUME LeadInv, AlertParts, NEW r \in Requests, ~RequestAt(r, "idle"),
           UNCHANGED <<lead, alerts>>,
           \/ RequestEnds(r)
           \/ RequestGoes(r, "phone") \/ RequestGoes(r, "session") \/ RequestGoes(r, "create"),
           request[r].kind = "capture" /\ ~RequestEnds(r) => alerts = 0
    PROVE  AlertParts'
<1> USE DEF AlertParts
<1>1. request[r] \in Request
  BY DEF LeadInv, LeadTypeOK
<1>2. \A q \in Requests \ {r} : RequestAt(q, "idle")
  BY DEF OneAtWork
<1>3. alerts > 0 => Carrying("phone")' # {}
  BY DEF NumberIsKnown, Carrying
<1>4. CASE RequestEnds(r)
  <2>1. RequestTurns(r, IdleRequest)
    BY <1>4, RequestTurnsInto DEF RequestEnds, LeadInv
  <2>2. Fits(IdleRequest)'
    BY <1>1, <1>3, RequestsFit DEF Fits, MayAlert
  <2> QED
    BY <1>2, <2>1, <2>2, OneRequestTurns
<1>5. ASSUME NEW step \in {"phone", "session", "create"}, RequestGoes(r, step), ~RequestEnds(r)
      PROVE  AlertParts'
  <2>1. PICK t : t = ReqGoneTo(request[r], step)
    OBVIOUS
  <2>2. t.step = step /\ t.kind = request[r].kind
    BY <1>1, <2>1, RequestsFit
  <2>3. RequestTurns(r, t)
    BY <1>5, <2>1, RequestTurnsInto DEF RequestGoes, ReqGoneTo, LeadInv
  <2>4. Fits(t)'
    BY <1>3, <1>5, <2>2 DEF Fits, MayAlert
  <2> QED
    BY <1>2, <2>3, <2>4, OneRequestTurns
<1> QED
  BY <1>4, <1>5

\* A request that has read a lead, as the lead is.
LEMMA RequestTakes ==
    ASSUME LeadInv, AlertParts, NEW r \in Requests, ~RequestAt(r, "idle"),
           UNCHANGED <<lead, alerts>>, NEW l \in LeadIds, lead[l] # None, Takes(r, l),
           request[r].kind = "capture" /\ ~lead[l].phone => alerts = 0
    PROVE  AlertParts'
<1> USE DEF AlertParts
<1>1. request[r] \in Request /\ lead[l] \in Lead
  BY DEF LeadInv, LeadTypeOK
<1>2. \A q \in Requests \ {r} : RequestAt(q, "idle")
  BY DEF OneAtWork
<1>3. alerts > 0 => Carrying("phone")' # {}
  BY DEF NumberIsKnown, Carrying
<1>4. PICK t : t = ReqTaken(request[r], l, lead[l])
  OBVIOUS
<1>5. t.step = "write" /\ t.kind = request[r].kind /\ t.lead = l /\ t.seen = lead[l]
  BY <1>1, <1>4, RequestsFit
<1>6. RequestTurns(r, t)
  BY <1>4, RequestTurnsInto DEF Takes, ReqTaken, LeadInv
<1>7. Fits(t)'
  BY <1>3, <1>5 DEF Fits, MayAlert
<1> QED
  BY <1>2, <1>6, <1>7, OneRequestTurns

\* A request that has written, or added, a lead, and ends or is about to alert.
LEMMA RequestWrites ==
    ASSUME LeadInv, AlertParts, NEW r \in Requests, ~RequestAt(r, "idle"), alerts' = alerts,
           \/ RequestEnds(r)
           \/ RequestGoes(r, "alert") /\ alerts = 0 /\ Carrying("phone")' # {},
           Carrying("phone") # {} => Carrying("phone")' # {}
    PROVE  AlertParts'
<1> USE DEF AlertParts
<1>1. request[r] \in Request
  BY DEF LeadInv, LeadTypeOK
<1>2. \A q \in Requests \ {r} : RequestAt(q, "idle")
  BY DEF OneAtWork
<1>3. alerts > 0 => Carrying("phone")' # {}
  BY DEF NumberIsKnown
<1>4. CASE RequestEnds(r)
  <2>1. RequestTurns(r, IdleRequest)
    BY <1>4, RequestTurnsInto DEF RequestEnds, LeadInv
  <2>2. Fits(IdleRequest)'
    BY <1>1, <1>3, RequestsFit DEF Fits, MayAlert
  <2> QED
    BY <1>2, <2>1, <2>2, OneRequestTurns
<1>5. CASE RequestGoes(r, "alert") /\ alerts = 0 /\ Carrying("phone")' # {}
  <2>1. PICK t : t = ReqGoneTo(request[r], "alert")
    OBVIOUS
  <2>2. t.step = "alert" /\ t.kind = request[r].kind
    BY <1>1, <2>1, RequestsFit
  <2>3. RequestTurns(r, t)
    BY <1>5, <2>1, RequestTurnsInto DEF RequestGoes, ReqGoneTo, LeadInv
  <2>4. Fits(t)'
    BY <1>3, <1>5, <2>2 DEF Fits, MayAlert
  <2> QED
    BY <1>2, <2>3, <2>4, OneRequestTurns
<1> QED
  BY <1>4, <1>5

\* What is done to leads and requests, by their own steps and by the composition.
LeadStep ==
    \/ LeadNext
    \/ \E r \in Requests : Ask(r, "handoff")
    \/ Adds(FALSE, FALSE) /\ UNCHANGED <<request, alerts, crowded, retention>>
    \/ UNCHANGED leadVars

\* Every step of the leads keeps the invariant.
LEMMA AlertStep ==
    ASSUME LeadInv, AlertInv, LeadStep
    PROVE  AlertInv'
<1> SUFFICES ASSUME Alone'
             PROVE  AlertParts'
  BY DEF AlertInv
<1>a. ASSUME crowded' = crowded, retention' = retention
      PROVE  AlertParts
  BY <1>a DEF AlertInv, Alone
<1>o. ASSUME NEW r \in Requests, ~RequestAt(r, "idle"), AlertParts
      PROVE  \A q \in Requests \ {r} : RequestAt(q, "idle")
  BY <1>o DEF AlertParts, OneAtWork
<1>1. CASE \/ CreateLead
           \/ Adds(FALSE, FALSE) /\ UNCHANGED <<request, alerts, crowded, retention>>
  <2>1. PICK phone \in BOOLEAN : Adds(phone, FALSE)
    BY <1>1, Zenon DEF CreateLead
  <2>2. UNCHANGED <<request, alerts, crowded, retention>>
    BY <1>1 DEF CreateLead
  <2> QED
    BY <1>a, <2>1, <2>2, AddedLead, LeadsMayMove DEF LeadInv
<1>2. ASSUME NEW l \in LeadIds, NEW status \in Moves, NEW operator \in Operators,
             Transition(l, status, operator)
      PROVE  AlertParts'
  <2>1. lead[l] \in Lead /\ UNCHANGED <<request, alerts, crowded, retention>>
    BY <1>2 DEF Transition, LeadInv, LeadTypeOK
  <2>2. PICK doc : doc = Transitioned(lead[l], status, operator)
    OBVIOUS
  <2>3. doc \in Lead /\ doc.phone = lead[l].phone /\ doc # None
    <3>1. doc \in Lead
      BY <2>1, <2>2, TransitionKeeps, MovesAreStatuses
    <3>2. doc.phone = lead[l].phone
      BY <2>1, <2>2 DEF Transitioned, Lead
    <3> QED
      BY <3>1, <3>2, NoneIsNoDocument
  <2>4. \A k \in LeadIds : lead'[k] = IF k = l THEN doc ELSE lead[k]
    BY <1>2, <2>2 DEF Transition, LeadInv, LeadTypeOK
  <2> QED
    BY <1>a, <2>1, <2>3, <2>4, LeadsMayMove
<1>3. ASSUME NEW r \in Requests, NEW kind \in Kinds, Ask(r, kind)
      PROVE  AlertParts'
  <2>1. UNCHANGED <<lead, alerts, retention>> /\ RequestAt(r, "idle")
    BY <1>3 DEF Ask
  <2>2. AlertParts /\ \A q \in Requests \ {r} : RequestAt(q, "idle")
    BY <1>3, <2>1 DEF Ask, AlertInv, Alone
  <2>3. PICK t : t = ReqAsked(request[r], Begins[kind], kind)
    OBVIOUS
  <2>4. Begins[kind] \in {"session", "phone", "id"} /\ (kind = "capture" => Begins[kind] = "phone")
    BY DEF Begins, Kinds
  <2>5. t.step = Begins[kind] /\ t.kind = kind
    BY <2>3, <2>4, RequestsFit DEF LeadInv, LeadTypeOK
  <2>6. RequestTurns(r, t)
    BY <1>3, <2>3, RequestTurnsInto DEF Ask, ReqAsked, LeadInv
  <2>7. alerts > 0 => Carrying("phone")' # {}
    BY <2>1, <2>2 DEF AlertParts, NumberIsKnown, Carrying
  <2>8. Fits(t)'
    BY <2>1, <2>2, <2>4, <2>5, <2>7 DEF Fits, MayAlert, AlertParts
  <2> QED
    BY <2>2, <2>6, <2>8, OneRequestTurns
<1>4. ASSUME NEW r \in Requests, FindByPhone(r)
      PROVE  AlertParts'
  <2>1. /\ ~RequestAt(r, "idle") /\ RequestAt(r, "phone")
        /\ UNCHANGED <<lead, alerts, crowded, retention>>
    BY <1>4 DEF FindByPhone, RequestAt
  <2>2. AlertParts
    BY <1>a, <2>1
  <2>3. CASE Carrying("phone") = {}
    <3>1. alerts = 0
      BY <2>2, <2>3 DEF AlertParts, NumberIsKnown, LeadInv, LeadTypeOK
    <3>2. RequestGoes(r, "session") \/ RequestGoes(r, "create")
      BY <1>4, <2>3 DEF FindByPhone
    <3> QED
      BY <2>1, <2>2, <3>1, <3>2, RequestGoesOn
  <2>4. ASSUME NEW l \in Carrying("phone"), Takes(r, l)
        PROVE  AlertParts'
    <3>1. l \in LeadIds /\ lead[l] # None /\ lead[l].phone
      BY <2>4 DEF Carrying
    <3> QED
      BY <2>1, <2>2, <2>4, <3>1, RequestTakes
  <2>5. CASE \/ RequestGoes(r, "create") /\ request[r].kind = "callback"
             \/ RequestEnds(r)
    BY <2>1, <2>2, <2>5, RequestGoesOn
  <2> QED
    BY <1>4, <2>3, <2>4, <2>5 DEF FindByPhone
<1>5. ASSUME NEW r \in Requests, FindBySession(r)
      PROVE  AlertParts'
  <2>1. /\ ~RequestAt(r, "idle") /\ RequestAt(r, "session")
        /\ UNCHANGED <<lead, alerts, crowded, retention>>
    BY <1>5 DEF FindBySession, RequestAt
  <2>2. AlertParts
    BY <1>a, <2>1
  <2>3. request[r].kind = "capture" => alerts = 0
    BY <2>1, <2>2 DEF AlertParts, AlertIsFirst, MayAlert, RequestAt
  <2>4. ASSUME NEW l \in Carrying("session"), Takes(r, l)
        PROVE  AlertParts'
    <3>1. l \in LeadIds /\ lead[l] # None
      BY <2>4 DEF Carrying
    <3> QED
      BY <2>1, <2>2, <2>3, <2>4, <3>1, RequestTakes
  <2>5. CASE RequestGoes(r, "create") \/ RequestGoes(r, "phone")
    BY <2>1, <2>2, <2>3, <2>5, RequestGoesOn
  <2> QED
    BY <1>5, <2>4, <2>5 DEF FindBySession
<1>6. ASSUME NEW r \in Requests, FindById(r)
      PROVE  AlertParts'
  <2>1. /\ ~RequestAt(r, "idle") /\ RequestAt(r, "id")
        /\ UNCHANGED <<lead, alerts, crowded, retention>>
    BY <1>6 DEF FindById, RequestAt
  <2>2. AlertParts
    BY <1>a, <2>1
  <2>3. request[r].kind # "capture"
    BY <2>1, <2>2 DEF AlertParts, CapturesAskForNumber
  <2> QED
    BY <1>6, <2>1, <2>2, <2>3, RequestTakes, RequestGoesOn DEF FindById
<1>7. ASSUME NEW r \in Requests, Create(r)
      PROVE  AlertParts'
  <2>1. ~RequestAt(r, "idle") /\ UNCHANGED <<alerts, crowded, retention>> /\ RequestAt(r, "create")
    BY <1>7 DEF Create, RequestAt
  <2>2. AlertParts
    BY <1>a, <2>1
  <2>3. PICK phone \in BOOLEAN, session \in BOOLEAN :
            phone = (request[r].kind # "chat") /\ session = (request[r].kind # "handoff")
    OBVIOUS
  <2>4. Adds(phone, session)
    BY <1>7, <2>3, Zenon DEF Create
  <2>5. Carrying("phone") # {} => Carrying("phone")' # {}
    BY <2>4, AddedLead DEF Carrying, LeadInv
  <2>6. CASE request[r].kind = "capture"
    <3>1. alerts = 0
      BY <2>1, <2>2, <2>6 DEF AlertParts, AlertIsFirst, MayAlert, RequestAt
    <3>2. Carrying("phone")' # {}
      BY <2>3, <2>4, <2>6, AddedLead DEF LeadInv
    <3>3. RequestGoes(r, "alert")
      BY <1>7, <2>6 DEF Create
    <3> QED
      BY <2>1, <2>2, <2>5, <3>1, <3>2, <3>3, RequestWrites
  <2>7. CASE request[r].kind # "capture"
    BY <1>7, <2>1, <2>2, <2>5, <2>7, RequestWrites DEF Create
  <2> QED
    BY <2>6, <2>7
<1>8. ASSUME NEW r \in Requests, Update(r)
      PROVE  AlertParts'
  <2>1. ~RequestAt(r, "idle") /\ UNCHANGED <<alerts, crowded, retention>> /\ RequestAt(r, "write")
    BY <1>8 DEF Update, RequestAt
  <2>2. AlertParts
    BY <1>a, <2>1
  <2>3. PICK doc \in Changes(r) : lead' = [lead EXCEPT ![request[r].lead] = doc]
    BY <1>8 DEF Update
  <2>4. PICK l \in LeadIds : l = request[r].lead
    BY <2>1 DEF LeadInv, WritersHaveRead
  <2>5. request[r].seen \in Lead /\ lead[l] # None /\ lead[l].phone = request[r].seen.phone
    BY <2>1, <2>2, <2>4 DEF LeadInv, WritersHaveRead, AlertParts, WritersAreCurrent
  <2>6. doc \in Lead /\ (lead[l].phone => doc.phone) /\ doc # None
    BY <2>3, <2>5, ChangesKeep, NoneIsNoDocument
  <2>7. \A k \in LeadIds : lead'[k] = IF k = l THEN doc ELSE lead[k]
    BY <2>3, <2>4 DEF LeadInv, LeadTypeOK
  <2>8. Carrying("phone") # {} => Carrying("phone")' # {}
    BY <2>6, <2>7 DEF Carrying
  <2>9. CASE FirstContact(r)
    <3>1. alerts = 0
      BY <2>1, <2>2, <2>9 DEF AlertParts, AlertIsFirst, MayAlert, FirstContact, RequestAt
    <3>2. doc.phone
      BY <2>3, <2>5, <2>9 DEF FirstContact, Changes, Lead
    <3>3. Carrying("phone")' # {}
      BY <2>6, <2>7, <3>2 DEF Carrying
    <3>4. RequestGoes(r, "alert")
      BY <1>8, <2>9 DEF Update
    <3> QED
      BY <2>1, <2>2, <2>8, <3>1, <3>3, <3>4, RequestWrites
  <2>10. CASE ~FirstContact(r)
    BY <1>8, <2>1, <2>2, <2>8, <2>10, RequestWrites DEF Update
  <2> QED
    BY <2>9, <2>10
<1>9. ASSUME NEW r \in Requests, AlertStaff(r)
      PROVE  AlertParts'
  <2>1. ~RequestAt(r, "idle") /\ UNCHANGED <<lead, crowded, retention>> /\ RequestAt(r, "alert")
    BY <1>9 DEF AlertStaff, RequestAt
  <2>2. AlertParts
    BY <1>a, <2>1
  <2>3. alerts = 0 /\ Carrying("phone") # {}
    BY <2>1, <2>2 DEF AlertParts, AlertIsFirst, MayAlert, RequestAt, NumberIsKnown
  <2>4. alerts' = 1 /\ Carrying("phone")' # {}
    BY <1>9, <2>1, <2>3 DEF AlertStaff, Carrying
  <2>5. RequestTurns(r, IdleRequest)
    BY <1>9, RequestTurnsInto DEF AlertStaff, RequestEnds, LeadInv
  <2>6. Fits(IdleRequest)'
    BY <2>4 DEF Fits, MayAlert, IdleRequest
  <2> QED
    BY <1>o, <2>1, <2>2, <2>5, <2>6, OneRequestTurns
<1>10. ASSUME NEW r \in Requests, RequestStops(r)
       PROVE  AlertParts'
  <2>1. ~RequestAt(r, "idle") /\ UNCHANGED <<lead, alerts, crowded, retention>> /\ RequestEnds(r)
    BY <1>10 DEF RequestStops
  <2> QED
    BY <1>a, <2>1, RequestGoesOn
<1>11. CASE SelectExpired \/ (\E l \in LeadIds : LeadAges(l)) \/ DeleteExpired \/ UNCHANGED leadVars
  <2>1. retention.purged = {} /\ lead' = lead
    <3>1. retention'.purged = {}
      BY DEF Alone
    <3>2. CASE DeleteExpired
      BY <3>1, <3>2 DEF DeleteExpired, LeadInv, LeadTypeOK, Retention
    <3>3. CASE SelectExpired
      BY <3>1, <3>3 DEF SelectExpired, LeadInv, LeadTypeOK, Retention
    <3>4. CASE \E l \in LeadIds : LeadAges(l)
      BY <3>1, <3>4 DEF LeadAges, LeadInv, LeadTypeOK, Retention
    <3>5. CASE UNCHANGED leadVars
      BY <3>1, <3>5 DEF leadVars
    <3> QED
      BY <1>11, <3>2, <3>3, <3>4, <3>5
  <2>2. UNCHANGED <<request, alerts, crowded>>
    BY <1>11 DEF SelectExpired, LeadAges, DeleteExpired, leadVars
  <2>3. AlertParts
    BY <2>1, <2>2 DEF AlertInv, Alone
  <2> QED
    BY <2>1, <2>2, <2>3, LeadsMayMove
<1> QED
  BY <1>1, <1>2, <1>3, <1>4, <1>5, <1>6, <1>7, <1>8, <1>9, <1>10, <1>11 DEF LeadStep, LeadNext, Kinds

--------------------------------------------------------------------------------
(* Replies.                                                                   *)

\* What a draft and the replies that went out say of each other.
MessageOK(doc, sent) ==
    /\ sent <= 1
    /\ doc.status \in {"absent", "rejected"} => sent = 0
    /\ doc.status = "pending" /\ ~doc.placeholder => sent = 0
    /\ doc.status = "sent" => sent = 1

\* Where a decision comes from: the acknowledgement that went out, a click, or the
\* reply that went out.
AckDecides(t, doc, sent) ==
    /\ t.to = "approved" /\ t.acks
    /\ doc.status = "pending" /\ doc.placeholder /\ sent = 1
ClickDecides(t, doc) ==
    /\ t.to \in {"approved", "rejected"} /\ ~t.acks
    /\ ~doc.placeholder
    /\ t.step = "write" => doc.status = "pending"
SendingDecides(t, doc, sent) ==
    t.to = "sent" /\ doc.status = "approved" /\ sent = 1

\* What the one handler of a message knows of its draft at each step.
HandlerOK(t, doc, sent) ==
    /\ t.step \in {"ackWrite", "draftWrite"} => doc.status = "absent"
    /\ t.step = "ackSend" => doc.status = "pending" /\ doc.placeholder /\ sent = 0
    /\ t.step \in {"read", "write"} =>
           (AckDecides(t, doc, sent) \/ ClickDecides(t, doc) \/ SendingDecides(t, doc, sent))
    /\ t.step = "reply" => doc.status = "approved" /\ ~doc.placeholder /\ sent = 0
    /\ t.step = "replySend" => doc.status = "approved" /\ ~t.placeholder /\ sent = 0

\* The card is of a reply, not of an acknowledgement.
MessagePart(m) ==
    /\ MessageOK(draft[m], mails[m])
    /\ m \notin garbled
    /\ m \in cards => draft[m].status # "absent" /\ ~draft[m].placeholder

ReplyInv ==
    \A m \in Messages \ overlap :
        /\ MessagePart(m)
        /\ \A p \in Processes :
               run[p].message = m => HandlerOK(run[p], draft[m], mails[m])
        /\ \A p, q \in Processes : run[p].message = m /\ run[q].message = m => p = q

\* What a step leaves of another message, and what it never does to a decision.
MessageStands(m) ==
    /\ draft'[m] = draft[m] /\ mails'[m] = mails[m]
    /\ m \in cards' => m \in cards
    /\ m \in garbled' => m \in garbled
DecisionKept(m) ==
    /\ draft[m].status = "rejected" => draft'[m].status = "rejected" /\ mails'[m] = 0
    /\ draft[m].status = "sent" => draft'[m].status = "sent"
    /\ draft'[m].status = "sent" => mails'[m] = 1
DecisionsKept == \A m \in Messages \ overlap' : DecisionKept(m)

\* A message that was not handled twice has one handler at most.
LEMMA OneHandler ==
    ASSUME KeepHistory, NEW m \in Messages, m \notin overlap',
           NEW p \in Processes, NEW q \in Processes,
           run'[p].message = m, run'[q].message = m
    PROVE  p = q
<1> SUFFICES ASSUME p # q PROVE FALSE
  OBVIOUS
<1>1. ~(Cardinality((HandlersOf(m))') > 1)
  BY DEF KeepHistory
<1>2. (HandlersOf(m))' \subseteq Processes /\ {p, q} \subseteq (HandlersOf(m))'
  BY DEF HandlersOf
<1>3. IsFiniteSet((HandlersOf(m))')
  BY <1>2, ProcessesFinite, FS_Subset
<1>4. Cardinality({p, q}) = 2
  <2>1. IsFiniteSet({p}) /\ Cardinality({p}) = 1
    BY FS_Singleton
  <2>2. Cardinality({p} \cup {q}) = Cardinality({p}) + 1
    BY <2>1, FS_AddElement
  <2>3. {p} \cup {q} = {p, q}
    OBVIOUS
  <2> QED
    BY <2>1, <2>2, <2>3
<1>5. Cardinality({p, q}) <= Cardinality((HandlersOf(m))')
  BY <1>2, <1>3, FS_Subset
<1>6. Cardinality((HandlersOf(m))') \in Nat
  BY <1>3, FS_CardinalityType
<1> QED
  BY <1>1, <1>4, <1>5, <1>6

\* A process works on one message: what has to be shown of that one.
HandlerTurns(p, t) ==
    \A q \in Processes : run'[q] = IF q = p THEN t ELSE run[q]
Answers(p, t, m) ==
    /\ HandlerTurns(p, t)
    /\ KeepHistory
    /\ t.message \in {m, NoMessage}
    /\ \A n \in Messages \ {m} : MessageStands(n)

\* It is enough to show the invariant of the one message a step works on.
LEMMA OneMessageAnswered ==
    ASSUME ReplyInv, NEW p \in Processes, NEW t, NEW m \in Messages, Answers(p, t, m),
           run[p].message = m \/ t.message = m,
           m \notin overlap' =>
               /\ MessagePart(m)' /\ DecisionKept(m)
               /\ t.message = m => HandlerOK(t, draft'[m], mails'[m])
    PROVE  ReplyInv' /\ DecisionsKept
<1>0. /\ \A q \in Processes : run'[q] = IF q = p THEN t ELSE run[q]
      /\ KeepHistory /\ t.message \in {m, NoMessage}
      /\ \A n \in Messages \ {m} : MessageStands(n)
  BY DEF Answers, HandlerTurns
<1>1. overlap \subseteq overlap'
  BY <1>0 DEF KeepHistory
<1> SUFFICES ASSUME NEW n \in Messages, n \notin overlap'
             PROVE  /\ MessagePart(n)'
                    /\ \A q \in Processes :
                           run'[q].message = n => HandlerOK(run'[q], draft'[n], mails'[n])
                    /\ \A q, r \in Processes :
                           run'[q].message = n /\ run'[r].message = n => q = r
                    /\ DecisionKept(n)
  BY DEF ReplyInv, DecisionsKept
<1>2. \A q, r \in Processes : run'[q].message = n /\ run'[r].message = n => q = r
  BY <1>0, OneHandler
<1>3. /\ MessagePart(n)
      /\ \A q \in Processes : run[q].message = n => HandlerOK(run[q], draft[n], mails[n])
      /\ \A q, r \in Processes : run[q].message = n /\ run[r].message = n => q = r
  BY <1>1 DEF ReplyInv
<1>4. CASE n = m
  <2>1. MessagePart(n)' /\ DecisionKept(n)
    BY <1>4
  <2>2. ASSUME NEW q \in Processes, run'[q].message = n
        PROVE  HandlerOK(run'[q], draft'[n], mails'[n])
    <3>1. q = p
      BY <1>0, <1>2, <1>3, <1>4, <2>2
    <3> QED
      BY <1>0, <1>4, <2>2, <3>1
  <2> QED
    BY <1>2, <2>1, <2>2
<1>5. CASE n # m
  <2>1. MessageStands(n)
    BY <1>0, <1>5
  <2>2. MessagePart(n)'
    BY <1>3, <2>1 DEF MessagePart, MessageStands
  <2>3. ASSUME NEW q \in Processes, run'[q].message = n
        PROVE  HandlerOK(run'[q], draft'[n], mails'[n])
    <3>1. q # p
      BY <1>0, <1>5, <2>3, NoMessageIsOutside
    <3>2. run'[q] = run[q]
      BY <1>0, <3>1
    <3> QED
      BY <1>3, <2>1, <2>3, <3>2 DEF MessageStands
  <2>4. DecisionKept(n)
    BY <1>3, <2>1 DEF DecisionKept, MessageStands, MessagePart, MessageOK
  <2> QED
    BY <1>2, <2>2, <2>3, <2>4
<1> QED
  BY <1>4, <1>5

\* What a step makes of a run.
RunGone(t, step) == [t EXCEPT !.step = step]
RunMoved(t, to) == [t EXCEPT !.step = "read", !.to = to]
RunAcked(t) == [t EXCEPT !.step = "read", !.to = "approved", !.acks = TRUE]
RunReplies(t, placeholder) == [t EXCEPT !.step = "replySend", !.placeholder = placeholder]
RunReceived(m, step, to) == [IdleRun EXCEPT !.step = step, !.message = m, !.to = to]

\* The fields of a run that has moved.
LEMMA RunsFit ==
    ASSUME NEW t \in Run
    PROVE  /\ IdleRun.step = "idle" /\ IdleRun.message = NoMessage
           /\ \A step \in Steps :
                  LET u == RunGone(t, step)
                  IN /\ u.step = step /\ u.message = t.message
                     /\ u.to = t.to /\ u.acks = t.acks /\ u.placeholder = t.placeholder
           /\ \A to \in DraftStatuses :
                  /\ RunMoved(t, to).step = "read" /\ RunMoved(t, to).message = t.message
                  /\ RunMoved(t, to).to = to
           /\ LET u == RunAcked(t)
              IN /\ u.step = "read" /\ u.message = t.message
                 /\ u.to = "approved" /\ u.acks = TRUE
           /\ \A placeholder \in BOOLEAN :
                  LET u == RunReplies(t, placeholder)
                  IN /\ u.step = "replySend" /\ u.message = t.message
                     /\ u.placeholder = placeholder
           /\ \A m \in Messages, step \in Steps, to \in DraftStatuses :
                  LET u == RunReceived(m, step, to)
                  IN /\ u.step = step /\ u.message = m /\ u.to = to /\ u.acks = FALSE
  BY DEF IdleRun, RunGone, RunMoved, RunAcked, RunReplies, RunReceived, Run, Steps

\* The run of a step that only leads on.
LEMMA GoneFits ==
    ASSUME NEW t \in Run, NEW step \in Steps, NEW u, u = RunGone(t, step)
    PROVE  /\ u.step = step /\ u.message = t.message
           /\ u.to = t.to /\ u.acks = t.acks
  BY DEF RunGone, Run

\* What the ends of the steps make of all the runs.
LEMMA HandlerTurnsInto ==
    ASSUME EmailTypeOK, NEW p \in Processes
    PROVE  /\ RunEnds(p) => HandlerTurns(p, IdleRun)
           /\ \A step \in Steps : RunGoes(p, step) => HandlerTurns(p, RunGone(run[p], step))
           /\ \A to \in DraftStatuses : Move(p, to) => HandlerTurns(p, RunMoved(run[p], to))
           /\ \A t : run' = [run EXCEPT ![p] = t] => HandlerTurns(p, t)
<1> USE DEF EmailTypeOK, HandlerTurns
<1>1. RunEnds(p) => HandlerTurns(p, IdleRun)
  BY DEF RunEnds
<1>2. ASSUME NEW step \in Steps, RunGoes(p, step)
      PROVE  HandlerTurns(p, RunGone(run[p], step))
  BY <1>2 DEF RunGoes, RunGone
<1>3. ASSUME NEW to \in DraftStatuses, Move(p, to)
      PROVE  HandlerTurns(p, RunMoved(run[p], to))
  BY <1>3 DEF Move, RunMoved
<1>4. ASSUME NEW t, run' = [run EXCEPT ![p] = t]
      PROVE  HandlerTurns(p, t)
  BY <1>4
<1> QED
  BY <1>1, <1>2, <1>3, <1>4

\* The draft and the mails stand: only where the handler stands has to be shown.
LEMMA OnlyTheRunMoves ==
    ASSUME ReplyInv, NEW p \in Processes, NEW t, NEW m \in Messages,
           HandlerTurns(p, t), KeepHistory, UNCHANGED <<draft, cards, mails, garbled>>,
           t.message \in {m, NoMessage},
           run[p].message = m \/ t.message = m,
           m \notin overlap' /\ t.message = m => HandlerOK(t, draft[m], mails[m])
    PROVE  ReplyInv' /\ DecisionsKept
<1>1. \A n \in Messages : MessageStands(n)
  BY DEF MessageStands
<1>2. Answers(p, t, m)
  BY <1>1 DEF Answers
<1>3. m \notin overlap' => MessagePart(m)
  BY DEF KeepHistory, ReplyInv
<1>4. m \notin overlap' => MessagePart(m)' /\ DecisionKept(m)
  BY <1>3 DEF MessagePart, MessageOK, DecisionKept
<1> QED
  BY <1>2, <1>4, OneMessageAnswered

\* A handler that stops, wherever it stands.
LEMMA HandlerEnds ==
    ASSUME EmailInv, ReplyInv, NEW p \in Processes, ~RunAt(p, "idle"), RunEnds(p),
           KeepHistory, UNCHANGED <<draft, cards, mails, garbled>>
    PROVE  ReplyInv' /\ DecisionsKept
<1>1. PICK m \in Messages : m = run[p].message
  BY DEF EmailInv, RunsHaveMessages, MessageOf
<1>2. HandlerTurns(p, IdleRun) /\ IdleRun.message = NoMessage
  BY HandlerTurnsInto DEF EmailInv, IdleRun
<1> QED
  BY <1>1, <1>2, NoMessageIsOutside, OnlyTheRunMoves

\* A handler that goes on without a write or a mail.
LEMMA HandlerGoes ==
    ASSUME EmailInv, ReplyInv, NEW p \in Processes, ~RunAt(p, "idle"),
           NEW t, HandlerTurns(p, t), t.message = run[p].message,
           KeepHistory, UNCHANGED <<draft, cards, mails, garbled>>,
           \A m \in Messages :
               /\ m = run[p].message
               /\ MessagePart(m) /\ HandlerOK(run[p], draft[m], mails[m])
               => HandlerOK(t, draft[m], mails[m])
    PROVE  ReplyInv' /\ DecisionsKept
<1>1. PICK m \in Messages : m = run[p].message
  BY DEF EmailInv, RunsHaveMessages, MessageOf
<1>2. m \notin overlap' => HandlerOK(t, draft[m], mails[m])
  BY <1>1 DEF KeepHistory, ReplyInv
<1> QED
  BY <1>1, <1>2, OnlyTheRunMoves

\* A handler that writes the draft or sends a mail.
LEMMA HandlerActs ==
    ASSUME EmailInv, ReplyInv, NEW p \in Processes, NEW m \in Messages, m = run[p].message,
           NEW t, HandlerTurns(p, t), t.message \in {m, NoMessage},
           KeepHistory, \A n \in Messages \ {m} : MessageStands(n),
           MessagePart(m) /\ HandlerOK(run[p], draft[m], mails[m]) =>
               /\ MessagePart(m)' /\ DecisionKept(m)
               /\ t.message = m => HandlerOK(t, draft'[m], mails'[m])
    PROVE  ReplyInv' /\ DecisionsKept
<1>1. Answers(p, t, m)
  BY DEF Answers
<1>2. m \notin overlap' => MessagePart(m) /\ HandlerOK(run[p], draft[m], mails[m])
  BY DEF KeepHistory, ReplyInv
<1> QED
  BY <1>1, <1>2, OneMessageAnswered

\* What a write makes of the drafts.
LEMMA WriteWrites ==
    ASSUME EmailTypeOK, NEW p \in Processes, MessageOf(p) \in Messages,
           NEW status \in DraftStatuses, NEW placeholder \in BOOLEAN,
           Write(p, status, placeholder)
    PROVE  /\ draft'[MessageOf(p)].status = status
           /\ draft'[MessageOf(p)].placeholder = placeholder
           /\ \A n \in Messages \ {MessageOf(p)} : draft'[n] = draft[n]
  BY DEF EmailTypeOK, Write

\* A request is received.
LEMMA ReceivesKeeps ==
    ASSUME EmailInv, ReplyInv, NEW p \in Processes, NEW m \in Messages,
           NEW step \in {"ack", "draft", "read"}, NEW to \in DraftStatuses,
           Receives(p, m, step, to), KeepHistory,
           step = "read" => m \in cards /\ to \in {"approved", "rejected"}
    PROVE  ReplyInv' /\ DecisionsKept
<1>1. PICK t : t = RunReceived(m, step, to)
  OBVIOUS
<1>2. t.step = step /\ t.message = m /\ t.to = to /\ t.acks = FALSE
  BY <1>1 DEF RunReceived, IdleRun
<1>3. run' = [run EXCEPT ![p] = t]
  BY <1>1 DEF Receives, RunReceived
<1>4. HandlerTurns(p, t)
  BY <1>3, HandlerTurnsInto DEF EmailInv
<1>5. ASSUME m \notin overlap', step = "read"
      PROVE  ~draft[m].placeholder
  BY <1>5 DEF KeepHistory, ReplyInv, MessagePart
<1>6. m \notin overlap' => HandlerOK(t, draft[m], mails[m])
  BY <1>2, <1>5 DEF HandlerOK, ClickDecides
<1> QED
  BY <1>2, <1>4, <1>6, OnlyTheRunMoves DEF Receives

\* Every step of a handler keeps the invariant, and every decision.
LEMMA RepliesStep ==
    ASSUME EmailInv, ReplyInv, EmailNext
    PROVE  ReplyInv' /\ DecisionsKept
<1> PICK p \in Processes :
        \/ \E m \in Messages : Deliver(p, m) \/ Click(p, m)
        \/ Goes(p)
  BY DEF EmailNext
<1>t. /\ EmailTypeOK /\ run[p] \in Run
      /\ ~RunAt(p, "idle") => MessageOf(p) \in Messages
      /\ \A m \in Messages : draft[m] \in Draft /\ mails[m] \in Nat
  BY DEF EmailInv, EmailTypeOK, RunsHaveMessages
<1>1. ASSUME NEW m \in Messages, Deliver(p, m)
      PROVE  ReplyInv' /\ DecisionsKept
  BY <1>1, ReceivesKeeps DEF Deliver, DraftStatuses
<1>2. ASSUME NEW m \in Messages, Click(p, m)
      PROVE  ReplyInv' /\ DecisionsKept
  BY <1>2, ReceivesKeeps DEF Click, DraftStatuses
\* A step that only leads on.
<1>g. ASSUME NEW step \in Steps \ {"read"}, RunGoes(p, step), ~RunAt(p, "idle"),
             KeepHistory, UNCHANGED <<draft, cards, mails, garbled>>,
             \A m \in Messages, t \in Run :
                 /\ m = run[p].message /\ t.step = step /\ t.to = run[p].to
                 /\ t.acks = run[p].acks
                 /\ MessagePart(m) /\ HandlerOK(run[p], draft[m], mails[m])
                 => HandlerOK(t, draft[m], mails[m])
      PROVE  ReplyInv' /\ DecisionsKept
  <2>1. PICK t : t = RunGone(run[p], step)
    OBVIOUS
  <2>2. t.step = step /\ t.message = run[p].message /\ t.to = run[p].to /\ t.acks = run[p].acks
    <3>1. run[p] \in Run /\ step \in Steps
      BY <1>t
    <3> QED
      BY <2>1, <3>1, GoneFits
  <2>3. HandlerTurns(p, t)
    BY <1>g, <1>t, <2>1, HandlerTurnsInto
  <2>4. t \in Run
    BY <1>t, <2>1 DEF RunGone, Run
  <2> QED
    BY <1>g, <2>2, <2>3, <2>4, HandlerGoes
<1>3. CASE AckRead(p)
  <2>1. CASE RunGoes(p, "ackWrite") /\ MayCreate(p)
    BY <1>3, <1>g, <2>1 DEF AckRead, RunAt, Steps, HandlerOK, MayCreate, StatusOf, MessageOf
  <2>2. CASE RunGoes(p, "draft")
    BY <1>3, <1>g, <2>2 DEF AckRead, RunAt, Steps, HandlerOK
  <2> QED
    BY <1>3, <2>1, <2>2 DEF AckRead
<1>4. CASE DraftRead(p)
  <2>1. CASE MayCreate(p) /\ RunGoes(p, "draftWrite")
    BY <1>4, <1>g, <2>1 DEF DraftRead, RunAt, Steps, HandlerOK, MayCreate, StatusOf, MessageOf
  <2>2. CASE RunEnds(p)
    BY <1>4, <2>2, HandlerEnds DEF DraftRead, RunAt
  <2> QED
    BY <1>4, <2>1, <2>2 DEF DraftRead
<1>5. CASE MoveRead(p)
  <2>1. CASE Legal(StatusOf(p), run[p].to) /\ RunGoes(p, "write")
    <3>1. ASSUME NEW m \in Messages, NEW t \in Run,
                 m = run[p].message, t.step = "write", t.to = run[p].to,
                 t.acks = run[p].acks, HandlerOK(run[p], draft[m], mails[m])
          PROVE  HandlerOK(t, draft[m], mails[m])
      BY <1>5, <2>1, <3>1 DEF MoveRead, RunAt, HandlerOK, AckDecides, ClickDecides,
         SendingDecides, Legal, StatusOf, MessageOf
    <3> QED
      BY <1>5, <1>g, <2>1, <3>1 DEF MoveRead, RunAt, Steps
  <2>2. CASE RunEnds(p)
    BY <1>5, <2>2, HandlerEnds DEF MoveRead, RunAt
  <2> QED
    BY <1>5, <2>1, <2>2 DEF MoveRead
<1>6. CASE Stops(p)
  BY <1>6, HandlerEnds DEF Stops
<1>7. CASE ReplyRead(p)
  <2>1. CASE RunEnds(p)
    BY <1>7, <2>1, HandlerEnds DEF ReplyRead, RunAt
  <2>2. CASE ~RunEnds(p)
    <3>1. PICK placeholder \in BOOLEAN : placeholder = draft[MessageOf(p)].placeholder
      BY <1>7, <1>t DEF ReplyRead, RunAt, Draft
    <3>2. PICK t : t = RunReplies(run[p], placeholder)
      OBVIOUS
    <3>3. t.step = "replySend" /\ t.message = run[p].message /\ t.placeholder = placeholder
      BY <1>t, <3>2, RunsFit
    <3>4. run' = [run EXCEPT ![p] = t]
      BY <1>7, <2>2, <3>1, <3>2 DEF ReplyRead, RunReplies
    <3>5. HandlerTurns(p, t)
      BY <1>t, <3>4, HandlerTurnsInto
    <3>6. ASSUME NEW m \in Messages, m = run[p].message, HandlerOK(run[p], draft[m], mails[m])
          PROVE  HandlerOK(t, draft[m], mails[m])
      BY <1>7, <3>1, <3>3, <3>6 DEF ReplyRead, RunAt, HandlerOK, MessageOf
    <3> QED
      BY <1>7, <3>3, <3>5, <3>6, HandlerGoes DEF ReplyRead, RunAt
  <2> QED
    BY <2>1, <2>2
\* The steps that write or send.
<1>8. CASE AckWrite(p)
  <2>1. RunAt(p, "ackWrite") /\ ~RunAt(p, "idle")
    BY <1>8 DEF AckWrite, RunAt
  <2>2. CASE RunGoes(p, "draft") /\ UNCHANGED draft
    BY <1>8, <1>g, <2>1, <2>2 DEF AckWrite, RunAt, Steps, HandlerOK
  <2>3. ASSUME Write(p, "pending", TRUE), NEW step \in {"ackSend", "draft"}, RunGoes(p, step)
        PROVE  ReplyInv' /\ DecisionsKept
    <3>1. PICK m \in Messages : m = run[p].message /\ m = MessageOf(p)
      BY <1>t, <2>1 DEF MessageOf
    <3>2. PICK t : t = RunGone(run[p], step)
      OBVIOUS
    <3>0. step \in Steps
      BY DEF Steps
    <3>3. t.step = step /\ t.message = m
      BY <1>t, <3>0, <3>1, <3>2, RunsFit
    <3>8. HandlerTurns(p, t)
      BY <1>t, <2>3, <3>0, <3>2, HandlerTurnsInto
    <3>4. /\ draft'[m].status = "pending" /\ draft'[m].placeholder
          /\ \A n \in Messages \ {m} : draft'[n] = draft[n]
      BY <1>t, <2>3, <3>1, WriteWrites DEF DraftStatuses
    <3>5. UNCHANGED <<cards, mails, garbled>> /\ KeepHistory
      BY <1>8 DEF AckWrite
    <3>6. \A n \in Messages \ {m} : MessageStands(n)
      BY <3>4, <3>5 DEF MessageStands
    <3>7. ASSUME MessagePart(m), HandlerOK(run[p], draft[m], mails[m])
          PROVE  MessagePart(m)' /\ DecisionKept(m) /\ HandlerOK(t, draft'[m], mails'[m])
      <4>1. draft[m].status = "absent" /\ mails[m] = 0 /\ m \notin cards /\ m \notin garbled
        BY <2>1, <3>7 DEF RunAt, HandlerOK, MessagePart, MessageOK
      <4> QED
        BY <3>3, <3>4, <3>5, <4>1 DEF MessagePart, MessageOK, DecisionKept, HandlerOK
    <3> QED
      BY <3>1, <3>3, <3>5, <3>6, <3>7, <3>8, HandlerActs
  <2> QED
    BY <1>8, <2>2, <2>3 DEF AckWrite
<1>9. CASE DraftWrite(p)
  <2>1. RunAt(p, "draftWrite") /\ ~RunAt(p, "idle")
    BY <1>9 DEF DraftWrite, RunAt
  <2>2. PICK m \in Messages : m = run[p].message /\ m = MessageOf(p)
    BY <1>t, <2>1 DEF MessageOf
  <2>3. HandlerTurns(p, IdleRun) /\ IdleRun.message = NoMessage
    BY <1>9, <1>t, HandlerTurnsInto DEF DraftWrite, IdleRun
  <2>4. /\ draft'[m].status = "pending" /\ ~draft'[m].placeholder
        /\ \A n \in Messages \ {m} : draft'[n] = draft[n]
    BY <1>9, <1>t, <2>2, WriteWrites DEF DraftWrite, DraftStatuses
  <2>5. UNCHANGED <<mails, garbled>> /\ cards' \subseteq cards \cup {m} /\ KeepHistory
    BY <1>9, <2>2 DEF DraftWrite
  <2>6. \A n \in Messages \ {m} : MessageStands(n)
    BY <2>4, <2>5 DEF MessageStands
  <2>7. ASSUME MessagePart(m), HandlerOK(run[p], draft[m], mails[m])
        PROVE  MessagePart(m)' /\ DecisionKept(m)
    <3>1. draft[m].status = "absent" /\ mails[m] = 0 /\ m \notin garbled
      BY <2>1, <2>7 DEF RunAt, HandlerOK, MessagePart, MessageOK
    <3> QED
      BY <2>4, <2>5, <3>1 DEF MessagePart, MessageOK, DecisionKept
  <2> QED
    BY <2>2, <2>3, <2>5, <2>6, <2>7, HandlerActs, NoMessageIsOutside
\* One more mail, without the placeholder, to a message that got none.
<1>s. ASSUME NEW m \in Messages, m = MessageOf(p), m = run[p].message,
             NEW placeholder \in BOOLEAN, Sends(p, placeholder), UNCHANGED <<draft, cards>>,
             KeepHistory, RunAt(p, "ackSend") \/ RunAt(p, "replySend"),
             placeholder => RunAt(p, "replySend") /\ run[p].placeholder,
             NEW t, HandlerTurns(p, t), t.message \in {m, NoMessage},
             t.message = m =>
                 \/ t.step = "draft"
                 \/ RunAt(p, "ackSend") /\ t.step = "read" /\ t.to = "approved" /\ t.acks
                 \/ RunAt(p, "replySend") /\ t.step = "read" /\ t.to = "sent"
      PROVE  ReplyInv' /\ DecisionsKept
  <2>1. /\ mails'[m] = mails[m] + 1
        /\ \A n \in Messages \ {m} : mails'[n] = mails[n]
    BY <1>s, <1>t DEF Sends, EmailTypeOK
  <2>2. garbled' \subseteq garbled \cup {m} /\ (~placeholder => garbled' = garbled)
    BY <1>s DEF Sends
  <2>3. \A n \in Messages \ {m} : MessageStands(n)
    BY <1>s, <2>1, <2>2 DEF MessageStands
  <2>4. ASSUME MessagePart(m), HandlerOK(run[p], draft[m], mails[m])
        PROVE  /\ MessagePart(m)' /\ DecisionKept(m)
               /\ t.message = m => HandlerOK(t, draft'[m], mails'[m])
    <3>1. mails[m] = 0 /\ ~placeholder /\ m \notin garbled
      BY <1>s, <2>4 DEF RunAt, HandlerOK, MessagePart
    <3>2. mails'[m] = 1 /\ m \notin garbled' /\ draft'[m] = draft[m] /\ cards' = cards
      BY <1>s, <2>1, <2>2, <3>1
    <3>3. /\ RunAt(p, "ackSend") => draft[m].status = "pending" /\ draft[m].placeholder
          /\ RunAt(p, "replySend") => draft[m].status = "approved"
      BY <2>4 DEF RunAt, HandlerOK
    <3>4. MessagePart(m)' /\ DecisionKept(m)
      BY <1>s, <2>4, <3>2, <3>3 DEF MessagePart, MessageOK, DecisionKept
    <3>5. t.message = m => HandlerOK(t, draft'[m], mails'[m])
      BY <1>s, <3>2, <3>3 DEF HandlerOK, AckDecides, SendingDecides
    <3> QED
      BY <3>4, <3>5
  <2> QED
    BY <1>s, <2>3, <2>4, HandlerActs
<1>10. CASE AckSend(p)
  <2>1. /\ RunAt(p, "ackSend") /\ ~RunAt(p, "idle")
        /\ UNCHANGED <<draft, cards>> /\ KeepHistory
    BY <1>10 DEF AckSend, RunAt
  <2>2. PICK m \in Messages : m = run[p].message /\ m = MessageOf(p)
    BY <1>t, <2>1 DEF MessageOf
  <2>3. CASE RunGoes(p, "draft") /\ UNCHANGED <<mails, garbled>>
    BY <1>g, <2>1, <2>3 DEF Steps, HandlerOK
  <2>4. CASE RunGoes(p, "draft") /\ Sends(p, FALSE)
    <3>1. PICK t : t = RunGone(run[p], "draft")
      OBVIOUS
    <3>2. run[p] \in Run /\ "draft" \in Steps
      BY <1>t DEF Steps
    <3>3. t.step = "draft" /\ t.message = m
      BY <2>2, <3>1, <3>2, GoneFits
    <3>4. HandlerTurns(p, t)
      BY <1>t, <2>4, <3>1, <3>2, HandlerTurnsInto
    <3> QED
      BY <1>s, <2>1, <2>2, <2>4, <3>3, <3>4
  <2>5. CASE /\ Sends(p, FALSE)
             /\ run' = [run EXCEPT ![p].step = "read", ![p].to = "approved", ![p].acks = TRUE]
    <3>1. PICK t : t = RunAcked(run[p])
      OBVIOUS
    <3>2. t.step = "read" /\ t.to = "approved" /\ t.acks /\ t.message = m
      BY <1>t, <2>2, <3>1, RunsFit
    <3>3. run' = [run EXCEPT ![p] = t]
      BY <2>5, <3>1 DEF RunAcked
    <3>4. HandlerTurns(p, t)
      BY <1>t, <3>3, HandlerTurnsInto
    <3> QED
      BY <1>s, <2>1, <2>2, <2>5, <3>2, <3>4
  <2> QED
    BY <1>10, <2>3, <2>4, <2>5 DEF AckSend
<1>11. CASE ReplySend(p)
  <2>1. /\ RunAt(p, "replySend") /\ ~RunAt(p, "idle")
        /\ UNCHANGED <<draft, cards>> /\ KeepHistory
    BY <1>11 DEF ReplySend, RunAt
  <2>2. PICK m \in Messages : m = run[p].message /\ m = MessageOf(p)
    BY <1>t, <2>1 DEF MessageOf
  <2>3. PICK placeholder \in BOOLEAN : placeholder = run[p].placeholder
    BY <1>t DEF Run
  <2>4. CASE RunEnds(p) /\ UNCHANGED <<mails, garbled>>
    BY <2>1, <2>4, HandlerEnds
  <2>5. CASE RunEnds(p) /\ Sends(p, run[p].placeholder)
    <3>1. HandlerTurns(p, IdleRun) /\ IdleRun.message = NoMessage
      BY <1>t, <2>5, HandlerTurnsInto DEF IdleRun
    <3> QED
      BY <1>s, <2>1, <2>2, <2>3, <2>5, <3>1, NoMessageIsOutside
  <2>6. CASE Move(p, "sent") /\ Sends(p, run[p].placeholder)
    <3>1. PICK t : t = RunMoved(run[p], "sent")
      OBVIOUS
    <3>2. t.step = "read" /\ t.to = "sent" /\ t.message = m /\ HandlerTurns(p, t)
      BY <1>t, <2>2, <2>6, <3>1, RunsFit, HandlerTurnsInto DEF DraftStatuses
    <3> QED
      BY <1>s, <2>1, <2>2, <2>3, <2>6, <3>2
  <2> QED
    BY <1>11, <2>4, <2>5, <2>6 DEF ReplySend
<1>12. CASE MoveWrite(p)
  <2>1. /\ RunAt(p, "write") /\ ~RunAt(p, "idle")
        /\ UNCHANGED <<cards, mails, garbled>> /\ KeepHistory
    BY <1>12 DEF MoveWrite, RunAt
  <2>2. PICK m \in Messages : m = run[p].message /\ m = MessageOf(p)
    BY <1>t, <2>1 DEF MessageOf
  <2>3. /\ draft'[m].status = run[p].to /\ draft'[m].placeholder = draft[m].placeholder
        /\ \A n \in Messages \ {m} : draft'[n] = draft[n]
    BY <1>12, <1>t, <2>2 DEF MoveWrite, EmailTypeOK, Draft
  <2>4. \A n \in Messages \ {m} : MessageStands(n)
    BY <2>1, <2>3 DEF MessageStands
  <2>5. ASSUME MessagePart(m), HandlerOK(run[p], draft[m], mails[m])
        PROVE  /\ MessagePart(m)' /\ DecisionKept(m)
               /\ run[p].to = "approved" /\ run[p].acks =>
                      draft'[m].status = "approved" /\ mails'[m] = 1
               /\ run[p].to = "approved" /\ ~run[p].acks =>
                      draft'[m].status = "approved" /\ ~draft'[m].placeholder /\ mails'[m] = 0
    <3>1. \/ AckDecides(run[p], draft[m], mails[m])
          \/ ClickDecides(run[p], draft[m])
          \/ SendingDecides(run[p], draft[m], mails[m])
      BY <2>1, <2>5 DEF HandlerOK, RunAt
    <3>2. CASE AckDecides(run[p], draft[m], mails[m])
      BY <2>1, <2>3, <2>5, <3>2 DEF AckDecides, MessagePart, MessageOK, DecisionKept
    <3>3. CASE ClickDecides(run[p], draft[m])
      BY <2>1, <2>3, <2>5, <3>3 DEF ClickDecides, MessagePart, MessageOK, DecisionKept, RunAt
    <3>4. CASE SendingDecides(run[p], draft[m], mails[m])
      BY <2>1, <2>3, <2>5, <3>4 DEF SendingDecides, MessagePart, MessageOK, DecisionKept
    <3> QED
      BY <3>1, <3>2, <3>3, <3>4
  <2>6. CASE run[p].to # "approved" /\ RunEnds(p)
    <3>1. HandlerTurns(p, IdleRun) /\ IdleRun.message = NoMessage
      BY <1>t, <2>6, HandlerTurnsInto DEF IdleRun
    <3> QED
      BY <2>1, <2>2, <2>4, <2>5, <3>1, HandlerActs, NoMessageIsOutside
  <2>7. CASE run[p].to = "approved" /\ run[p].acks /\ Move(p, "sent")
    <3>1. PICK t : t = RunMoved(run[p], "sent")
      OBVIOUS
    <3>2. t.step = "read" /\ t.to = "sent" /\ t.message = m /\ HandlerTurns(p, t)
      BY <1>t, <2>2, <2>7, <3>1, RunsFit, HandlerTurnsInto DEF DraftStatuses
    <3>3. ASSUME MessagePart(m), HandlerOK(run[p], draft[m], mails[m])
          PROVE  HandlerOK(t, draft'[m], mails'[m])
      BY <2>5, <2>7, <3>2, <3>3 DEF HandlerOK, SendingDecides
    <3> QED
      BY <2>1, <2>2, <2>4, <2>5, <3>2, <3>3, HandlerActs
  <2>8. CASE run[p].to = "approved" /\ ~run[p].acks /\ RunGoes(p, "reply")
    <3>1. PICK t : t = RunGone(run[p], "reply")
      OBVIOUS
    <3>2. t.step = "reply" /\ t.message = m /\ HandlerTurns(p, t)
      BY <1>t, <2>2, <2>8, <3>1, RunsFit, HandlerTurnsInto DEF Steps
    <3>3. ASSUME MessagePart(m), HandlerOK(run[p], draft[m], mails[m])
          PROVE  HandlerOK(t, draft'[m], mails'[m])
      BY <2>5, <2>8, <3>2, <3>3 DEF HandlerOK
    <3> QED
      BY <2>1, <2>2, <2>4, <2>5, <3>2, <3>3, HandlerActs
  <2> QED
    BY <1>12, <2>6, <2>7, <2>8 DEF MoveWrite
<1> QED
  BY <1>1, <1>2, <1>3, <1>4, <1>5, <1>6, <1>7, <1>8, <1>9, <1>10, <1>11, <1>12 DEF Goes

--------------------------------------------------------------------------------
(* The parts together.                                                        *)

OnceInv == FrontDeskInv /\ AlertInv /\ ReplyInv

\* Nobody is at work, nothing was sent and nobody alerted at the start.
LEMMA OnceInitially == Init => OnceInv
<1> SUFFICES ASSUME Init PROVE OnceInv
  OBVIOUS
<1>1. FrontDeskInv
  BY Initially
<1>2. \A r \in Requests : request[r].step = "idle"
  BY DEF Init, LeadInit, IdleRequest
<1>3. alerts = 0
  BY DEF Init, LeadInit
<1>4. AlertParts
  <2>1. OneAtWork /\ WritersAreCurrent /\ NumberIsKnown /\ CapturesAskForNumber
    BY <1>2, <1>3 DEF OneAtWork, WritersAreCurrent, NumberIsKnown, CapturesAskForNumber,
       RequestAt
  <2>2. AlertIsFirst /\ alerts <= 1
    BY <1>3 DEF AlertIsFirst
  <2> QED
    BY <2>1, <2>2 DEF AlertParts
<1>5. ReplyInv
  <2>1. \A p \in Processes : run[p].message = NoMessage
    BY DEF Init, EmailInit, IdleRun
  <2>2. \A m \in Messages : MessagePart(m)
    BY DEF Init, EmailInit, MessagePart, MessageOK
  <2> QED
    BY <2>1, <2>2, NoMessageIsOutside DEF ReplyInv
<1> QED
  BY <1>1, <1>4, <1>5 DEF OnceInv, AlertInv

\* Every step of the front desk keeps the invariants, and every decision.
LEMMA NextKeepsOnce ==
    ASSUME OnceInv, [Next]_vars
    PROVE  OnceInv' /\ DecisionsKept
<1> USE DEF OnceInv
<1>1. FrontDeskInv' /\ LeadInv /\ EmailInv
  BY NextKeepsInv, StutterKeepsInv DEF FrontDeskInv
<1>2. LeadStep => AlertInv'
  BY <1>1, AlertStep
<1>3. EmailNext => ReplyInv' /\ DecisionsKept
  BY <1>1, RepliesStep
<1>4. ASSUME UNCHANGED emailVars
      PROVE  ReplyInv' /\ DecisionsKept
  <2>1. ReplyInv'
    BY <1>4 DEF emailVars, ReplyInv, MessagePart
  <2>2. DecisionsKept
    BY <1>4 DEF emailVars, ReplyInv, MessagePart, MessageOK, DecisionsKept, DecisionKept
  <2> QED
    BY <2>1, <2>2
<1>5. UNCHANGED leadVars => LeadStep
  BY DEF LeadStep
<1>6. CASE Scheduling
  BY <1>1, <1>2, <1>4, <1>5, <1>6 DEF Scheduling
<1>7. CASE Capturing
  <2>1. LeadStep
    BY <1>7 DEF Capturing, LeadStep
  <2> QED
    BY <1>1, <1>2, <1>4, <1>7, <2>1 DEF Capturing
<1>8. CASE Replying
  <2>1. EmailNext /\ UNCHANGED leadVars
    BY <1>8 DEF Replying, EmailNext
  <2> QED
    BY <1>1, <1>2, <1>3, <1>5, <2>1
<1>9. ASSUME NEW p \in Processes, NEW m \in Messages, Inbound(p, m)
      PROVE  OnceInv' /\ DecisionsKept
  <2>1. EmailNext
    BY <1>9 DEF Inbound, EmailNext
  <2>2. LeadStep
    BY <1>9 DEF Inbound, LeadStep, leadVars
  <2> QED
    BY <1>1, <1>2, <1>3, <2>1, <2>2
<1>10. ASSUME NEW b \in Bookings, NEW r \in Requests, HandOff(b, r)
       PROVE  OnceInv' /\ DecisionsKept
  <2>1. LeadStep /\ UNCHANGED emailVars
    BY <1>10 DEF HandOff, LeadStep
  <2> QED
    BY <1>1, <1>2, <1>4, <2>1
<1>11. CASE UNCHANGED vars
  BY <1>1, <1>2, <1>4, <1>5, <1>11 DEF vars
<1> QED
  BY <1>6, <1>7, <1>8, <1>9, <1>10, <1>11 DEF Next

\* The invariant holds of every state, and every step keeps the decisions.
LEMMA OnceAlways == Spec => []OnceInv /\ [][DecisionsKept]_vars
<1>1. OnceInv /\ [Next]_vars => OnceInv' /\ [DecisionsKept]_vars
  BY NextKeepsOnce
<1> QED
  BY OnceInitially, <1>1, PTL DEF Spec

\* Staff are alerted once, for any number of leads, requests, chat messages and
\* hand-overs, unless two requests ran at the same time or a purge took the lead.
THEOREM StaffAlertedOnce == Spec => []AlertedOnce
<1>1. OnceInv => AlertedOnce
  BY DEF OnceInv, AlertInv, Alone, AlertParts, AlertedOnce
<1> QED
  BY OnceAlways, <1>1, PTL

\* A message that no two processes worked on at once gets one reply at most, and
\* never the placeholder, for any number of deliveries, clicks and processes.
THEOREM OneReplyEach == Spec => []OneReplyUnlessOverlap
<1>1. OnceInv => OneReplyUnlessOverlap
  BY DEF OnceInv, ReplyInv, MessagePart, MessageOK, OneReplyUnlessOverlap
<1> QED
  BY OnceAlways, <1>1, PTL

\* With the same exception a rejected or a sent draft stays so, nothing is sent for
\* a rejected one, and the mail went out before the draft says so.
THEOREM DecisionsStand == Spec => DecisionStands
<1> DEFINE Stand == \A m \in Messages \ overlap' :
           /\ draft[m].status = "rejected" =>
                  draft'[m].status = "rejected" /\ mails'[m] = 0
           /\ draft[m].status = "sent" => draft'[m].status = "sent"
           /\ draft'[m].status = "sent" => mails'[m] = 1
<1>1. [DecisionsKept]_vars => [Stand]_emailVars
  BY DEF DecisionsKept, DecisionKept, vars
<1>2. Spec => [][Stand]_emailVars
  BY OnceAlways, <1>1, PTL
<1> QED
  BY <1>2 DEF DecisionStands
================================================================================
