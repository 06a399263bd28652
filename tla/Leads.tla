--------------------------------- MODULE Leads ---------------------------------
(******************************************************************************)
(* The leads of one visitor: LeadManager (lead_management.py) and those who   *)
(* use it: the chat handler, the contact form, the CRM routes and the         *)
(* inbound webhook of main.py, the capture helpers (tools/contact_capture.py  *)
(* and save_lead in tools/crm_tools.py), the triage of mira_routes.py, and    *)
(* the retention purge of old leads (retention_purge.py).                     *)
(*                                                                            *)
(* Only transition_lead_status is a transaction.  Everybody else reads a      *)
(* lead, changes the object and writes the whole of it back (update_lead),    *)
(* in separate calls.                                                         *)
(*                                                                            *)
(* Abstractions.  The visitor has one phone number and one chat session; a    *)
(* lead shows which of them it carries.  An appointment request, campaign     *)
(* and home fields, names, notes and priorities are left out, so an update    *)
(* of those writes the lead back as it was read.  A request stops when it     *)
(* fails, at any step.                                                        *)
(*                                                                            *)
(* A definition named ...Slip is a plausible mistake in the one below it.     *)
(******************************************************************************)
EXTENDS Naturals, FiniteSets

CONSTANTS
    LeadIds,
    Requests,     \* requests that read, then write
    Operators,    \* staff who move a lead through its life cycle
    Moves,        \* statuses operators and triage ask for
    None

Mira == "system:mira"

ASSUME NoneIsNoLead == None \notin LeadIds
ASSUME OperatorsArePeople == Mira \notin Operators /\ None \notin Operators \cup {Mira}

VARIABLES
    lead,      \* the collection leads
    request,   \* the requests
    alerts,    \* e-mails to staff the capture of chat messages sent: 0, 1 or more
    crowded,   \* history: two requests were at work at once
    retention  \* ages, the running purge, and history: what it deleted

leadVars == <<lead, request, alerts, crowded, retention>>

CONTACTED_LEAD_STATUSES == {"contacted", "qualified", "converted"}
Statuses == CONTACTED_LEAD_STATUSES \cup {"new", "archived"}

ASSUME MovesAreStatuses == Moves \subseteq Statuses

\* first: first_contacted_by, set together with first_contacted_at.
Lead == [status : Statuses, first : Operators \cup {Mira, None},
         phone : BOOLEAN, session : BOOLEAN]
Kinds == {"chat", "capture", "callback", "edit", "triage", "handoff"}
Request == [step : {"idle", "session", "phone", "id", "create", "write", "alert"},
            kind : Kinds \cup {None}, lead : LeadIds \cup {None},
            seen : Lead \cup {None}]
IdleRequest == [step |-> "idle", kind |-> None, lead |-> None, seen |-> None]

ASSUME NoneIsNoDocument == None \notin Lead

\* old: leads past their retention period; doomed: what a purge has selected.
Retention == [old : SUBSET LeadIds, doomed : SUBSET LeadIds, purged : SUBSET LeadIds]

LeadTypeOK ==
    /\ lead \in [LeadIds -> Lead \cup {None}]
    /\ request \in [Requests -> Request]
    /\ alerts \in 0..2
    /\ crowded \in BOOLEAN
    /\ retention \in Retention

LeadInit ==
    /\ lead = [l \in LeadIds |-> None]
    /\ request = [r \in Requests |-> IdleRequest]
    /\ alerts = 0
    /\ crowded = FALSE
    /\ retention = [old |-> {}, doomed |-> {}, purged |-> {}]

--------------------------------------------------------------------------------

RequestAt(r, step) == request[r].step = step
RequestGoes(r, step) == request' = [request EXCEPT ![r].step = step]
RequestEnds(r) == request' = [request EXCEPT ![r] = IdleRequest]

\* Ids are made from what a lead is about, not anew.
FreshSlip == {l \in LeadIds : lead[l] = None}

Fresh == {l \in LeadIds : lead[l] = None} \ retention.purged

\* A new lead of the visitor, under an id nobody has used; a chat request that
\* takes the id another one took in the same second is a request that stops.
Adds(phone, session) ==
    \E l \in Fresh :
        lead' = [lead EXCEPT ![l] = [status |-> "new", first |-> None,
                                     phone |-> phone, session |-> session]]

\* create_lead at once: the contact form and save_lead, whose number may be
\* written in a way that the look-up by phone does not match.
CreateLead ==
    /\ \E phone \in BOOLEAN : Adds(phone, FALSE)
    /\ UNCHANGED <<request, alerts, crowded, retention>>

\* The first response is stamped again.
TransitionedSlip(doc, status, actor) ==
    IF doc.status = status THEN doc
    ELSE [doc EXCEPT !.status = status,
                     !.first = IF status \in CONTACTED_LEAD_STATUSES THEN actor ELSE @]

\* Status and actor are swapped.
TransitionedSwapSlip(doc, status, actor) ==
    IF doc.status = status THEN doc
    ELSE [doc EXCEPT !.status = status,
                     !.first = IF status \in CONTACTED_LEAD_STATUSES /\ @ = None
                               THEN status ELSE @]

\* apply_lead_status_transition
Transitioned(doc, status, actor) ==
    IF doc.status = status THEN doc
    ELSE [doc EXCEPT !.status = status,
                     !.first = IF status \in CONTACTED_LEAD_STATUSES /\ @ = None
                               THEN actor ELSE @]

\* transition_lead_status, one transaction; also after its caller gave up.
Transition(l, status, operator) ==
    /\ lead[l] # None
    /\ lead' = [lead EXCEPT ![l] = Transitioned(@, status, operator)]
    /\ UNCHANGED <<request, alerts, crowded, retention>>

\* Where a request starts to look for its lead.
Begins == [chat |-> "session", capture |-> "phone", callback |-> "session",
           edit |-> "id", triage |-> "id", handoff |-> "id"]

Ask(r, kind) ==
    /\ RequestAt(r, "idle")
    /\ request' = [request EXCEPT ![r].step = Begins[kind], ![r].kind = kind]
    /\ crowded' = (crowded \/ \E q \in Requests \ {r} : ~RequestAt(q, "idle"))
    /\ UNCHANGED <<lead, alerts, retention>>

Carrying(field) == {l \in LeadIds : lead[l] # None /\ lead[l][field]}
Takes(r, l) == request' = [request EXCEPT ![r].step = "write", ![r].lead = l,
                                          ![r].seen = lead[l]]

\* get_lead_by_phone. The capture of a message leaves a lead it finds alone or
\* fills in a blank, and looks for the session's lead when it finds none.
FindByPhone(r) ==
    /\ RequestAt(r, "phone")
    /\ \/ \E l \in Carrying("phone") :
              \/ request[r].kind = "callback" /\ lead[l].status = "new" /\ Takes(r, l)
              \/ request[r].kind = "callback" /\ lead[l].status # "new"
                 /\ RequestGoes(r, "create")
              \/ request[r].kind = "capture" /\ Takes(r, l)
              \/ request[r].kind = "capture" /\ RequestEnds(r)
       \/ /\ Carrying("phone") = {}
          /\ RequestGoes(r, IF request[r].kind = "capture" THEN "session" ELSE "create")
    /\ UNCHANGED <<lead, alerts, crowded, retention>>

\* get_lead_by_session. A callback takes a new lead, or none of the session's.
FindBySession(r) ==
    /\ RequestAt(r, "session")
    /\ \/ \E l \in Carrying("session") :
              IF request[r].kind = "callback" /\ lead[l].status # "new"
              THEN RequestGoes(r, "create") ELSE Takes(r, l)
       \/ /\ Carrying("session") = {}
          /\ RequestGoes(r, IF request[r].kind = "callback" THEN "phone" ELSE "create")
    /\ UNCHANGED <<lead, alerts, crowded, retention>>

\* get_lead, for the CRM form, the triage, and the booking that comes from a
\* contact lead: it makes a lead of its own unless this one has its phone.
FindById(r) ==
    /\ RequestAt(r, "id")
    /\ \/ \E l \in LeadIds : /\ lead[l] # None
                             /\ request[r].kind = "handoff" => lead[l].phone
                             /\ Takes(r, l)
       \/ request[r].kind = "handoff" /\ RequestGoes(r, "create")
    /\ UNCHANGED <<lead, alerts, crowded, retention>>

Create(r) ==
    /\ RequestAt(r, "create")
    /\ Adds(request[r].kind # "chat", request[r].kind # "handoff")
    /\ IF request[r].kind = "capture" THEN RequestGoes(r, "alert") ELSE RequestEnds(r)
    /\ UNCHANGED <<alerts, crowded, retention>>

\* What becomes of the lead in the hands of the request.
Changes(r) ==
    LET doc == request[r].seen
    IN CASE request[r].kind \in {"capture", "callback"} -> {[doc EXCEPT !.phone = TRUE]}
         [] request[r].kind = "handoff" -> {[doc EXCEPT !.status = "qualified"]}
         [] request[r].kind = "triage" ->
                {doc} \cup {Transitioned(doc, status, Mira) : status \in Moves}
         [] OTHER -> {doc}

\* Staff hear of every message with a number in it.
FirstContactSlip(r) == request[r].kind = "capture"

\* had_contact: the capture tells staff of the first number only.
FirstContact(r) == request[r].kind = "capture" /\ ~request[r].seen.phone

\* update_lead: the whole lead, over whatever is there now.
Update(r) ==
    /\ RequestAt(r, "write")
    /\ \E doc \in Changes(r) : lead' = [lead EXCEPT ![request[r].lead] = doc]
    /\ IF FirstContact(r) THEN RequestGoes(r, "alert") ELSE RequestEnds(r)
    /\ UNCHANGED <<alerts, crowded, retention>>

AlertStaff(r) ==
    /\ RequestAt(r, "alert")
    /\ alerts' = IF alerts < 2 THEN alerts + 1 ELSE 2
    /\ RequestEnds(r)
    /\ UNCHANGED <<lead, crowded, retention>>

RequestStops(r) ==
    /\ ~RequestAt(r, "idle")
    /\ RequestEnds(r)
    /\ UNCHANGED <<lead, alerts, crowded, retention>>

\* created_at passes the cutoff, whatever happens to the lead since.
LeadAges(l) ==
    /\ lead[l] # None /\ l \notin retention.old
    /\ retention' = [retention EXCEPT !.old = @ \cup {l}]
    /\ UNCHANGED <<lead, request, alerts, crowded>>

\* _select_expired: at most a batch of the old leads.
SelectExpired ==
    /\ retention.doomed = {}
    /\ \E doomed \in SUBSET {l \in retention.old : lead[l] # None} :
           /\ doomed # {}
           /\ retention' = [retention EXCEPT !.doomed = doomed]
    /\ UNCHANGED <<lead, request, alerts, crowded>>

\* _delete_ids, unless the job stops before: it scans the other collections
\* first, and looks at none of the leads again.
DeleteExpired ==
    /\ retention.doomed # {}
    /\ \/ /\ lead' = [l \in LeadIds |-> IF l \in retention.doomed THEN None ELSE lead[l]]
          /\ retention' = [retention EXCEPT !.doomed = {}, !.purged = @ \cup retention.doomed]
       \/ retention' = [retention EXCEPT !.doomed = {}] /\ UNCHANGED lead
    /\ UNCHANGED <<request, alerts, crowded>>

LeadNext ==
    \/ CreateLead
    \/ \E l \in LeadIds, status \in Moves, operator \in Operators :
           Transition(l, status, operator)
    \/ \E r \in Requests :
           \/ \E kind \in Kinds \ {"handoff"} : Ask(r, kind)
           \/ FindByPhone(r) \/ FindBySession(r) \/ FindById(r)
           \/ Create(r) \/ Update(r) \/ AlertStaff(r) \/ RequestStops(r)
    \/ \E l \in LeadIds : LeadAges(l)
    \/ SelectExpired \/ DeleteExpired

LeadSpec == LeadInit /\ [][LeadNext]_leadVars

--------------------------------------------------------------------------------

Lost(l) == /\ lead[l] # None /\ lead'[l] # None
           /\ \/ lead[l].first # None /\ lead'[l].first # lead[l].first
              \/ lead[l].phone /\ ~lead'[l].phone

\* "The first transition into a contacted stage records an immutable response
\* clock": as the documents say it.
FirstResponseStays ==
    [][\A l \in LeadIds : lead[l] # None /\ lead[l].first # None /\ lead'[l] # None
           => lead'[l].first = lead[l].first]_lead

\* What the code keeps of it: a first response or a phone number is lost only to
\* a request that read the lead before somebody else changed it. No operator, by
\* a transition, overwrites the first responder.
LostToStaleCopy ==
    [][\A l \in LeadIds : Lost(l) =>
           \E r \in Requests : /\ RequestAt(r, "write") /\ request[r].lead = l
                               /\ request[r].seen # lead[l]]_lead

\* "Alert staff exactly once": unless two requests of the visitor run at the
\* same time, or a purge takes the lead, the capture of chat messages does not
\* alert twice, in however many messages the number is given and wherever a
\* request stopped.
AlertedOnce == ~crowded /\ retention.purged = {} => alerts <= 1

\* What the purge deleted stays deleted: only a request that had read the lead
\* before brings it back, by writing the whole of it.
PurgedStays ==
    [][\A l \in retention.purged : lead[l] = None /\ lead'[l] # None =>
           \E r \in Requests : /\ RequestAt(r, "write") /\ request[r].lead = l
                               /\ request[r].seen # None]_lead
================================================================================
