------------------------------- MODULE FrontDesk -------------------------------
(******************************************************************************)
(* What visitors of the site and senders of e-mail set going in main.py: it   *)
(* composes Appointments and Leads through the booking route                  *)
(* (create_appointment), and EmailReplies and Leads through the inbound       *)
(* webhook (email_inbound_webhook).                                           *)
(*                                                                            *)
(* A visitor who is told of an appointment is handed to a lead by the same    *)
(* request; one whose request timed out is not, though the appointment may    *)
(* come about.  A delivery of an e-mail makes a lead, each time, and goes on  *)
(* to the reply if that fails.                                                *)
(******************************************************************************)
EXTENDS Appointments, Leads, EmailReplies

vars == <<appointmentVars, leadVars, emailVars>>

TypeOK == AppointmentTypeOK /\ LeadTypeOK /\ EmailTypeOK

Init == AppointmentInit /\ LeadInit /\ EmailInit

\* The second half of the route. A visitor without a contact lead gets a lead
\* at once (the FindById that finds none).
HandOff(b, r) ==
    /\ BookingAt(b, "held") /\ booking[b].waits
    /\ BookingGoes(b, "handed")
    /\ Ask(r, "handoff")
    /\ UNCHANGED <<appointment, emailVars>>

\* email_inbound_webhook, up to its reply: no step of the pipeline waits for it.
Inbound(p, m) ==
    /\ Deliver(p, m)
    /\ Adds(FALSE, FALSE) \/ UNCHANGED lead
    /\ UNCHANGED <<request, alerts, crowded, retention, appointmentVars>>

Scheduling == AppointmentNext /\ UNCHANGED <<leadVars, emailVars>>

Capturing == LeadNext /\ UNCHANGED <<appointmentVars, emailVars>>

\* The rest of the pipeline, and the buttons of the card.
Replying ==
    /\ \E p \in Processes :
           \/ \E m \in Messages : Click(p, m)
           \/ Goes(p)
    /\ UNCHANGED <<appointmentVars, leadVars>>

Next ==
    \/ Scheduling
    \/ Capturing
    \/ Replying
    \/ \E p \in Processes, m \in Messages : Inbound(p, m)
    \/ \E b \in Bookings, r \in Requests : HandOff(b, r)

Spec == Init /\ [][Next]_vars
================================================================================
