------------------------------- MODULE MCFrontDesk -------------------------------
(* FrontDesk on small instances, for TLC.                                    *)
EXTENDS FrontDesk, TLC

MCSymmetry == Permutations(Requests) \cup Permutations(LeadIds)

\* The booking that is handed to a lead: which of them it is makes no difference.
MCHandedOver == CHOOSE b \in Bookings : TRUE

\* Nothing came by e-mail.
NoMail ==
    /\ \A p \in Processes : RunAt(p, "idle") /\ counted[p] = 0
    /\ \A m \in Messages : draft[m].status = "absent" /\ mails[m] = 0
    /\ overlap = {}

\* Bookings race while there are no leads; leads are worked on while there is no
\* booking, or one that somebody waits for, since only HandOff connects the two;
\* the purge runs beside one request, of a visitor who books nothing; and e-mail
\* is answered while nobody touches the lead it made, since only Inbound connects
\* those.
MCFocus ==
    \/ NoMail /\ \A l \in LeadIds, r \in Requests : lead[l] = None /\ RequestAt(r, "idle")
    \/ LET made == {b \in Bookings : ~BookingAt(b, "idle")}
       IN /\ NoMail
          /\ made \subseteq {MCHandedOver}
          /\ retention.old # {} =>
                 made = {} /\ Cardinality({r \in Requests : ~RequestAt(r, "idle")}) <= 1
          /\ \A b \in made : /\ booking[b].step \in {"held", "handed"}
                             /\ booking[b].waits /\ appointment[b] = "confirmed"
    \/ /\ \A b \in Bookings : BookingAt(b, "idle")
       /\ \A r \in Requests : RequestAt(r, "idle")
       /\ retention = [old |-> {}, doomed |-> {}, purged |-> {}]
       /\ ~crowded /\ alerts = 0
       /\ Cardinality({l \in LeadIds : lead[l] # None}) <= 1
       /\ \A l \in LeadIds : lead[l] # None =>
              lead[l] = [status |-> "new", first |-> None, phone |-> FALSE, session |-> FALSE]
================================================================================
