----------------------------- MODULE Appointments ------------------------------
(******************************************************************************)
(* Showroom visits: AppointmentManager (appointment_manager.py).              *)
(*                                                                            *)
(* A booking runs a Firestore transaction in a thread: it reads the           *)
(* confirmed appointments of its slot and commits if nobody changed them;     *)
(* otherwise the transaction runs again.  The request stops waiting after a   *)
(* timeout and the thread goes on.                                            *)
(*                                                                            *)
(* Abstractions.  A slot is a date and a time of it that the opening hours    *)
(* and the booking window allow.  Appointment ids are fresh, so an            *)
(* appointment is named by the booking that makes it; a visitor who tries     *)
(* again is another booking.                                                  *)
(*                                                                            *)
(* A definition named ...Slip is a plausible mistake in the one below it.     *)
(******************************************************************************)
EXTENDS Naturals, FiniteSets

CONSTANTS
    Slots,
    Bookings,     \* booking requests and the appointments they make
    MAX_PER_SLOT

ASSUME BookingsFinite == IsFiniteSet(Bookings)
ASSUME MaxPerSlotNat == MAX_PER_SLOT \in Nat

VARIABLES
    appointment,  \* status of each appointment
    booking       \* the booking requests

appointmentVars == <<appointment, booking>>

Booking == [step : {"idle", "read", "commit", "refused", "held", "handed"},
            slot : Slots, seen : SUBSET Bookings, waits : BOOLEAN]

AppointmentTypeOK ==
    /\ appointment \in [Bookings -> {"absent", "confirmed", "cancelled"}]
    /\ booking \in [Bookings -> Booking]

AppointmentInit ==
    /\ appointment = [b \in Bookings |-> "absent"]
    /\ booking \in [Bookings -> {[step |-> "idle", slot |-> s, seen |-> {},
                                  waits |-> TRUE] : s \in Slots}]

--------------------------------------------------------------------------------

BookingAt(b, step) == booking[b].step = step
BookingGoes(b, step) == booking' = [booking EXCEPT ![b].step = step]

\* The query inside the transaction.
Confirmed(s) == {b \in Bookings : appointment[b] = "confirmed" /\ booking[b].slot = s}

\* create_appointment_sync refuses a slot that is over or that is none, once,
\* before the transaction.
Book(b) ==
    /\ BookingAt(b, "idle")
    /\ \E step \in {"read", "refused"} : BookingGoes(b, step)
    /\ UNCHANGED appointment

Full(s) == Cardinality(Confirmed(s)) >= MAX_PER_SLOT

ReadSlot(b) ==
    /\ BookingAt(b, "read")
    /\ IF Full(booking[b].slot)
       THEN BookingGoes(b, "refused")
       ELSE booking' = [booking EXCEPT ![b].step = "commit",
                                       ![b].seen = Confirmed(booking[b].slot)]
    /\ UNCHANGED appointment

\* The query is not part of the transaction.
UndisturbedSlip(b) == TRUE

\* Firestore commits only over the result the transaction has read.
Undisturbed(b) == Confirmed(booking[b].slot) = booking[b].seen

\* The request may not hear of a commit that was applied.
Commit(b) ==
    /\ BookingAt(b, "commit")
    /\ IF Undisturbed(b)
       THEN /\ appointment' = [appointment EXCEPT ![b] = "confirmed"]
            /\ \E waits \in {booking[b].waits, FALSE} :
                   booking' = [booking EXCEPT ![b].step = "held", ![b].waits = waits]
       ELSE BookingGoes(b, "read") /\ UNCHANGED appointment

\* wait_for gives up.
BookingTimesOut(b) ==
    /\ booking[b].step \in {"read", "commit"} /\ booking[b].waits
    /\ booking' = [booking EXCEPT ![b].waits = FALSE]
    /\ UNCHANGED appointment

\* The transaction ends with an error, or the thread dies with its call.
BookingFails(b) ==
    /\ booking[b].step \in {"read", "commit"}
    /\ BookingGoes(b, "refused")
    /\ UNCHANGED appointment

\* cancel_appointment: whatever the status is; the reads before only ask
\* whether the document is there.
Cancel(b) ==
    /\ appointment[b] # "absent"
    /\ appointment' = [appointment EXCEPT ![b] = "cancelled"]
    /\ UNCHANGED booking

AppointmentNext ==
    \E b \in Bookings :
        \/ Book(b) \/ ReadSlot(b) \/ Commit(b)
        \/ BookingTimesOut(b) \/ BookingFails(b) \/ Cancel(b)

AppointmentSpec == AppointmentInit /\ [][AppointmentNext]_appointmentVars

--------------------------------------------------------------------------------

\* "Two concurrent bookings can both see < MAX_PER_SLOT and both commit -> the
\* slot is oversold": with the query inside the transaction that does not
\* happen, in time or late, whatever is cancelled meanwhile.
NoOversell == \A s \in Slots : Cardinality(Confirmed(s)) <= MAX_PER_SLOT
================================================================================
