-------------------------- MODULE SchedulingSafety --------------------------
(***************************************************************************)
(* What the scheduling of HackWerk promises, stated over the state of      *)
(* module Scheduling.                                                      *)
(***************************************************************************)
EXTENDS Scheduling

ReservingNow(a) == Reserving(appointments[a].life)

\* The reservation rows say of every appointment what the appointment says of
\* itself, and carry the current exclusive flag of a resource they hold: the
\* invariant refreshReservations maintains and the exclusion constraints rely on.
DriverRowsMirror ==
  \A row \in driverRows :
    row = DriverRow(row.appointment, appointments[row.appointment], row.driver)

ResourceRowsMirror ==
  \A row \in resourceRows :
    /\ row = ResourceRow(row.appointment, appointments[row.appointment], row.resource,
                         row.purpose, row.exclusive)
    /\ row.active => row.exclusive = resources[row.resource].exclusive

RowsMirrorAppointments == DriverRowsMirror /\ ResourceRowsMirror

\* Reservation rows belong to appointments that were created, as the foreign key
\* of the schema demands.
RowsHaveAppointment ==
  /\ \A row \in driverRows : Used(row.appointment)
  /\ \A row \in resourceRows : Used(row.appointment)

\* All that keeps double bookings away at once: the rows are right, and the
\* exclusion constraints hold of them.  Every step preserves it.
ReservationsSound ==
  /\ TypeOK
  /\ RowsMirrorAppointments
  /\ RowsHaveAppointment
  /\ DriverExclusion(driverRows)
  /\ ResourceExclusion(resourceRows)

\* No driver and no exclusive resource is promised to two appointments at the
\* same time, buffers included, whatever requests race each other.
Disjoint(a, b) ==
  \/ To(appointments[a]) <= From(appointments[b])
  \/ To(appointments[b]) <= From(appointments[a])

SharesDriver(a, b) == CrewOf(a) \cap CrewOf(b) # {}

SharesExclusiveResource(a, b) ==
  \E e \in EquipmentOf(a), f \in EquipmentOf(b) :
    e.resource = f.resource /\ resources[e.resource].exclusive

NoDoubleBooking ==
  \A a, b \in Appointments :
    (/\ a # b /\ ReservingNow(a) /\ ReservingNow(b)
     /\ SharesDriver(a, b) \/ SharesExclusiveResource(a, b)) => Disjoint(a, b)

\* The workflow of a job agrees with its appointments: at most one is open; a
\* job is scheduled exactly while one is fixed, in planning while one is
\* proposed, and only then or for a draft; the other jobs have no open
\* appointment, except the draft that archiving leaves behind, and a job that is
\* scheduled, done or called off is not on the waiting list.
OpenOf(j) == {a \in Appointments : appointments[a].job = j /\ Editable(appointments[a].life)}
HasOpen(j, life) == \E a \in OpenOf(j) : appointments[a].life = life

WorkflowAgrees ==
  \A j \in Jobs :
    /\ \A a, b \in OpenOf(j) : a = b
    /\ HasOpen(j, "fixed") <=> jobs[j].workflow = "scheduled"
    /\ HasOpen(j, "proposal") => jobs[j].workflow = "planning"
    /\ HasOpen(j, "draft") => jobs[j].workflow = "planning" \/ jobs[j].archived
    /\ jobs[j].workflow = "planning" => OpenOf(j) # {}
    /\ jobs[j].waiting => jobs[j].workflow \in {"waitlist", "planning"}

\* Drivers and resources that an appointment reserves stay in service, and an
\* appointment that reserves has a driver.
ReservedTeamInService ==
  \A a \in Appointments :
    ReservingNow(a) => /\ CrewOf(a) # {}
                       /\ AllActive(TeamOf(a))

\* A fixed appointment can be carried out: it is long enough for its job as the
\* job is described now, and the transport the job needs is still arranged, even
\* after the job or a resource was edited.
FixedIsExecutable ==
  \A a \in Appointments :
    appointments[a].life = "fixed" =>
      /\ appointments[a].dur >= DataOf(appointments[a]).minutes
      /\ TransportPlanned(EquipmentOf(a), DataOf(appointments[a]))

\* The confirmation status of an appointment and its requests tell the same
\* story: only the newest request can be active, a fixed appointment shows the
\* answer given to it or waits for one, and an appointment in planning neither
\* waits nor can be answered.
HasActiveRequest(a) == requests[a] # <<>> /\ Active(LatestOf(a))
AnswerOf(request) == IF request.response = "none" THEN "pending" ELSE request.response

ConfirmationConsistent ==
  \A a \in Appointments :
    /\ \A i \in DOMAIN requests[a] : i < Len(requests[a]) => ~Active(requests[a][i])
    /\ (appointments[a].life = "fixed" /\ HasActiveRequest(a)) =>
         appointments[a].conf = AnswerOf(LatestOf(a))
    /\ (appointments[a].life = "fixed" /\ ~HasActiveRequest(a)) =>
         appointments[a].conf = "not_requested"
    /\ appointments[a].life \in {"draft", "proposal"} =>
         appointments[a].conf = "not_requested" /\ ~HasActiveRequest(a)

\* A customer never confirms a date that is not the one agreed: a request that
\* can still be answered was written for the present time of the appointment and
\* the present description of the job.
AnswersConcernPresentPlan ==
  \A a \in Appointments :
    (appointments[a].life = "fixed" /\ HasActiveRequest(a)) =>
      /\ LatestOf(a).start = appointments[a].start
      /\ LatestOf(a).dur = appointments[a].dur
      /\ LatestOf(a).facing = Facing(DataOf(appointments[a]))

\* A fixed appointment is only called off with a reason, although the service
\* asks for it on a snapshot that the store does not compare.
CancelledFixedHasReason ==
  \A a \in Appointments :
    (appointments[a].life = "cancelled" /\ appointments[a].fixedOnce) => appointments[a].reasoned

-----------------------------------------------------------------------------
(* What a step may never do *)

\* A confirmation link that stopped working never works again, whatever happens
\* to the appointment afterwards.
Live(a, i) ==
  /\ Active(requests[a][i])
  /\ ~requests[a][i].expired
  /\ appointments[a].life = "fixed"

LinkNeverRevives ==
  [][\A a \in Appointments : \A i \in DOMAIN requests[a] : ~Live(a, i) => ~Live(a, i)']_vars

\* Optimistic locking is complete: whatever a client can have decided on changes
\* only together with the version of the appointment.
AnswersOf(a) ==
  [i \in DOMAIN requests[a] |-> <<requests[a][i].status, requests[a][i].response>>]
Visible(a) == <<appointments[a], TeamOf(a), AnswersOf(a)>>

VersionCoversState ==
  [][\A a \in Appointments :
       Visible(a)' # Visible(a) => appointments[a]'.version > appointments[a].version]_vars

\* The check of the service is repeated where it counts: a step that creates or
\* changes a reservation finds the drivers available then, or has an override.
\* Swapping is the exception: only the service looks at availability there.
Booking(a) == <<appointments[a].life, From(appointments[a]), To(appointments[a]), CrewOf(a)>>
Swapping == \E c \in Clients : calls[c].op = "swap" /\ calls'[c] # calls[c]

ReservationIsVetted ==
  [][~Swapping =>
       \A a \in Appointments :
         (Booking(a)' # Booking(a) /\ ReservingNow(a)') =>
           CrewAvailable(TeamOf(a), appointments[a], appointments[a].override)']_vars

-----------------------------------------------------------------------------
(* What the calendar promises (module Calendar) *)

ExclusiveEquipmentOf(a) ==
  {r \in {e.resource : e \in EquipmentOf(a)} : resources[r].exclusive}

\* The states of Calendar that a state of the tables stands for.
BookingOf(a) ==
  [held |-> ReservingNow(a),
   crew |-> IF ReservingNow(a) THEN CrewOf(a) ELSE {},
   equipment |-> IF ReservingNow(a) THEN ExclusiveEquipmentOf(a) ELSE {},
   from |-> IF ReservingNow(a) THEN From(appointments[a]) ELSE 0,
   to |-> IF ReservingNow(a) THEN To(appointments[a]) ELSE 0]

Promises == INSTANCE Calendar WITH
  Owners <- Appointments, booking <- [a \in Appointments |-> BookingOf(a)]

\* Seen from outside, the tables, transactions and races are a calendar: a step
\* books, rebooks or releases one appointment or exchanges two, leaves everyone
\* else's booking as it is and never lets two bookings clash.
CalendarKept == Promises!Spec

-----------------------------------------------------------------------------
(* What the documents say and the code does not keep *)

\* An archived job has left the plan: nothing is reserved for it.
ArchivedJobHoldsNothing ==
  \A a \in Appointments : jobs[appointments[a].job].archived => ~ReservingNow(a)
=============================================================================
