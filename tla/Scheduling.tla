----------------------------- MODULE Scheduling -----------------------------
(***************************************************************************)
(* Scheduling of chipping jobs: appointments, the reservations they hold   *)
(* on drivers and resources, the jobs and the waiting list behind them and *)
(* the confirmation requests sent to customers.                            *)
(*                                                                         *)
(* An operation of the appointment service runs in two steps.  The service *)
(* reads a snapshot outside any transaction, validates the request against *)
(* it and hands it on (Submit...); the store then runs one transaction,    *)
(* under the scheduling advisory lock and with the appointment, its job,   *)
(* its drivers and its resources locked, which checks again and either     *)
(* changes the rows (Commit...) or rolls back (Fail).  Anything may happen *)
(* between the two.  Operations that decide nothing on a snapshot are      *)
(* single steps.                                                           *)
(***************************************************************************)
EXTENDS Integers, Sequences, FiniteSets, Reservations

CONSTANTS
  Appointments,  \* identities of appointments
  Jobs, Drivers, Resources,
  Admin,         \* the administrator as the one who completes an appointment
  Clients,       \* concurrent requests to the appointment service
  CallsOf,       \* CallsOf[c]: the service operations client c performs
  Ambient,       \* the single-step operations that take place
  Starts,        \* start times a request may name
  Durations,     \* lengths a request may name
  Buffers,       \* buffers [before, after] a request may name
  JobData,       \* planning data [transport, minutes, volume] of a job
  Teams,         \* assignments [drivers, equipment] a request may name
  Fleet,         \* [type, exclusive] of every resource when it was entered
  Edits,         \* [type, exclusive] an edit of a resource may enter
  Absences,      \* sets of slots in which a driver may be unavailable
  Reasons,       \* whether a request gives its optional reasons and confirmations
  Foresight,     \* how far a client may anticipate the version of an appointment
  MaxVersion,    \* bound: appointments are not written beyond this version
  MaxRequests    \* bound: confirmation requests per appointment

Transports == {"none", "internal", "external", "unplanned"}
ResourceTypes == {"chipper", "transport_vehicle", "trailer", "other"}
Purposes == {"chipping", "transport", "trailer", "other"}
Responses == {"confirmed", "declined", "callback_requested"}

ASSUME TimeAssumption ==
  /\ Starts \subseteq Int
  /\ Durations \subseteq Nat \ {0}
  /\ Buffers \subseteq [before : Nat, after : Nat]
  /\ Absences \subseteq SUBSET Int
ASSUME InputAssumption ==
  /\ JobData \subseteq [transport : Transports, minutes : Nat, volume : Nat]
  /\ Teams \subseteq [drivers : (SUBSET Drivers) \ {{}},
                      equipment : SUBSET [resource : Resources, purpose : Purposes]]
  /\ \A team \in Teams : \A e, f \in team.equipment : e.resource = f.resource => e = f
ASSUME FleetAssumption ==
  /\ Edits \subseteq [type : ResourceTypes, exclusive : BOOLEAN]
  /\ Fleet \in [Resources -> [type : ResourceTypes, exclusive : BOOLEAN]]
ASSUME ReasonAssumption == Reasons \subseteq BOOLEAN
ASSUME IdentityAssumption == Admin \notin Drivers /\ Jobs # {}
ASSUME BoundAssumption == Foresight \in Nat /\ MaxVersion \in Nat /\ MaxRequests \in Nat

VARIABLES
  appointments,  \* table appointments; an unused identity has life "none"
  driverRows,    \* table appointment_drivers
  resourceRows,  \* table appointment_resources
  jobs,          \* table jobs; waiting: the job has an active waitlist entry
  drivers,       \* table drivers and their availability
  resources,     \* table resources
  requests,      \* table confirmation_requests, per appointment by token_version
  calls          \* what each client's request has validated and not yet committed

bookings == <<appointments, driverRows, resourceRows>>
staff == <<drivers, resources>>
vars == <<bookings, jobs, staff, requests, calls>>

-----------------------------------------------------------------------------
(* Reading the state *)

Used(a) == appointments[a].life # "none"
Editable(life) == life \in {"draft", "proposal", "fixed"}

CrewOf(a) == {row.driver : row \in RowsOf(driverRows, a)}
EquipmentOf(a) ==
  {[resource |-> row.resource, purpose |-> row.purpose] : row \in RowsOf(resourceRows, a)}
DataOf(ap) == jobs[ap.job].data

\* What a confirmation message tells the customer about the job: job_type and volume.
Facing(data) == [transported |-> data.transport # "none", volume |-> data.volume]

Available(d, ap) == \A t \in From(ap) .. (To(ap) - 1) : t \notin drivers[d].absent

HasChipper(equipment) ==
  \E e \in equipment : e.purpose = "chipping" /\ resources[e.resource].type = "chipper"

TransportPlanned(equipment, data) ==
  \/ data.transport \in {"none", "external"}
  \/ /\ data.transport = "internal"
     /\ \E e \in equipment :
          e.purpose = "transport" /\ resources[e.resource].type = "transport_vehicle"

AllActive(team) ==
  /\ \A d \in team.drivers : drivers[d].active
  /\ \A e \in team.equipment : resources[e.resource].active

TeamOf(a) == [drivers |-> CrewOf(a), equipment |-> EquipmentOf(a)]

\* validateAppointmentAssignments, with waive its variant without chipper
ValidTeam(team, data, waive) ==
  /\ team.drivers # {}
  /\ TransportPlanned(team.equipment, data)
  /\ waive \/ HasChipper(team.equipment)

CrewAvailable(team, ap, override) == override \/ \A d \in team.drivers : Available(d, ap)

\* The query AppointmentAssignmentsReady.
AssignmentsReady(team, data, waive) == ValidTeam(team, data, waive) /\ AllActive(team)

\* Seeded fault: availability is left to the check on the snapshot.
EnsureTeamOnly(team, ap, data, override, waive) ==
  /\ AssignmentsReady(team, data, waive)
  /\ ap.dur >= data.minutes

\* ensureAssignmentsReady, inside every transaction that creates or keeps a reservation
EnsureReady(team, ap, data, override, waive) ==
  /\ AssignmentsReady(team, data, waive)
  /\ ap.dur >= data.minutes
  /\ CrewAvailable(team, ap, override)

-----------------------------------------------------------------------------
(* Writing bookings.  The exclusion constraints and the unique index are   *)
(* checked at every statement; a violation aborts the transaction.         *)

OneActivePerJob(apps) ==
  \A a, b \in Appointments :
    (a # b /\ Editable(apps[a].life) /\ Editable(apps[b].life)) => apps[a].job # apps[b].job

Exclusive == [r \in Resources |-> resources[r].exclusive]

Write(apps, drows, rrows) ==
  /\ OneActivePerJob(apps)
  /\ DriverExclusion(drows)
  /\ ResourceExclusion(rrows)
  /\ appointments' = apps
  /\ driverRows' = drows
  /\ resourceRows' = rrows

\* The appointment row changes and its reservations are refreshed.
Save(a, ap) ==
  Write([appointments EXCEPT ![a] = ap],
        RefreshDrivers(driverRows, a, ap), RefreshResources(resourceRows, a, ap, Exclusive))

\* The appointment row changes and its assignments are replaced.
SaveTeam(a, ap, team) ==
  Write([appointments EXCEPT ![a] = ap],
        RowsOfOthers(driverRows, a) \cup {DriverRow(a, ap, d) : d \in team.drivers},
        RowsOfOthers(resourceRows, a) \cup
          {ResourceRow(a, ap, e.resource, e.purpose, Exclusive[e.resource]) : e \in team.equipment})

SetWorkflow(j, workflow, waiting) ==
  jobs' = [jobs EXCEPT ![j].workflow = workflow, ![j].waiting = waiting]

Bumped(ap) == [ap EXCEPT !.version = @ + 1]

-----------------------------------------------------------------------------
(* Confirmation requests *)

Active(request) == request.status = "active"
LatestOf(a) == requests[a][Len(requests[a])]

\* Seeded fault: nothing is revoked.
NotRevoked(list) == list

\* RevokeActiveConfirmationRequests
Revoked(list) == [i \in DOMAIN list |-> [list[i] EXCEPT !.status = "revoked"]]

NewRequest(ap) ==
  [status |-> "active", response |-> "none", expired |-> FALSE,
   start |-> ap.start, dur |-> ap.dur, facing |-> Facing(DataOf(ap))]

\* planConfirmationAt: reachable says whether some channel can reach the customer.
CanPlanConfirmation(a, reachable, silent) ==
  /\ reachable \/ silent
  /\ reachable => Len(requests[a]) < MaxRequests

WithConfirmation(ap, reachable) ==
  [ap EXCEPT !.conf = IF reachable THEN "pending" ELSE "not_requested", !.silent = ~reachable]

\* Seeded fault: old requests stay active when no new one is sent.
PlanConfirmationIfReachable(a, ap, reachable) ==
  requests' = [requests EXCEPT ![a] = IF reachable THEN Append(Revoked(@), NewRequest(ap)) ELSE @]

PlanConfirmation(a, ap, reachable) ==
  requests' = [requests EXCEPT ![a] =
    IF reachable THEN Append(Revoked(@), NewRequest(ap)) ELSE Revoked(@)]

\* Seeded fault: reopening forgets the requests of the cancelled appointment.
KeepRequests(a) == UNCHANGED requests

RevokeRequests(a) == requests' = [requests EXCEPT ![a] = Revoked(@)]

-----------------------------------------------------------------------------
(* Requests in flight.  Ask hands a validated request to the store, Take   *)
(* is the beginning of the store's transaction, Fail any error before its  *)
(* commit: a stale version, a constraint, a lost connection.               *)

NoCall == [op |-> "none"]

Ask(c, call) ==
  /\ calls[c] = NoCall
  /\ call.op \in CallsOf[c]
  /\ calls' = [calls EXCEPT ![c] = call]
  /\ UNCHANGED <<bookings, jobs, staff, requests>>

Take(c, op) == calls[c].op = op /\ calls' = [calls EXCEPT ![c] = NoCall]

Fail(c) ==
  /\ calls[c] # NoCall
  /\ calls' = [calls EXCEPT ![c] = NoCall]
  /\ UNCHANGED <<bookings, jobs, staff, requests>>

\* Seeded fault: the version is not compared.
AtAnyVersion(a, version) == Used(a) /\ version < MaxVersion

\* The row locked by GetAppointmentForUpdate has the version the client expects.
AtVersion(a, version) ==
  Used(a) /\ appointments[a].version = version /\ version < MaxVersion

-----------------------------------------------------------------------------
(* Creating appointments *)

NewAppointment(j, start, dur, buffer) ==
  [life |-> "draft", conf |-> "not_requested", job |-> j, start |-> start, dur |-> dur,
   before |-> buffer.before, after |-> buffer.after, override |-> FALSE, silent |-> FALSE,
   fixedOnce |-> FALSE, reasoned |-> FALSE, version |-> 1]

CreateDraft(a, j, start, dur, buffer) ==
  /\ "createDraft" \in Ambient
  /\ ~Used(a)
  /\ ~jobs[j].archived
  /\ jobs[j].waiting
  /\ jobs[j].workflow \in {"waitlist", "planning"}
  /\ Write([appointments EXCEPT ![a] = NewAppointment(j, start, dur, buffer)],
           driverRows, resourceRows)
  /\ SetWorkflow(j, "planning", TRUE)
  /\ UNCHANGED <<staff, requests, calls>>

SubmitPlan(c, j, start, dur, buffer, team, override) ==
  LET ap == NewAppointment(j, start, dur, buffer) IN
  /\ jobs[j].waiting /\ ~jobs[j].archived /\ jobs[j].workflow = "waitlist"
  /\ AllActive(team)
  /\ ValidTeam(team, jobs[j].data, FALSE)
  /\ dur >= jobs[j].data.minutes
  /\ CrewAvailable(team, ap, override)
  /\ Ask(c, [op |-> "plan", job |-> j, start |-> start, dur |-> dur, buffer |-> buffer,
             team |-> team, override |-> override])

\* Draft, assignments and proposal in one transaction: versions 1, 2 and 3.
CommitPlan(c, a) ==
  LET call == calls[c]
      draft == NewAppointment(call.job, call.start, call.dur, call.buffer)
      ap == [draft EXCEPT !.life = "proposal", !.override = call.override, !.version = 3]
  IN /\ Take(c, "plan")
     /\ ~Used(a)
     /\ jobs[call.job].waiting /\ ~jobs[call.job].archived
     /\ jobs[call.job].workflow = "waitlist"
     /\ EnsureReady(call.team, ap, jobs[call.job].data, call.override, FALSE)
     /\ SaveTeam(a, ap, call.team)
     /\ SetWorkflow(call.job, "planning", TRUE)
     /\ UNCHANGED <<staff, requests>>

-----------------------------------------------------------------------------
(* Changing appointments *)

SubmitAssign(c, a, team, override) ==
  LET ap == appointments[a] IN
  /\ Editable(ap.life)
  /\ AllActive(team)
  /\ ValidTeam(team, DataOf(ap), FALSE)
  /\ CrewAvailable(team, ap, override)
  /\ Ask(c, [op |-> "assign", id |-> a, version |-> ap.version, team |-> team,
             override |-> override])

CommitAssign(c) ==
  LET call == calls[c]
      a == call.id
      ap == [Bumped(appointments[a]) EXCEPT !.override = call.override]
  IN /\ Take(c, "assign")
     /\ AtVersion(a, call.version)
     /\ Editable(ap.life)
     /\ AllActive(call.team)
     /\ \/ ap.life = "draft"
        \/ EnsureReady(call.team, ap, DataOf(ap), call.override, FALSE)
     /\ SaveTeam(a, ap, call.team)
     /\ UNCHANGED <<jobs, staff, requests>>

SubmitPropose(c, a, override) ==
  LET ap == appointments[a] IN
  /\ ap.life = "draft"
  /\ ValidTeam(TeamOf(a), DataOf(ap), FALSE)
  /\ CrewAvailable(TeamOf(a), ap, override)
  /\ Ask(c, [op |-> "propose", id |-> a, version |-> ap.version, override |-> override])

CommitPropose(c) ==
  LET call == calls[c]
      a == call.id
      ap == [Bumped(appointments[a]) EXCEPT !.life = "proposal", !.override = call.override]
  IN /\ Take(c, "propose")
     /\ AtVersion(a, call.version)
     /\ appointments[a].life = "draft"
     /\ EnsureReady(TeamOf(a), ap, DataOf(ap), call.override, FALSE)
     /\ Save(a, ap)
     /\ SetWorkflow(ap.job, "planning", jobs[ap.job].waiting)
     /\ UNCHANGED <<staff, requests>>

\* MoveAppointment and ResizeAppointment
SubmitReschedule(c, a, start, dur, override, silent) ==
  LET ap == appointments[a] IN
  /\ Editable(ap.life)
  /\ CrewAvailable(TeamOf(a), [ap EXCEPT !.start = start, !.dur = dur], override)
  /\ Ask(c, [op |-> "reschedule", id |-> a, version |-> ap.version, start |-> start,
             dur |-> dur, override |-> override, silent |-> silent])

\* Seeded faults: no new version; an end that lies one slot too early.
RescheduledUnversioned(ap, call) ==
  [ap EXCEPT !.start = call.start, !.dur = call.dur, !.override = call.override]
RescheduledTooShort(ap, call) ==
  [Bumped(ap) EXCEPT !.start = call.start, !.dur = call.dur - 1, !.override = call.override]

Rescheduled(ap, call) ==
  [Bumped(ap) EXCEPT !.start = call.start, !.dur = call.dur, !.override = call.override]

CommitReschedule(c, reachable) ==
  LET call == calls[c]
      a == call.id
      moved == Rescheduled(appointments[a], call)
      fixed == moved.life = "fixed"
      ap == IF fixed THEN WithConfirmation(moved, reachable) ELSE moved
  IN /\ Take(c, "reschedule")
     /\ AtVersion(a, call.version)
     /\ Editable(moved.life)
     /\ \/ moved.life = "draft"
        \/ EnsureReady(TeamOf(a), moved, DataOf(moved), call.override, FALSE)
     /\ Save(a, ap)
     /\ \/ /\ fixed
           /\ CanPlanConfirmation(a, reachable, call.silent)
           /\ PlanConfirmation(a, ap, reachable)
        \/ /\ ~fixed
           /\ UNCHANGED requests
     /\ UNCHANGED <<jobs, staff>>

SubmitFix(c, a, waive, silent) ==
  LET ap == appointments[a]
      waived == waive /\ ~HasChipper(EquipmentOf(a))
  IN /\ ap.life = "proposal"
     /\ ValidTeam(TeamOf(a), DataOf(ap), waived)
     /\ CrewAvailable(TeamOf(a), ap, ap.override)
     /\ Ask(c, [op |-> "fix", id |-> a, version |-> ap.version, waive |-> waived,
                silent |-> silent])

CommitFix(c, reachable) ==
  LET call == calls[c]
      a == call.id
      fixed == [Bumped(appointments[a]) EXCEPT !.life = "fixed", !.fixedOnce = TRUE]
      ap == WithConfirmation(fixed, reachable)
  IN /\ Take(c, "fix")
     /\ AtVersion(a, call.version)
     /\ appointments[a].life = "proposal"
     /\ EnsureReady(TeamOf(a), ap, DataOf(ap), ap.override, call.waive)
     /\ Save(a, ap)
     /\ SetWorkflow(ap.job, "scheduled", FALSE)
     /\ CanPlanConfirmation(a, reachable, call.silent)
     /\ PlanConfirmation(a, ap, reachable)
     /\ UNCHANGED staff

\* The only operation whose snapshot need not have the expected version.
SubmitCancel(c, a, version, reason) ==
  LET ap == appointments[a] IN
  /\ ap.life = "fixed" => reason
  /\ Editable(ap.life)
  /\ version \in ap.version .. ap.version + Foresight
  /\ Ask(c, [op |-> "cancel", id |-> a, version |-> version, reason |-> reason])

\* A cancelled job leaves the plan; an appointment that never bound anyone
\* puts its job back on the waiting list.
CommitCancel(c) ==
  LET call == calls[c]
      a == call.id
      old == appointments[a]
      ap == [Bumped(old) EXCEPT !.life = "cancelled", !.reasoned = call.reason]
  IN /\ Take(c, "cancel")
     /\ AtVersion(a, call.version)
     /\ Editable(old.life)
     /\ Save(a, ap)
     /\ IF old.life = "fixed"
        THEN SetWorkflow(ap.job, "cancelled", jobs[ap.job].waiting)
        ELSE SetWorkflow(ap.job, "waitlist", TRUE)
     /\ UNCHANGED <<staff, requests>>

SubmitReopen(c, a, override) ==
  LET ap == appointments[a] IN
  /\ ap.life = "cancelled"
  /\ ValidTeam(TeamOf(a), DataOf(ap), FALSE)
  /\ CrewAvailable(TeamOf(a), ap, override)
  /\ Ask(c, [op |-> "reopen", id |-> a, version |-> ap.version, override |-> override])

\* ReopenCancelledAppointment clears what fixing and cancelling had recorded.
Reopened(ap, override) ==
  [Bumped(ap) EXCEPT !.life = "proposal", !.conf = "not_requested", !.override = override,
                     !.silent = FALSE, !.fixedOnce = FALSE, !.reasoned = FALSE]

CommitReopen(c) ==
  LET call == calls[c]
      a == call.id
      ap == Reopened(appointments[a], call.override)
  IN /\ Take(c, "reopen")
     /\ AtVersion(a, call.version)
     /\ appointments[a].life = "cancelled"
     /\ EnsureReady(TeamOf(a), ap, DataOf(ap), call.override, FALSE)
     /\ Save(a, ap)
     /\ SetWorkflow(ap.job, "planning", jobs[ap.job].waiting)
     /\ RevokeRequests(a)
     /\ UNCHANGED staff

\* CompletionGuard.Check
MayComplete(ap, at, by, override) == at >= ap.start \/ (by = Admin /\ override)

\* LockDriverCompletionEligibility
Entitled(a, by) ==
  by = Admin \/ (by \in CrewOf(a) /\ drivers[by].active /\ drivers[by].canComplete)

SubmitComplete(c, a, at, by, override) ==
  LET ap == appointments[a] IN
  /\ ap.life = "fixed"
  /\ MayComplete(ap, at, by, override)
  /\ Entitled(a, by)
  /\ Ask(c, [op |-> "complete", id |-> a, version |-> ap.version, at |-> at, by |-> by,
             override |-> override])

CommitComplete(c) ==
  LET call == calls[c]
      a == call.id
      ap == [Bumped(appointments[a]) EXCEPT !.life = "completed"]
  IN /\ Take(c, "complete")
     /\ AtVersion(a, call.version)
     /\ appointments[a].life = "fixed"
     /\ MayComplete(ap, call.at, call.by, call.override)
     /\ Entitled(a, call.by)
     /\ Save(a, ap)
     /\ SetWorkflow(ap.job, "completed", jobs[ap.job].waiting)
     /\ UNCHANGED <<staff, requests>>

Swappable(life) == life \in {"draft", "proposal"}

SubmitSwap(c, a, b) ==
  LET first == appointments[a]
      second == appointments[b]
  IN /\ a # b
     /\ Swappable(first.life) /\ Swappable(second.life)
     /\ CrewAvailable(TeamOf(a), [first EXCEPT !.start = second.start], FALSE)
     /\ CrewAvailable(TeamOf(b), [second EXCEPT !.start = first.start], FALSE)
     /\ Ask(c, [op |-> "swap", id |-> a, version |-> first.version,
                other |-> b, otherVersion |-> second.version])

\* Both are draft while their times are exchanged, so that they cannot
\* collide with each other on the way.
CommitSwap(c) ==
  LET call == calls[c]
      a == call.id
      b == call.other
      first == [Bumped(appointments[a]) EXCEPT !.start = appointments[b].start]
      second == [Bumped(appointments[b]) EXCEPT !.start = appointments[a].start]
  IN /\ Take(c, "swap")
     /\ AtVersion(a, call.version)
     /\ AtVersion(b, call.otherVersion)
     /\ Swappable(first.life) /\ Swappable(second.life)
     /\ Write([appointments EXCEPT ![a] = first, ![b] = second],
              RefreshDrivers(RefreshDrivers(driverRows, a, first), b, second),
              RefreshResources(RefreshResources(resourceRows, a, first, Exclusive),
                               b, second, Exclusive))
     /\ UNCHANGED <<jobs, staff, requests>>

-----------------------------------------------------------------------------
(* Jobs, drivers and resources *)

\* Seeded fault: a longer job is accepted for a short appointment.
StillEquipped(j, data) ==
  \E a \in Appointments :
    /\ appointments[a].job = j
    /\ appointments[a].life = "fixed"
    /\ AssignmentsReady(TeamOf(a), data, FALSE)

\* A scheduled job must still fit the appointment that was fixed for it.
StillExecutable(j, data) ==
  \E a \in Appointments :
    /\ appointments[a].job = j
    /\ appointments[a].life = "fixed"
    /\ AssignmentsReady(TeamOf(a), data, FALSE)
    /\ appointments[a].dur >= data.minutes

UpdateJob(j, data) ==
  /\ "updateJob" \in Ambient
  /\ ~jobs[j].archived
  /\ jobs[j].workflow \in {"waitlist", "planning", "scheduled"}
  /\ jobs[j].data # data
  /\ jobs[j].workflow = "scheduled" => StillExecutable(j, data)
  /\ jobs' = [jobs EXCEPT ![j].data = data]
  /\ LET invalidated == {a \in Appointments :
           /\ appointments[a].job = j
           /\ appointments[a].life = "fixed"
           /\ jobs[j].workflow = "scheduled"
           /\ Facing(jobs[j].data) # Facing(data)}
     IN /\ \A a \in invalidated : appointments[a].version < MaxVersion
        /\ appointments' = [a \in Appointments |->
             IF a \in invalidated
             THEN [Bumped(appointments[a]) EXCEPT !.conf = "not_requested"]
             ELSE appointments[a]]
        /\ requests' = [a \in Appointments |->
             IF a \in invalidated THEN Revoked(requests[a]) ELSE requests[a]]
  /\ UNCHANGED <<driverRows, resourceRows, staff, calls>>

\* Seeded fault: only a fixed appointment keeps a job from being archived.
HasFixedAppointment(j) ==
  \E a \in Appointments : appointments[a].job = j /\ appointments[a].life = "fixed"

\* JobHasActiveAppointment: a draft does not count.
HasActiveAppointment(j) ==
  \E a \in Appointments : appointments[a].job = j /\ Reserving(appointments[a].life)

ArchiveJob(j) ==
  /\ "archiveJob" \in Ambient
  /\ ~jobs[j].archived
  /\ jobs[j].workflow \in {"waitlist", "planning"}
  /\ ~HasActiveAppointment(j)
  /\ jobs' = [jobs EXCEPT ![j].archived = TRUE, ![j].workflow = "cancelled", ![j].waiting = FALSE]
  /\ UNCHANGED <<bookings, staff, requests, calls>>

RemoveWaitlist(j) ==
  /\ "removeWaitlist" \in Ambient
  /\ jobs[j].waiting
  /\ jobs' = [jobs EXCEPT ![j].waiting = FALSE]
  /\ UNCHANGED <<bookings, staff, requests, calls>>

\* HasActiveDriverReservations, HasActiveResourceReservations
Holds(row) == row.active /\ Reserving(appointments[row.appointment].life)

\* Seeded fault: only fixed appointments keep a driver in service.
DriverFixed(d) ==
  \E row \in driverRows : row.driver = d /\ appointments[row.appointment].life = "fixed"

DriverReserved(d) == \E row \in driverRows : row.driver = d /\ Holds(row)
ResourceReserved(r) == \E row \in resourceRows : row.resource = r /\ Holds(row)

DeactivateDriver(d) ==
  /\ "deactivateDriver" \in Ambient
  /\ drivers[d].active
  /\ ~DriverReserved(d)
  /\ drivers' = [drivers EXCEPT ![d].active = FALSE]
  /\ UNCHANGED <<bookings, jobs, resources, requests, calls>>

\* UpdateProfile, as far as it concerns scheduling: who may complete jobs.
UpdateDriver(d, canComplete) ==
  /\ "updateDriver" \in Ambient
  /\ drivers[d].active
  /\ drivers' = [drivers EXCEPT ![d].canComplete = canComplete]
  /\ UNCHANGED <<bookings, jobs, resources, requests, calls>>

\* Availability rules and exceptions change without regard to appointments.
ChangeAvailability(d, absent) ==
  /\ "changeAvailability" \in Ambient
  /\ drivers' = [drivers EXCEPT ![d].absent = absent]
  /\ UNCHANGED <<bookings, jobs, resources, requests, calls>>

UpdateResource(r, edit) ==
  /\ "updateResource" \in Ambient
  /\ resources[r].active
  /\ (resources[r].type # edit.type \/ resources[r].exclusive # edit.exclusive) =>
       ~ResourceReserved(r)
  /\ resources' = [resources EXCEPT ![r].type = edit.type, ![r].exclusive = edit.exclusive]
  /\ UNCHANGED <<bookings, jobs, drivers, requests, calls>>

DeactivateResource(r) ==
  /\ "deactivateResource" \in Ambient
  /\ resources[r].active
  /\ ~ResourceReserved(r)
  /\ resources' = [resources EXCEPT ![r].active = FALSE]
  /\ UNCHANGED <<bookings, jobs, drivers, requests, calls>>

-----------------------------------------------------------------------------
(* Answers of customers *)

\* SetAppointmentConfirmation: only a fixed appointment takes a confirmation status.
SetConfirmation(a, conf) ==
  appointments' = [appointments EXCEPT ![a] = [Bumped(@) EXCEPT !.conf = conf]]

Answerable(a, i) ==
  /\ Active(requests[a][i])
  /\ ~requests[a][i].expired
  /\ appointments[a].life = "fixed"
  /\ appointments[a].version < MaxVersion

\* The same answer again changes nothing; confirmed and declined are final,
\* a customer who asked for a call may still confirm or decline.
Respond(a, i, response) ==
  /\ "respond" \in Ambient
  /\ Answerable(a, i)
  /\ \/ requests[a][i].response = "none"
     \/ /\ requests[a][i].response = "callback_requested"
        /\ response # "callback_requested"
  /\ requests' = [requests EXCEPT ![a][i].response = response]
  /\ SetConfirmation(a, response)
  /\ UNCHANGED <<driverRows, resourceRows, jobs, staff, calls>>

ResetResponse(a, i) ==
  /\ "resetResponse" \in Ambient
  /\ Answerable(a, i)
  /\ requests[a][i].response # "none"
  /\ requests' = [requests EXCEPT ![a][i].response = "none"]
  /\ SetConfirmation(a, "pending")
  /\ UNCHANGED <<driverRows, resourceRows, jobs, staff, calls>>

\* The administrator sends a new request; the customer must be reachable.
Reissue(a) ==
  /\ "reissue" \in Ambient
  /\ appointments[a].life = "fixed"
  /\ appointments[a].version < MaxVersion
  /\ CanPlanConfirmation(a, TRUE, FALSE)
  /\ LET ap == WithConfirmation(Bumped(appointments[a]), TRUE)
     IN /\ appointments' = [appointments EXCEPT ![a] = ap]
        /\ PlanConfirmation(a, ap, TRUE)
  /\ UNCHANGED <<driverRows, resourceRows, jobs, staff, calls>>

\* expires_at passes.
Expire(a, i) ==
  /\ "expire" \in Ambient
  /\ Active(requests[a][i])
  /\ ~requests[a][i].expired
  /\ requests' = [requests EXCEPT ![a][i].expired = TRUE]
  /\ UNCHANGED <<bookings, jobs, staff, calls>>

-----------------------------------------------------------------------------
(* The specification *)

NoAppointment ==
  [life |-> "none", conf |-> "not_requested", job |-> CHOOSE j \in Jobs : TRUE,
   start |-> 0, dur |-> 1, before |-> 0, after |-> 0, override |-> FALSE, silent |-> FALSE,
   fixedOnce |-> FALSE, reasoned |-> FALSE, version |-> 0]

\* Jobs have been taken in and wait; drivers and resources have been entered.
Init ==
  /\ appointments = [a \in Appointments |-> NoAppointment]
  /\ driverRows = {}
  /\ resourceRows = {}
  /\ jobs \in [Jobs -> [workflow : {"waitlist"}, archived : {FALSE}, waiting : {TRUE},
                        data : JobData]]
  /\ drivers = [d \in Drivers |-> [active |-> TRUE, canComplete |-> TRUE, absent |-> {}]]
  /\ resources = [r \in Resources |-> [active |-> TRUE, type |-> Fleet[r].type,
                                       exclusive |-> Fleet[r].exclusive]]
  /\ requests = [a \in Appointments |-> <<>>]
  /\ calls = [c \in Clients |-> NoCall]

Submit(c) ==
  \/ \E j \in Jobs, start \in Starts, dur \in Durations, buffer \in Buffers, team \in Teams,
        override \in Reasons : SubmitPlan(c, j, start, dur, buffer, team, override)
  \/ \E a \in Appointments :
       \/ \E team \in Teams, override \in Reasons : SubmitAssign(c, a, team, override)
       \/ \E override \in Reasons : SubmitPropose(c, a, override)
       \/ \E start \in Starts, dur \in Durations, override, silent \in Reasons :
            SubmitReschedule(c, a, start, dur, override, silent)
       \/ \E waive, silent \in Reasons : SubmitFix(c, a, waive, silent)
       \/ \E version \in 1 .. MaxVersion, reason \in Reasons : SubmitCancel(c, a, version, reason)
       \/ \E override \in Reasons : SubmitReopen(c, a, override)
       \/ \E at \in Starts, by \in Drivers \cup {Admin}, override \in Reasons :
            SubmitComplete(c, a, at, by, override)
       \/ \E b \in Appointments : SubmitSwap(c, a, b)

Commit(c) ==
  \/ \E a \in Appointments : CommitPlan(c, a)
  \/ CommitAssign(c)
  \/ CommitPropose(c)
  \/ \E reachable \in BOOLEAN : CommitReschedule(c, reachable)
  \/ \E reachable \in BOOLEAN : CommitFix(c, reachable)
  \/ CommitCancel(c)
  \/ CommitReopen(c)
  \/ CommitComplete(c)
  \/ CommitSwap(c)

ManageJobs ==
  \/ \E a \in Appointments, j \in Jobs, start \in Starts, dur \in Durations, buffer \in Buffers :
       CreateDraft(a, j, start, dur, buffer)
  \/ \E j \in Jobs, data \in JobData : UpdateJob(j, data)
  \/ \E j \in Jobs : ArchiveJob(j)
  \/ \E j \in Jobs : RemoveWaitlist(j)

ManageStaff ==
  \/ \E d \in Drivers : DeactivateDriver(d)
  \/ \E d \in Drivers, canComplete \in BOOLEAN : UpdateDriver(d, canComplete)
  \/ \E d \in Drivers, absent \in Absences : ChangeAvailability(d, absent)
  \/ \E r \in Resources, edit \in Edits : UpdateResource(r, edit)
  \/ \E r \in Resources : DeactivateResource(r)

Confirm ==
  \E a \in Appointments :
    \/ \E i \in DOMAIN requests[a], response \in Responses : Respond(a, i, response)
    \/ \E i \in DOMAIN requests[a] : ResetResponse(a, i)
    \/ Reissue(a)
    \/ \E i \in DOMAIN requests[a] : Expire(a, i)

Next ==
  \/ \E c \in Clients : Submit(c) \/ Commit(c) \/ Fail(c)
  \/ ManageJobs
  \/ ManageStaff
  \/ Confirm

Spec == Init /\ [][Next]_vars

-----------------------------------------------------------------------------
(* Types *)

Lifecycles == {"none", "draft", "proposal", "fixed", "cancelled", "completed"}
Workflows == {"waitlist", "planning", "scheduled", "completed", "cancelled"}
Confirmations == {"not_requested", "pending"} \cup Responses
Team == [drivers : (SUBSET Drivers) \ {{}},
         equipment : SUBSET [resource : Resources, purpose : Purposes]]

Appointment ==
  [life : Lifecycles, conf : Confirmations, job : Jobs, start : Int, dur : Nat \ {0},
   before : Nat, after : Nat, override : BOOLEAN, silent : BOOLEAN, fixedOnce : BOOLEAN,
   reasoned : BOOLEAN, version : Nat]
DriverReservation ==
  [appointment : Appointments, driver : Drivers, active : BOOLEAN, from : Int, to : Int]
ResourceReservation ==
  [appointment : Appointments, resource : Resources, purpose : Purposes, exclusive : BOOLEAN,
   active : BOOLEAN, from : Int, to : Int]
Request ==
  [status : {"active", "revoked"}, response : {"none"} \cup Responses, expired : BOOLEAN,
   start : Int, dur : Nat, facing : [transported : BOOLEAN, volume : Nat]]

Call ==
  {NoCall}
  \cup [op : {"plan"}, job : Jobs, start : Starts, dur : Durations, buffer : Buffers,
        team : Teams, override : BOOLEAN]
  \cup [op : {"assign"}, id : Appointments, version : Nat, team : Teams, override : BOOLEAN]
  \cup [op : {"propose", "reopen"}, id : Appointments, version : Nat, override : BOOLEAN]
  \cup [op : {"reschedule"}, id : Appointments, version : Nat, start : Starts, dur : Durations,
        override : BOOLEAN, silent : BOOLEAN]
  \cup [op : {"fix"}, id : Appointments, version : Nat, waive : BOOLEAN, silent : BOOLEAN]
  \cup [op : {"cancel"}, id : Appointments, version : Nat, reason : BOOLEAN]
  \cup [op : {"complete"}, id : Appointments, version : Nat, at : Starts,
        by : Drivers \cup {Admin}, override : BOOLEAN]
  \cup [op : {"swap"}, id : Appointments, version : Nat, other : Appointments,
        otherVersion : Nat]

\* Every variable has its type: the columns of the tables and the calls in flight.
TypeOK ==
  /\ appointments \in [Appointments -> Appointment]
  /\ driverRows \subseteq DriverReservation
  /\ resourceRows \subseteq ResourceReservation
  /\ jobs \in [Jobs -> [workflow : Workflows, archived : BOOLEAN, waiting : BOOLEAN,
                        data : JobData]]
  /\ drivers \in [Drivers -> [active : BOOLEAN, canComplete : BOOLEAN,
                              absent : Absences \cup {{}}]]
  /\ resources \in [Resources -> [active : BOOLEAN, type : ResourceTypes, exclusive : BOOLEAN]]
  /\ requests \in [Appointments -> Seq(Request)]
  /\ calls \in [Clients -> Call]
=============================================================================
