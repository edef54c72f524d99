---------------------------- MODULE SafetyProofs ----------------------------
(***************************************************************************)
(* Theorems about the promises of SchedulingSafety that concern a single   *)
(* appointment, its confirmation requests and its job.                     *)
(*                                                                         *)
(* View lists what any step may make of one appointment, JobsStep what it  *)
(* may make of the jobs; the invariants follow by going through these      *)
(* cases instead of the operations.                                        *)
(***************************************************************************)
EXTENDS CalendarProofs

-----------------------------------------------------------------------------
(* Saved appointments *)

TeamKept(a) == CrewOf(a)' = CrewOf(a) /\ EquipmentOf(a)' = EquipmentOf(a)
RowKept(a) == appointments'[a] = appointments[a] /\ TeamKept(a)

\* Unchanged rows keep every team.
LEMMA RowsKeepTeams ==
  ASSUME UNCHANGED <<driverRows, resourceRows>>, NEW a
  PROVE  TeamKept(a)
BY DEF TeamKept, CrewOf, EquipmentOf

\* Saving an appointment keeps its team and everything about the others.
LEMMA SaveView ==
  ASSUME TypeOK, NEW a \in Appointments, NEW ap, Save(a, ap)
  PROVE  /\ appointments'[a] = ap /\ TeamKept(a)
         /\ \A b \in Appointments : b # a => RowKept(b)
         /\ OneActivePerJob(appointments')
<1>1. /\ appointments' = [appointments EXCEPT ![a] = ap]
      /\ driverRows' = RefreshDrivers(driverRows, a, ap)
      /\ resourceRows' = RefreshResources(resourceRows, a, ap, Exclusive)
      /\ OneActivePerJob(appointments')
  BY DEF Save, Write
<1>2. appointments'[a] = ap /\ \A b \in Appointments : b # a => appointments'[b] = appointments[b]
  BY <1>1 DEF TypeOK
<1>3. TeamKept(a)
  <2>1. /\ {row.driver : row \in RowsOf(driverRows', a)} = {row.driver : row \in RowsOf(driverRows, a)}
        /\ {[resource |-> row.resource, purpose |-> row.purpose] : row \in RowsOf(resourceRows', a)} =
             {[resource |-> row.resource, purpose |-> row.purpose] : row \in RowsOf(resourceRows, a)}
    BY <1>1, TeamRefreshed
  <2>2. QED
    BY <2>1 DEF TeamKept, CrewOf, EquipmentOf
<1>4. ASSUME NEW b \in Appointments, b # a PROVE TeamKept(b)
  <2>1. /\ RowsOf(driverRows', b) = RowsOf(driverRows, b)
        /\ RowsOf(resourceRows', b) = RowsOf(resourceRows, b)
    BY <1>1, <1>4, OtherRefreshed
  <2>2. QED
    BY <2>1 DEF TeamKept, CrewOf, EquipmentOf
<1>5. QED
  BY <1>1, <1>2, <1>3, <1>4 DEF RowKept

\* Saving it with another team gives it exactly that team.
LEMMA SaveTeamView ==
  ASSUME TypeOK, NEW a \in Appointments, NEW ap, NEW team \in Team, SaveTeam(a, ap, team)
  PROVE  /\ appointments'[a] = ap
         /\ CrewOf(a)' = team.drivers /\ EquipmentOf(a)' = team.equipment
         /\ \A b \in Appointments : b # a => RowKept(b)
         /\ OneActivePerJob(appointments')
<1> DEFINE drows == {DriverRow(a, ap, d) : d \in team.drivers}
           rrows == {ResourceRow(a, ap, e.resource, e.purpose, Exclusive[e.resource]) :
                       e \in team.equipment}
<1>1. /\ appointments' = [appointments EXCEPT ![a] = ap]
      /\ driverRows' = RowsOfOthers(driverRows, a) \cup drows
      /\ resourceRows' = RowsOfOthers(resourceRows, a) \cup rrows
      /\ OneActivePerJob(appointments')
  BY DEF SaveTeam, Write
<1>2. appointments'[a] = ap /\ \A b \in Appointments : b # a => appointments'[b] = appointments[b]
  BY <1>1 DEF TypeOK
<1>3. /\ \A row \in drows : row.appointment = a
      /\ \A row \in rrows : row.appointment = a
  BY DEF DriverRow, ResourceRow
<1>4. {row.driver : row \in drows} = team.drivers
  <2>1. \A d : DriverRow(a, ap, d).driver = d
    BY DEF DriverRow
  <2>2. \A d \in team.drivers : DriverRow(a, ap, d) \in drows
    OBVIOUS
  <2>3. \A row \in drows : row.driver \in team.drivers
    BY <2>1
  <2> HIDE DEF drows
  <2>4. QED
    BY <2>1, <2>2, <2>3
<1>5. {[resource |-> row.resource, purpose |-> row.purpose] : row \in rrows} = team.equipment
  <2>1. ASSUME NEW e \in team.equipment
        PROVE  LET row == ResourceRow(a, ap, e.resource, e.purpose, Exclusive[e.resource])
               IN [resource |-> row.resource, purpose |-> row.purpose] = e
    BY DEF ResourceRow, Team
  <2>2. QED
    BY <2>1
<1> HIDE DEF drows, rrows
<1>6. RowsOf(driverRows', a) = drows /\ RowsOf(resourceRows', a) = rrows
  BY <1>1, <1>3 DEF RowsOf, RowsOfOthers
<1>7. CrewOf(a)' = team.drivers /\ EquipmentOf(a)' = team.equipment
  BY <1>4, <1>5, <1>6 DEF CrewOf, EquipmentOf
<1>8. ASSUME NEW b \in Appointments, b # a PROVE TeamKept(b)
  <2>1. /\ RowsOf(driverRows', b) = RowsOf(driverRows, b)
        /\ RowsOf(resourceRows', b) = RowsOf(resourceRows, b)
    BY <1>1, <1>3, <1>8 DEF RowsOf, RowsOfOthers
  <2>2. QED
    BY <2>1 DEF TeamKept, CrewOf, EquipmentOf
<1>9. QED
  BY <1>1, <1>2, <1>7, <1>8 DEF RowKept

\* A swap exchanges two times and keeps both teams.
LEMMA SwapView ==
  ASSUME TypeOK, NEW c \in Clients, CommitSwap(c)
  PROVE  /\ Swapping /\ UNCHANGED <<jobs, staff, requests>>
         /\ \A d \in Appointments :
              \/ RowKept(d)
              \/ /\ Swappable(appointments[d].life) /\ TeamKept(d)
                 /\ \E start \in Int :
                      appointments'[d] = [Bumped(appointments[d]) EXCEPT !.start = start]
<1> DEFINE a == calls[c].id
           b == calls[c].other
           first == [Bumped(appointments[a]) EXCEPT !.start = appointments[b].start]
           second == [Bumped(appointments[b]) EXCEPT !.start = appointments[a].start]
           drows == RefreshDrivers(driverRows, a, first)
           rrows == RefreshResources(resourceRows, a, first, Exclusive)
<1>1. /\ Take(c, "swap") /\ Swappable(first.life) /\ Swappable(second.life)
      /\ appointments' = [appointments EXCEPT ![a] = first, ![b] = second]
      /\ driverRows' = RefreshDrivers(drows, b, second)
      /\ resourceRows' = RefreshResources(rrows, b, second, Exclusive)
      /\ UNCHANGED <<jobs, staff, requests>>
  BY DEF CommitSwap, Write
<1>2. a \in Appointments /\ b \in Appointments
  BY <1>1, CallFields DEF Take, TypeOK, CallsTyped
<1>3. appointments[a] \in Appointment /\ appointments[b] \in Appointment
  BY <1>2 DEF TypeOK
<1>4. first.life = appointments[a].life /\ second.life = appointments[b].life
  BY <1>3 DEF Bumped, Appointment
<1>5. /\ appointments'[b] = second /\ (appointments'[a] = first \/ a = b)
      /\ \A d \in Appointments : d # a /\ d # b => appointments'[d] = appointments[d]
  BY <1>1, <1>2 DEF TypeOK
<1>6. ASSUME NEW d \in Appointments PROVE TeamKept(d)
  <2> DEFINE crew(rows) == {row.driver : row \in RowsOf(rows, d)}
             equipment(rows) == {[resource |-> row.resource, purpose |-> row.purpose] :
                                   row \in RowsOf(rows, d)}
  <2>1. ASSUME NEW ds, NEW rs, NEW x, NEW ap
        PROVE  /\ crew(RefreshDrivers(ds, x, ap)) = crew(ds)
               /\ equipment(RefreshResources(rs, x, ap, Exclusive)) = equipment(rs)
    <3>1. CASE x = d
      BY <3>1, TeamRefreshed
    <3>2. CASE x # d
      BY <3>2, OtherRefreshed
    <3>3. QED
      BY <3>1, <3>2
  <2>2. crew(driverRows') = crew(driverRows) /\ equipment(resourceRows') = equipment(resourceRows)
    <3>1. crew(driverRows') = crew(drows) /\ equipment(resourceRows') = equipment(rrows)
      <4> HIDE DEF drows, rrows, crew, equipment, second, b
      <4>1. QED
        BY <1>1, <2>1
    <3>2. crew(drows) = crew(driverRows) /\ equipment(rrows) = equipment(resourceRows)
      <4> HIDE DEF crew, equipment, first, a
      <4>1. QED
        BY <2>1
    <3>3. QED
      BY <3>1, <3>2
  <2>3. QED
    BY <2>2 DEF TeamKept, CrewOf, EquipmentOf
<1>7. Swapping
  BY <1>1 DEF Take, TypeOK, Swapping, NoCall
<1>8. ASSUME NEW d \in Appointments
      PROVE  \/ RowKept(d)
             \/ /\ Swappable(appointments[d].life)
                /\ \E start \in Int :
                     appointments'[d] = [Bumped(appointments[d]) EXCEPT !.start = start]
  <2>1. appointments[a].start \in Int /\ appointments[b].start \in Int
    BY <1>3 DEF Appointment
  <2>2. CASE d = b
    BY <2>1, <2>2, <1>1, <1>4, <1>5
  <2>3. CASE d = a /\ d # b
    BY <2>1, <2>3, <1>1, <1>4, <1>5
  <2>4. CASE d # a /\ d # b
    BY <2>4, <1>5, <1>6 DEF RowKept
  <2>5. QED
    BY <2>2, <2>3, <2>4
<1>9. QED
  BY <1>1, <1>6, <1>7, <1>8

-----------------------------------------------------------------------------
(* A step, seen from one appointment *)

Later(a) == appointments'[a].version > appointments[a].version
PlanKept(a) ==
  /\ appointments'[a].job = appointments[a].job
  /\ appointments'[a].start = appointments[a].start
  /\ appointments'[a].dur = appointments[a].dur
LifeKept(a) ==
  /\ appointments'[a].life = appointments[a].life
  /\ appointments'[a].job = appointments[a].job
  /\ appointments'[a].fixedOnce = appointments[a].fixedOnce
RequestsKept(a) ==
  requests'[a] = requests[a] /\ appointments'[a].conf = appointments[a].conf

\* The old requests are revoked, and the customer is asked or cannot be.
Asked(a) ==
  \/ /\ requests'[a] = Append(Revoked(requests[a]), NewRequest(appointments'[a]))
     /\ appointments'[a].conf = "pending"
  \/ /\ requests'[a] = Revoked(requests[a])
     /\ appointments'[a].conf = "not_requested"

\* The transaction has found everything ready for what is reserved now.
Vetted(a) ==
  /\ EnsureReady(TeamOf(a)', appointments'[a], DataOf(appointments'[a]),
                 appointments'[a].override, TRUE)
  /\ UNCHANGED staff
  /\ \A j \in Jobs : jobs'[j].data = jobs[j].data

\* Something else happens, or one of the operations on the appointment.
Kept(a) == RowKept(a) /\ requests'[a] = requests[a]

Created(a) ==
  /\ ~Used(a) /\ requests'[a] = requests[a] /\ appointments'[a].version > 0
  /\ appointments'[a].life \in {"draft", "proposal"}
  /\ appointments'[a].conf = "not_requested" /\ ~appointments'[a].fixedOnce
  /\ appointments'[a].life = "proposal" => Vetted(a)

Planned(a) ==
  /\ appointments[a].life \in {"draft", "proposal"}
  /\ appointments'[a].life \in {appointments[a].life, "proposal"}
  /\ appointments'[a].job = appointments[a].job
  /\ appointments'[a].fixedOnce = appointments[a].fixedOnce
  /\ RequestsKept(a) /\ Later(a)
  /\ appointments'[a].life = "proposal" => Vetted(a)

Swapped(a) ==
  /\ Swappable(appointments[a].life) /\ Swapping
  /\ LifeKept(a) /\ RequestsKept(a) /\ TeamKept(a) /\ Later(a)
  /\ UNCHANGED <<jobs, staff>>

Reassigned(a) ==
  /\ appointments[a].life = "fixed" /\ LifeKept(a) /\ PlanKept(a) /\ RequestsKept(a)
  /\ Later(a) /\ Vetted(a)

Shifted(a) ==
  /\ appointments[a].life = "fixed" /\ LifeKept(a) /\ TeamKept(a)
  /\ Asked(a) /\ Later(a) /\ Vetted(a)

Fixed(a) ==
  /\ appointments[a].life = "proposal" /\ appointments'[a].life = "fixed"
  /\ appointments'[a].job = appointments[a].job
  /\ TeamKept(a) /\ Asked(a) /\ Later(a) /\ Vetted(a)

Ended(a) ==
  /\ \/ /\ Editable(appointments[a].life) /\ appointments'[a].life = "cancelled"
        /\ \E c \in Clients : CommitCancel(c) /\ calls[c].id = a
     \/ appointments[a].life = "fixed" /\ appointments'[a].life = "completed"
  /\ appointments'[a].fixedOnce = appointments[a].fixedOnce
  /\ TeamKept(a) /\ RequestsKept(a) /\ Later(a)

Restored(a) ==
  /\ appointments[a].life = "cancelled" /\ appointments'[a].life = "proposal"
  /\ requests'[a] = Revoked(requests[a])
  /\ appointments'[a].conf = "not_requested" /\ ~appointments'[a].fixedOnce
  /\ TeamKept(a) /\ Later(a) /\ Vetted(a)

Outdated(a) ==
  /\ appointments'[a] = [Bumped(appointments[a]) EXCEPT !.conf = "not_requested"]
  /\ requests'[a] = Revoked(requests[a])
  /\ appointments[a].life = "fixed" /\ TeamKept(a) /\ Later(a)

Answered(a) ==
  /\ \E i \in DOMAIN requests[a], response \in {"none"} \cup Responses :
       /\ Active(requests[a][i])
       /\ requests'[a] = [requests[a] EXCEPT ![i].response = response]
       /\ appointments'[a] = [Bumped(appointments[a]) EXCEPT
                                !.conf = IF response = "none" THEN "pending" ELSE response]
  /\ appointments[a].life = "fixed" /\ TeamKept(a) /\ Later(a)
  /\ UNCHANGED <<jobs, staff>>

Reissued(a) ==
  /\ appointments[a].life = "fixed" /\ LifeKept(a) /\ PlanKept(a) /\ TeamKept(a)
  /\ appointments'[a].before = appointments[a].before
  /\ appointments'[a].after = appointments[a].after
  /\ Asked(a) /\ Later(a)
  /\ UNCHANGED <<jobs, staff>>

Expired(a) ==
  /\ RowKept(a)
  /\ \E i \in DOMAIN requests[a] : requests'[a] = [requests[a] EXCEPT ![i].expired = TRUE]
  /\ UNCHANGED <<jobs, staff>>

View(a) ==
  \/ Kept(a) \/ Created(a) \/ Planned(a) \/ Swapped(a) \/ Reassigned(a) \/ Shifted(a)
  \/ Fixed(a) \/ Ended(a) \/ Restored(a) \/ Outdated(a) \/ Answered(a) \/ Reissued(a)
  \/ Expired(a)

\* Two states of an appointment with the same job and times; with the same
\* lifecycle and confirmation.
SamePlace(x, y) ==
  /\ x.job = y.job /\ x.start = y.start /\ x.dur = y.dur
  /\ x.before = y.before /\ x.after = y.after
SameMarks(x, y) ==
  x.life = y.life /\ x.conf = y.conf /\ x.fixedOnce = y.fixedOnce /\ x.reasoned = y.reasoned

\* Counting up makes a version later.
LEMMA BumpedLater ==
  ASSUME NEW ap \in Appointment
  PROVE  /\ Bumped(ap) \in Appointment
         /\ Bumped(ap).version = ap.version + 1 /\ Bumped(ap).version > ap.version
         /\ SamePlace(Bumped(ap), ap) /\ SameMarks(Bumped(ap), ap)
         /\ Bumped(ap).override = ap.override
BY DEF Bumped, Appointment, SamePlace, SameMarks

\* Asking for a confirmation only sets its columns.
LEMMA ConfirmationColumns ==
  ASSUME NEW ap \in Appointment, NEW reachable \in BOOLEAN
  PROVE  LET aq == WithConfirmation(ap, reachable)
         IN /\ aq.conf = IF reachable THEN "pending" ELSE "not_requested"
            /\ SamePlace(aq, ap) /\ aq.life = ap.life /\ aq.fixedOnce = ap.fixedOnce
            /\ aq.override = ap.override /\ aq.version = ap.version
BY DEF WithConfirmation, Appointment, SamePlace

\* Planning a confirmation asks.
LEMMA PlanAsks ==
  ASSUME TypeOK, NEW a \in Appointments, NEW ap \in Appointment, NEW reachable \in BOOLEAN,
         appointments'[a] = WithConfirmation(ap, reachable),
         PlanConfirmation(a, WithConfirmation(ap, reachable), reachable)
  PROVE  Asked(a) /\ \A b \in Appointments : b # a => requests'[b] = requests[b]
<1>1. /\ requests'[a] = IF reachable THEN Append(Revoked(requests[a]), NewRequest(appointments'[a]))
                                     ELSE Revoked(requests[a])
      /\ \A b \in Appointments : b # a => requests'[b] = requests[b]
  BY DEF PlanConfirmation, TypeOK
<1>2. appointments'[a].conf = IF reachable THEN "pending" ELSE "not_requested"
  BY ConfirmationColumns
<1>3. QED
  BY <1>1, <1>2 DEF Asked

\* What was ready with a chipper is ready.
LEMMA ReadyMeansVetted ==
  ASSUME NEW a, NEW team, NEW ap, NEW data, NEW override, NEW waive \in BOOLEAN,
         EnsureReady(team, ap, data, override, waive)
  PROVE  EnsureReady(team, ap, data, override, TRUE)
BY DEF EnsureReady, AssignmentsReady, ValidTeam

\* A workflow change keeps the planning data of the jobs.
LEMMA WorkflowKeepsData ==
  ASSUME JobsTyped, NEW j, NEW workflow, NEW waiting, SetWorkflow(j, workflow, waiting)
  PROVE  \A k \in Jobs : jobs'[k].data = jobs[k].data
BY DEF SetWorkflow, JobsTyped

\* What a transaction checked is what it has reserved.
LEMMA VettedNow ==
  ASSUME NEW a, NEW ap \in Appointment, NEW checked \in Appointment, NEW waive \in BOOLEAN,
         NEW team, TeamOf(a)' = team, appointments'[a] = ap,
         EnsureReady(team, checked, DataOf(checked), ap.override, waive),
         SamePlace(ap, checked),
         UNCHANGED staff, \A j \in Jobs : jobs'[j].data = jobs[j].data
  PROVE  Vetted(a)
<1>1. /\ ap.dur = checked.dur /\ From(ap) = From(checked) /\ To(ap) = To(checked)
      /\ ap.job = checked.job
  BY DEF From, To, SamePlace
<1>2. EnsureReady(team, checked, DataOf(checked), ap.override, TRUE)
  BY ReadyMeansVetted
<1>3. EnsureReady(team, ap, DataOf(ap), ap.override, TRUE)
  BY <1>1, <1>2 DEF EnsureReady, CrewAvailable, Available, DataOf
<1>4. QED
  BY <1>3 DEF Vetted

\* A step on one appointment is nothing to the others.
LEMMA OthersKept ==
  ASSUME NEW a \in Appointments, View(a),
         \A b \in Appointments : b # a => RowKept(b) /\ requests'[b] = requests[b]
  PROVE  \A b \in Appointments : View(b)
<1>1. ASSUME NEW b \in Appointments, b # a PROVE View(b)
  BY <1>1 DEF View, Kept
<1>2. QED
  BY <1>1

\* Planning creates a vetted proposal.
LEMMA PlanView ==
  ASSUME TypeOK, NEW c \in Clients, NEW a \in Appointments, CommitPlan(c, a)
  PROVE  \A b \in Appointments : View(b)
<1> DEFINE call == calls[c]
           draft == NewAppointment(call.job, call.start, call.dur, call.buffer)
           ap == [draft EXCEPT !.life = "proposal", !.override = call.override, !.version = 3]
<1>1. /\ Take(c, "plan") /\ ~Used(a) /\ SaveTeam(a, ap, call.team)
      /\ EnsureReady(call.team, ap, jobs[call.job].data, call.override, FALSE)
      /\ SetWorkflow(call.job, "planning", TRUE) /\ UNCHANGED <<staff, requests>>
  BY DEF CommitPlan
<1>2. /\ call.job \in Jobs /\ call.start \in Starts /\ call.dur \in Durations
      /\ call.buffer \in Buffers /\ call.team \in Team /\ call.override \in BOOLEAN
  BY <1>1, TypeParts, CallFields, TeamsType DEF Take
<1>3. draft \in Appointment
  BY <1>2, NewAppointmentType
<1>4. /\ ap \in Appointment /\ ap.life = "proposal" /\ ap.version = 3
      /\ ap.override = call.override /\ ap.job = call.job
      /\ ap.conf = "not_requested" /\ ~ap.fixedOnce
  BY <1>2, <1>3 DEF NewAppointment, Appointment, Lifecycles
<1> HIDE DEF draft, ap
<1>5. /\ appointments'[a] = ap
      /\ CrewOf(a)' = call.team.drivers /\ EquipmentOf(a)' = call.team.equipment
      /\ \A b \in Appointments : b # a => RowKept(b)
  BY <1>1, <1>2, SaveTeamView
<1>6. TeamOf(a)' = call.team
  BY <1>2, <1>5 DEF TeamOf, Team
<1>7. \A j \in Jobs : jobs'[j].data = jobs[j].data
  BY <1>1, <1>2, TypeParts, WorkflowKeepsData
<1>8. Vetted(a)
  <2>1. EnsureReady(call.team, ap, DataOf(ap), ap.override, FALSE) /\ SamePlace(ap, ap)
    BY <1>1, <1>4 DEF DataOf, SamePlace
  <2>2. QED
    BY <1>1, <1>4, <1>5, <1>6, <1>7, <2>1, VettedNow
<1>9. Created(a)
  BY <1>1, <1>4, <1>5, <1>8 DEF Created
<1>10. QED
  BY <1>1, <1>5, <1>9, OthersKept DEF View

\* A new team for an appointment that reserves is vetted.
LEMMA AssignView ==
  ASSUME TypeOK, NEW c \in Clients, CommitAssign(c)
  PROVE  \A b \in Appointments : View(b)
<1> DEFINE call == calls[c]
<1>0. PICK a \in Appointments : a = call.id
  BY TypeParts, CallFields DEF CommitAssign, Take
<1> DEFINE old == appointments[a]
           ap == [Bumped(old) EXCEPT !.override = call.override]
<1>1. /\ Take(c, "assign") /\ Editable(ap.life) /\ SaveTeam(a, ap, call.team)
      /\ ap.life = "draft" \/ EnsureReady(call.team, ap, DataOf(ap), call.override, FALSE)
      /\ UNCHANGED <<jobs, staff, requests>>
  BY <1>0 DEF CommitAssign
<1>2. call.team \in Team /\ call.override \in BOOLEAN
  BY <1>1, TypeParts, CallFields, TeamsType DEF Take
<1>3. old \in Appointment /\ Bumped(old) \in Appointment
  BY <1>2, BumpedType DEF TypeOK
<1>4. /\ ap \in Appointment /\ ap.override = call.override /\ ap.version > old.version
      /\ SamePlace(ap, old) /\ SameMarks(ap, old)
  <2>1. ap \in Appointment
    BY <1>2, <1>3, ChangedType
  <2>2. /\ ap.override = call.override /\ ap.version > old.version
        /\ SamePlace(ap, old) /\ SameMarks(ap, old)
    BY <1>3, BumpedLater DEF Bumped, Appointment, SamePlace, SameMarks
  <2>3. QED
    BY <2>1, <2>2
<1> HIDE DEF ap
<1>5. /\ appointments'[a] = ap
      /\ CrewOf(a)' = call.team.drivers /\ EquipmentOf(a)' = call.team.equipment
      /\ \A b \in Appointments : b # a => RowKept(b)
  BY <1>1, <1>2, SaveTeamView
<1>6. TeamOf(a)' = call.team
  BY <1>2, <1>5 DEF TeamOf, Team
<1>7. ap.life # "draft" => Vetted(a)
  <2>1. ap.life # "draft" => EnsureReady(call.team, ap, DataOf(ap), ap.override, FALSE)
    BY <1>1, <1>4
  <2>2. SamePlace(ap, ap) /\ \A j \in Jobs : jobs'[j].data = jobs[j].data
    BY <1>1 DEF SamePlace
  <2>3. QED
    BY <1>1, <1>4, <1>5, <1>6, <2>1, <2>2, VettedNow
<1>8. LifeKept(a) /\ PlanKept(a) /\ RequestsKept(a) /\ Later(a)
  BY <1>1, <1>4, <1>5 DEF LifeKept, PlanKept, RequestsKept, Later, SamePlace, SameMarks
<1>9. ASSUME old.life = "fixed" PROVE View(a)
  BY <1>4, <1>7, <1>8, <1>9 DEF View, Reassigned, SameMarks
<1>10. ASSUME old.life \in {"draft", "proposal"} PROVE View(a)
  BY <1>4, <1>5, <1>7, <1>8, <1>10 DEF View, Planned, LifeKept, SameMarks
<1>11. QED
  BY <1>1, <1>4, <1>5, <1>9, <1>10, OthersKept DEF Editable, SameMarks

\* A draft becomes a vetted proposal.
LEMMA ProposeView ==
  ASSUME TypeOK, NEW c \in Clients, CommitPropose(c)
  PROVE  \A b \in Appointments : View(b)
<1> DEFINE call == calls[c]
<1>0. PICK a \in Appointments : a = call.id
  BY TypeParts, CallFields DEF CommitPropose, Take
<1> DEFINE old == appointments[a]
           ap == [Bumped(old) EXCEPT !.life = "proposal", !.override = call.override]
<1>1. /\ Take(c, "propose") /\ old.life = "draft" /\ Save(a, ap)
      /\ EnsureReady(TeamOf(a), ap, DataOf(ap), call.override, FALSE)
      /\ SetWorkflow(ap.job, "planning", jobs[ap.job].waiting) /\ UNCHANGED <<staff, requests>>
  BY <1>0 DEF CommitPropose
<1>2. call.override \in BOOLEAN
  BY <1>1, TypeParts, CallFields DEF Take
<1>3. old \in Appointment /\ Bumped(old) \in Appointment
  BY <1>2, BumpedType DEF TypeOK
<1>4. /\ ap \in Appointment /\ ap.override = call.override /\ ap.version > old.version
      /\ ap.life = "proposal" /\ SamePlace(ap, old)
      /\ ap.conf = old.conf /\ ap.fixedOnce = old.fixedOnce
  <2>1. ap \in Appointment
    BY <1>2, <1>3, ChangedType DEF Lifecycles
  <2>2. /\ ap.override = call.override /\ ap.version > old.version
        /\ ap.life = "proposal" /\ SamePlace(ap, old)
        /\ ap.conf = old.conf /\ ap.fixedOnce = old.fixedOnce
    BY <1>3 DEF Bumped, Appointment, SamePlace
  <2>3. QED
    BY <2>1, <2>2
<1> HIDE DEF ap
<1>5. /\ appointments'[a] = ap /\ TeamKept(a)
      /\ \A b \in Appointments : b # a => RowKept(b)
  BY <1>1, <1>2, SaveView
<1>6. TeamOf(a)' = TeamOf(a)
  BY <1>5 DEF TeamOf, TeamKept
<1>7. \A j \in Jobs : jobs'[j].data = jobs[j].data
  BY <1>1, <1>4, JobType, TypeParts, WorkflowKeepsData
<1>8. Vetted(a)
  <2>1. EnsureReady(TeamOf(a), ap, DataOf(ap), ap.override, FALSE) /\ SamePlace(ap, ap)
    BY <1>1, <1>4 DEF SamePlace
  <2>2. QED
    BY <1>1, <1>4, <1>5, <1>6, <1>7, <2>1, VettedNow
<1>9. Planned(a)
  BY <1>1, <1>4, <1>5, <1>8 DEF Planned, RequestsKept, Later, SamePlace
<1>10. QED
  BY <1>1, <1>2, <1>5, <1>9, OthersKept DEF View

\* Moving a fixed appointment asks again, moving another does not.
LEMMA RescheduleView ==
  ASSUME TypeOK, NEW c \in Clients, NEW reachable \in BOOLEAN, CommitReschedule(c, reachable)
  PROVE  \A b \in Appointments : View(b)
<1> DEFINE call == calls[c]
<1>0. PICK a \in Appointments : a = call.id
  BY TypeParts, CallFields DEF CommitReschedule, Take
<1> DEFINE old == appointments[a]
           moved == Rescheduled(old, call)
           fixed == moved.life = "fixed"
           ap == IF fixed THEN WithConfirmation(moved, reachable) ELSE moved
<1>1. /\ Take(c, "reschedule") /\ Editable(moved.life) /\ Save(a, ap)
      /\ \/ moved.life = "draft"
         \/ EnsureReady(TeamOf(a), moved, DataOf(moved), call.override, FALSE)
      /\ \/ fixed /\ PlanConfirmation(a, ap, reachable)
         \/ ~fixed /\ UNCHANGED requests
      /\ UNCHANGED <<jobs, staff>>
  BY <1>0 DEF CommitReschedule
<1>2. /\ call.start \in Int /\ call.dur \in Nat \ {0}
      /\ call.override \in BOOLEAN
  BY <1>1, TypeParts, CallFields, TimeAssumption DEF Take
<1>3. old \in Appointment /\ Bumped(old) \in Appointment
  BY <1>2, BumpedType DEF TypeOK
<1>4. /\ moved \in Appointment /\ moved.override = call.override /\ moved.version > old.version
      /\ moved.life = old.life /\ moved.conf = old.conf /\ moved.job = old.job
      /\ moved.fixedOnce = old.fixedOnce
  <2>1. moved \in Appointment
    BY <1>2, <1>3, ChangedType DEF Rescheduled
  <2>2. /\ moved.override = call.override /\ moved.version > old.version
        /\ moved.life = old.life /\ moved.conf = old.conf /\ moved.job = old.job
        /\ moved.fixedOnce = old.fixedOnce
    BY <1>3 DEF Rescheduled, Bumped, Appointment
  <2>3. QED
    BY <2>1, <2>2
<1> HIDE DEF moved
<1>5. /\ ap \in Appointment
      /\ fixed => ap = WithConfirmation(moved, reachable)
      /\ SamePlace(ap, moved) /\ ap.life = moved.life /\ ap.fixedOnce = moved.fixedOnce
      /\ ap.override = moved.override /\ ap.version = moved.version
      /\ ~fixed => ap.conf = moved.conf
  BY <1>4, WithConfirmationType, ConfirmationColumns DEF SamePlace
<1> HIDE DEF ap
<1>6. /\ appointments'[a] = ap /\ TeamKept(a)
      /\ \A b \in Appointments : b # a => RowKept(b)
  BY <1>1, <1>2, SaveView
<1>7. TeamOf(a)' = TeamOf(a)
  BY <1>6 DEF TeamOf, TeamKept
<1>8. moved.life # "draft" => Vetted(a)
  <2>1. moved.life # "draft" => EnsureReady(TeamOf(a), moved, DataOf(moved), ap.override, FALSE)
    BY <1>1, <1>4, <1>5
  <2>2. \A j \in Jobs : jobs'[j].data = jobs[j].data
    BY <1>1
  <2>3. QED
    BY <1>1, <1>4, <1>5, <1>6, <1>7, <2>1, <2>2, VettedNow
<1>9. LifeKept(a) /\ Later(a)
  BY <1>4, <1>5, <1>6 DEF LifeKept, Later, SamePlace
<1>10. CASE fixed
  <2>1. Asked(a) /\ \A b \in Appointments : b # a => requests'[b] = requests[b]
    BY <1>1, <1>2, <1>4, <1>5, <1>6, <1>10, PlanAsks
  <2>2. Shifted(a)
    BY <1>4, <1>6, <1>8, <1>9, <1>10, <2>1 DEF Shifted
  <2>3. QED
    BY <1>2, <1>6, <2>1, <2>2, OthersKept DEF View
<1>11. CASE ~fixed
  <2>1. RequestsKept(a)
    BY <1>1, <1>4, <1>5, <1>6, <1>11 DEF RequestsKept
  <2>2. Planned(a)
    BY <1>1, <1>4, <1>5, <1>6, <1>8, <1>9, <1>11, <2>1 DEF Planned, LifeKept, Editable
  <2>3. QED
    BY <1>1, <1>2, <1>6, <1>11, <2>2, OthersKept DEF View
<1>12. QED
  BY <1>10, <1>11

\* Fixing a vetted proposal asks.
LEMMA FixView ==
  ASSUME TypeOK, NEW c \in Clients, NEW reachable \in BOOLEAN, CommitFix(c, reachable)
  PROVE  \A b \in Appointments : View(b)
<1> DEFINE call == calls[c]
<1>0. PICK a \in Appointments : a = call.id
  BY TypeParts, CallFields DEF CommitFix, Take
<1> DEFINE old == appointments[a]
           fixed == [Bumped(old) EXCEPT !.life = "fixed", !.fixedOnce = TRUE]
           ap == WithConfirmation(fixed, reachable)
<1>1. /\ Take(c, "fix") /\ old.life = "proposal" /\ Save(a, ap)
      /\ EnsureReady(TeamOf(a), ap, DataOf(ap), ap.override, call.waive)
      /\ SetWorkflow(ap.job, "scheduled", FALSE)
      /\ PlanConfirmation(a, ap, reachable) /\ UNCHANGED staff
  BY <1>0 DEF CommitFix
<1>2. call.waive \in BOOLEAN
  BY <1>1, TypeParts DEF Take, CallsTyped, Call, NoCall
<1>3. old \in Appointment /\ Bumped(old) \in Appointment
  BY BumpedType DEF TypeOK
<1>4. /\ fixed \in Appointment /\ fixed.life = "fixed" /\ fixed.version > old.version
      /\ fixed.job = old.job
  <2>1. fixed \in Appointment
    BY <1>3, ChangedType DEF Lifecycles
  <2>2. fixed.life = "fixed" /\ fixed.version > old.version /\ fixed.job = old.job
    BY <1>3 DEF Bumped, Appointment
  <2>3. QED
    BY <2>1, <2>2
<1> HIDE DEF fixed
<1>5. /\ ap \in Appointment
      /\ SamePlace(ap, fixed) /\ ap.life = "fixed" /\ ap.version = fixed.version
  BY <1>4, WithConfirmationType, ConfirmationColumns
<1>6. /\ appointments'[a] = ap /\ TeamKept(a)
      /\ \A b \in Appointments : b # a => RowKept(b)
  BY <1>1, SaveView
<1>7. Asked(a) /\ \A b \in Appointments : b # a => requests'[b] = requests[b]
  BY <1>1, <1>4, <1>6, PlanAsks
<1> HIDE DEF ap
<1>8. TeamOf(a)' = TeamOf(a)
  BY <1>6 DEF TeamOf, TeamKept
<1>9. \A j \in Jobs : jobs'[j].data = jobs[j].data
  BY <1>1, <1>5, JobType, TypeParts, WorkflowKeepsData
<1>10. Vetted(a)
  <2>1. SamePlace(ap, ap)
    BY DEF SamePlace
  <2>2. QED
    BY <1>1, <1>2, <1>5, <1>6, <1>8, <1>9, <2>1, VettedNow
<1>11. Fixed(a)
  BY <1>1, <1>4, <1>5, <1>6, <1>7, <1>10 DEF Fixed, Later, SamePlace
<1>12. QED
  BY <1>6, <1>7, <1>11, OthersKept DEF View

\* Cancelling ends an open appointment.
LEMMA CancelView ==
  ASSUME TypeOK, NEW c \in Clients, CommitCancel(c)
  PROVE  \A b \in Appointments : View(b)
<1> DEFINE call == calls[c]
<1>0. PICK a \in Appointments : a = call.id
  BY TypeParts, CallFields DEF CommitCancel, Take
<1> DEFINE old == appointments[a]
           ap == [Bumped(old) EXCEPT !.life = "cancelled", !.reasoned = call.reason]
<1>1. /\ Editable(old.life) /\ Save(a, ap) /\ UNCHANGED requests
  BY <1>0 DEF CommitCancel
<1>2. old \in Appointment
  BY DEF TypeOK
<1>3. /\ ap.life = "cancelled" /\ ap.version > old.version
      /\ ap.fixedOnce = old.fixedOnce /\ ap.conf = old.conf
  BY <1>2 DEF Bumped, Appointment
<1> HIDE DEF ap
<1>4. /\ appointments'[a] = ap /\ TeamKept(a)
      /\ \A b \in Appointments : b # a => RowKept(b)
  BY <1>1, SaveView
<1>5. Ended(a)
  BY <1>0, <1>1, <1>3, <1>4 DEF Ended, RequestsKept, Later
<1>6. QED
  BY <1>1, <1>4, <1>5, OthersKept DEF View

\* Completing ends a fixed appointment.
LEMMA CompleteView ==
  ASSUME TypeOK, NEW c \in Clients, CommitComplete(c)
  PROVE  \A b \in Appointments : View(b)
<1> DEFINE call == calls[c]
<1>0. PICK a \in Appointments : a = call.id
  BY TypeParts, CallFields DEF CommitComplete, Take
<1> DEFINE old == appointments[a]
           ap == [Bumped(old) EXCEPT !.life = "completed"]
<1>1. /\ old.life = "fixed" /\ Save(a, ap) /\ UNCHANGED requests
  BY <1>0 DEF CommitComplete
<1>2. old \in Appointment
  BY DEF TypeOK
<1>3. /\ ap.life = "completed" /\ ap.version > old.version
      /\ ap.fixedOnce = old.fixedOnce /\ ap.conf = old.conf
  BY <1>2 DEF Bumped, Appointment
<1> HIDE DEF ap
<1>4. /\ appointments'[a] = ap /\ TeamKept(a)
      /\ \A b \in Appointments : b # a => RowKept(b)
  BY <1>1, SaveView
<1>5. Ended(a)
  BY <1>1, <1>3, <1>4 DEF Ended, RequestsKept, Later
<1>6. QED
  BY <1>1, <1>4, <1>5, OthersKept DEF View

\* Reopening makes a vetted proposal without requests of a cancelled appointment.
LEMMA ReopenView ==
  ASSUME TypeOK, NEW c \in Clients, CommitReopen(c)
  PROVE  \A b \in Appointments : View(b)
<1> DEFINE call == calls[c]
<1>0. PICK a \in Appointments : a = call.id
  BY TypeParts, CallFields DEF CommitReopen, Take
<1> DEFINE old == appointments[a]
           ap == Reopened(old, call.override)
<1>1. /\ Take(c, "reopen") /\ old.life = "cancelled" /\ Save(a, ap)
      /\ EnsureReady(TeamOf(a), ap, DataOf(ap), call.override, FALSE)
      /\ SetWorkflow(ap.job, "planning", jobs[ap.job].waiting)
      /\ RevokeRequests(a) /\ UNCHANGED staff
  BY <1>0 DEF CommitReopen
<1>2. call.override \in BOOLEAN
  BY <1>1, TypeParts, CallFields DEF Take
<1>3. old \in Appointment
  BY DEF TypeOK
<1>4. /\ ap \in Appointment /\ ap.override = call.override /\ ap.version > old.version
      /\ ap.life = "proposal" /\ ap.conf = "not_requested" /\ ~ap.fixedOnce
  <2>1. ap \in Appointment
    BY <1>2, <1>3, ReopenedType
  <2>2. /\ ap.override = call.override /\ ap.version > old.version
        /\ ap.life = "proposal" /\ ap.conf = "not_requested" /\ ~ap.fixedOnce
    BY <1>3 DEF Reopened, Bumped, Appointment
  <2>3. QED
    BY <2>1, <2>2
<1> HIDE DEF ap
<1>5. /\ appointments'[a] = ap /\ TeamKept(a)
      /\ \A b \in Appointments : b # a => RowKept(b)
  BY <1>1, SaveView
<1>6. TeamOf(a)' = TeamOf(a)
  BY <1>5 DEF TeamOf, TeamKept
<1>7. \A j \in Jobs : jobs'[j].data = jobs[j].data
  BY <1>1, <1>4, JobType, TypeParts, WorkflowKeepsData
<1>8. Vetted(a)
  <2>1. EnsureReady(TeamOf(a), ap, DataOf(ap), ap.override, FALSE) /\ SamePlace(ap, ap)
    BY <1>1, <1>4 DEF SamePlace
  <2>2. QED
    BY <1>1, <1>4, <1>5, <1>6, <1>7, <2>1, VettedNow
<1>9. /\ requests'[a] = Revoked(requests[a])
      /\ \A b \in Appointments : b # a => requests'[b] = requests[b]
  BY <1>1 DEF RevokeRequests, TypeOK
<1>10. Restored(a)
  BY <1>1, <1>4, <1>5, <1>8, <1>9 DEF Restored, Later
<1>11. QED
  BY <1>5, <1>9, <1>10, OthersKept DEF View

\* Every transaction of the appointment store is one of the cases of View.
LEMMA CommitView ==
  ASSUME TypeOK, NEW c \in Clients, Commit(c)
  PROVE  \A a \in Appointments : View(a)
<1>1. ASSUME CommitSwap(c), NEW a \in Appointments PROVE View(a)
  <2>1. /\ Swapping /\ UNCHANGED <<jobs, staff, requests>>
        /\ \/ RowKept(a)
           \/ /\ Swappable(appointments[a].life) /\ TeamKept(a)
              /\ \E start \in Int :
                   appointments'[a] = [Bumped(appointments[a]) EXCEPT !.start = start]
    BY <1>1, SwapView
  <2>2. CASE RowKept(a)
    BY <2>1, <2>2 DEF View, Kept
  <2>3. ASSUME Swappable(appointments[a].life), TeamKept(a), NEW start \in Int,
               appointments'[a] = [Bumped(appointments[a]) EXCEPT !.start = start]
        PROVE  View(a)
    <3>1. appointments[a] \in Appointment
      BY DEF TypeOK
    <3>2. /\ LifeKept(a) /\ appointments'[a].conf = appointments[a].conf
          /\ appointments'[a].version > appointments[a].version
      BY <2>3, <3>1 DEF LifeKept, Bumped, Appointment
    <3>3. Swapped(a)
      BY <2>1, <2>3, <3>2 DEF Swapped, RequestsKept, Later
    <3>4. QED
      BY <3>3 DEF View
  <2>4. QED
    BY <2>1, <2>2, <2>3
<1>2. QED
  BY <1>1, PlanView, AssignView, ProposeView, RescheduleView, FixView, CancelView, ReopenView,
     CompleteView, Commit(c) DEF Commit

\* So is what happens to jobs: a draft, outdated requests or nothing.
LEMMA ManageJobsView ==
  ASSUME TypeOK, ManageJobs, NEW a \in Appointments
  PROVE  View(a)
<1>1. ASSUME NEW b \in Appointments, NEW j \in Jobs, NEW start, NEW dur, NEW buffer,
             CreateDraft(b, j, start, dur, buffer)
      PROVE  View(a)
  <2> DEFINE ap == NewAppointment(j, start, dur, buffer)
  <2>1. /\ ~Used(b) /\ appointments' = [appointments EXCEPT ![b] = ap]
        /\ UNCHANGED <<driverRows, resourceRows, requests>>
    BY <1>1 DEF CreateDraft, Write
  <2>2. /\ ap.life = "draft" /\ ap.version = 1
        /\ ap.conf = "not_requested" /\ ~ap.fixedOnce
    BY DEF NewAppointment
  <2>3. appointments'[b] = ap /\ \A d \in Appointments : d # b => appointments'[d] = appointments[d]
    BY <2>1 DEF TypeOK
  <2> HIDE DEF ap
  <2>4. Created(b)
    BY <2>1, <2>2, <2>3 DEF Created
  <2>5. a # b => Kept(a)
    BY <2>1, <2>3, RowsKeepTeams DEF Kept, RowKept
  <2>6. QED
    BY <2>4, <2>5 DEF View
<1>2. ASSUME NEW j \in Jobs, NEW data, UpdateJob(j, data) PROVE View(a)
  <2>1. /\ UNCHANGED <<driverRows, resourceRows>>
        /\ \/ appointments'[a] = appointments[a] /\ requests'[a] = requests[a]
           \/ /\ appointments[a].life = "fixed"
              /\ appointments'[a] = [Bumped(appointments[a]) EXCEPT !.conf = "not_requested"]
              /\ requests'[a] = Revoked(requests[a])
    BY <1>2 DEF UpdateJob
  <2>2. TeamKept(a)
    BY <2>1, RowsKeepTeams
  <2>3. ASSUME appointments'[a] = [Bumped(appointments[a]) EXCEPT !.conf = "not_requested"]
        PROVE  Later(a)
    <3>1. appointments[a] \in Appointment
      BY DEF TypeOK
    <3>2. QED
      BY <2>3, <3>1 DEF Later, Bumped, Appointment
  <2>4. QED
    BY <2>1, <2>2, <2>3 DEF View, Kept, RowKept, Outdated
<1>3. ASSUME NEW j \in Jobs, ArchiveJob(j) \/ RemoveWaitlist(j) PROVE View(a)
  BY <1>3, RowsKeepTeams DEF ArchiveJob, RemoveWaitlist, bookings, View, Kept, RowKept
<1>4. QED
  BY <1>1, <1>2, <1>3, ManageJobs DEF ManageJobs

\* And what customers and the administrator do to requests.
LEMMA ConfirmView ==
  ASSUME TypeOK, Confirm, NEW a \in Appointments
  PROVE  View(a)
<1>0. /\ \A b \in Appointments : appointments[b] \in Appointment
      /\ \A b \in Appointments : requests[b] \in Seq(Request)
  BY DEF TypeOK
<1>1. UNCHANGED <<driverRows, resourceRows, jobs, staff>>
  BY Confirm DEF Confirm, Respond, ResetResponse, Reissue, Expire, bookings, staff
<1>2. \A b \in Appointments : TeamKept(b)
  BY <1>1, RowsKeepTeams
<1>3. ASSUME NEW b \in Appointments, NEW i \in DOMAIN requests[b],
             NEW response \in {"none"} \cup Responses, Answerable(b, i),
             requests' = [requests EXCEPT ![b][i].response = response],
             SetConfirmation(b, IF response = "none" THEN "pending" ELSE response)
      PROVE  View(a)
  <2>1. /\ requests'[b] = [requests[b] EXCEPT ![i].response = response]
        /\ \A d \in Appointments : d # b => requests'[d] = requests[d]
    BY <1>3 DEF TypeOK
  <2>2. /\ appointments'[b] = [Bumped(appointments[b]) EXCEPT
                                 !.conf = IF response = "none" THEN "pending" ELSE response]
        /\ \A d \in Appointments : d # b => appointments'[d] = appointments[d]
    BY <1>3 DEF SetConfirmation, TypeOK
  <2>3. Later(b)
    BY <2>2, <1>0 DEF Later, Bumped, Appointment
  <2>4. Answered(b)
    BY <1>1, <1>2, <1>3, <2>1, <2>2, <2>3 DEF Answered, Answerable
  <2>5. QED
    BY <1>2, <2>1, <2>2, <2>4, OthersKept DEF View, RowKept
<1>4. ASSUME NEW b \in Appointments, Reissue(b) PROVE View(a)
  <2> DEFINE bumped == Bumped(appointments[b])
             ap == WithConfirmation(bumped, TRUE)
  <2>1. /\ appointments[b].life = "fixed" /\ appointments' = [appointments EXCEPT ![b] = ap]
        /\ PlanConfirmation(b, ap, TRUE)
    BY <1>4 DEF Reissue
  <2>2. /\ appointments'[b] = ap
        /\ \A d \in Appointments : d # b => appointments'[d] = appointments[d]
    BY <2>1 DEF TypeOK
  <2>3. /\ bumped \in Appointment /\ bumped.version > appointments[b].version
        /\ SamePlace(bumped, appointments[b]) /\ SameMarks(bumped, appointments[b])
    BY <1>0, BumpedLater
  <2> HIDE DEF bumped
  <2>4. /\ SamePlace(ap, bumped) /\ ap.life = bumped.life /\ ap.fixedOnce = bumped.fixedOnce
        /\ ap.version = bumped.version
    BY <2>3, ConfirmationColumns
  <2>5. Asked(b) /\ \A d \in Appointments : d # b => requests'[d] = requests[d]
    BY <2>1, <2>2, <2>3, PlanAsks
  <2> HIDE DEF ap
  <2>6. Reissued(b)
    BY <1>1, <1>2, <2>1, <2>2, <2>3, <2>4, <2>5
    DEF Reissued, LifeKept, PlanKept, Later, SamePlace, SameMarks
  <2>7. QED
    BY <1>2, <2>2, <2>5, <2>6, OthersKept DEF View, RowKept
<1>5. ASSUME NEW b \in Appointments, NEW i \in DOMAIN requests[b], Expire(b, i) PROVE View(a)
  <2>1. /\ requests'[b] = [requests[b] EXCEPT ![i].expired = TRUE]
        /\ \A d \in Appointments : d # b => requests'[d] = requests[d]
        /\ UNCHANGED appointments
    BY <1>5 DEF Expire, TypeOK, bookings
  <2>2. \A d \in Appointments : RowKept(d)
    BY <1>2, <2>1 DEF RowKept
  <2>3. Expired(b)
    BY <1>1, <2>1, <2>2 DEF Expired
  <2>4. QED
    BY <2>1, <2>2, <2>3, OthersKept DEF View
<1>6. ASSUME NEW b \in Appointments, NEW i \in DOMAIN requests[b],
             (\E response \in Responses : Respond(b, i, response)) \/ ResetResponse(b, i)
      PROVE  View(a)
  <2>1. "none" \notin Responses
    BY DEF Responses
  <2>2. QED
    BY <1>3, <1>6, <2>1 DEF Respond, ResetResponse
<1>7. QED
  BY <1>4, <1>5, <1>6, Confirm DEF Confirm

\* Whatever happens, it is one of the cases of View for each appointment.
LEMMA StepView == TypeOK /\ [Next]_vars => \A a \in Appointments : View(a)
<1> SUFFICES ASSUME TypeOK, [Next]_vars, NEW a \in Appointments PROVE View(a)
  OBVIOUS
<1>1. UNCHANGED <<bookings, requests>> => View(a)
  BY RowsKeepTeams DEF bookings, View, Kept, RowKept
<1>2. ASSUME NEW c \in Clients, Submit(c) \/ Fail(c) PROVE View(a)
  BY <1>1, <1>2, SubmitIsQuiet DEF Fail
<1>3. ASSUME ManageStaff PROVE View(a)
  BY <1>1, <1>3 DEF ManageStaff, DeactivateDriver, UpdateDriver, ChangeAvailability,
                    UpdateResource, DeactivateResource
<1>4. CASE UNCHANGED vars
  BY <1>1, <1>4 DEF vars
<1>5. QED
  BY <1>2, <1>3, <1>4, CommitView, ManageJobsView, ConfirmView DEF Next

-----------------------------------------------------------------------------
(* Confirmation requests *)

\* Revoking leaves no request active and the number of them as it is.
LEMMA RevokedMeans ==
  ASSUME NEW list \in Seq(Request)
  PROVE  /\ Revoked(list) \in Seq(Request) /\ Len(Revoked(list)) = Len(list)
         /\ DOMAIN Revoked(list) = DOMAIN list
         /\ \A i \in DOMAIN list : ~Active(Revoked(list)[i])
<1>1. Revoked(list) \in Seq(Request)
  BY RevokedType
<1>2. DOMAIN Revoked(list) = DOMAIN list
  BY DEF Revoked
<1>3. Len(Revoked(list)) = Len(list)
  BY <1>1, <1>2, LenProperties
<1>4. ASSUME NEW i \in DOMAIN list PROVE ~Active(Revoked(list)[i])
  <2>1. list[i] \in Request
    BY ElementOfSeq
  <2>2. QED
    BY <2>1 DEF Revoked, Active, Request
<1>5. QED
  BY <1>1, <1>2, <1>3, <1>4

\* Asking leaves at most the new request active, which waits for its answer.
LEMMA AskedMeans ==
  ASSUME NEW a \in Appointments, requests[a] \in Seq(Request), Asked(a)
  PROVE  /\ \A i \in DOMAIN requests[a] : ~Active(requests'[a][i])
         /\ \/ /\ appointments'[a].conf = "pending"
               /\ Len(requests'[a]) = Len(requests[a]) + 1
               /\ DOMAIN requests'[a] = 1 .. Len(requests[a]) + 1
               /\ requests'[a][Len(requests'[a])] = NewRequest(appointments'[a])
            \/ /\ appointments'[a].conf = "not_requested"
               /\ Len(requests'[a]) = Len(requests[a])
               /\ DOMAIN requests'[a] = DOMAIN requests[a]
<1> DEFINE list == requests[a]
           old == Revoked(list)
<1>1. /\ old \in Seq(Request) /\ Len(old) = Len(list) /\ DOMAIN old = DOMAIN list
      /\ \A i \in DOMAIN list : ~Active(old[i])
  BY RevokedMeans
<1>2. Len(list) \in Nat /\ DOMAIN list = 1 .. Len(list)
  BY LenProperties
<1> HIDE DEF old
<1>3. ASSUME NEW request, requests'[a] = Append(old, request)
      PROVE  /\ \A i \in DOMAIN list : ~Active(requests'[a][i])
             /\ Len(requests'[a]) = Len(list) + 1
             /\ DOMAIN requests'[a] = 1 .. Len(list) + 1
             /\ requests'[a][Len(requests'[a])] = request
  BY <1>1, <1>2, <1>3, AppendProperties
<1>4. QED
  BY <1>1, <1>3 DEF Asked, old

\* What has not been created was never asked about.
Fresh(a) == ~Used(a) => requests[a] = <<>> /\ appointments[a].version = 0

\* Nothing that exists is made unused.
LEMMA FreshKept ==
  ASSUME NEW a \in Appointments, appointments[a] \in Appointment, Fresh(a), View(a)
  PROVE  Fresh(a)'
<1> USE DEF Fresh, Used
<1>1. CASE Kept(a)
  BY <1>1 DEF Kept, RowKept
<1>2. CASE Expired(a)
  <2>1. ~Used(a)' => requests[a] = <<>>
    BY <1>2 DEF Expired, RowKept
  <2>2. requests[a] # <<>>
    BY <1>2 DEF Expired
  <2>3. QED
    BY <2>1, <2>2
<1>3. CASE Outdated(a) \/ Answered(a)
  <2>1. Used(a)'
    BY <1>3 DEF Outdated, Answered, Bumped, Appointment
  <2>2. QED
    BY <2>1
<1>4. QED
  BY <1>1, <1>2, <1>3, View(a)
  DEF View, Created, Planned, Swapped, Swappable, Reassigned, Shifted, Fixed, Ended, Restored,
      Reissued, LifeKept

\* The conjuncts of ConfirmationConsistent, for one appointment.
NewestOnly(a) == \A i \in DOMAIN requests[a] : i < Len(requests[a]) => ~Active(requests[a][i])
ConfirmationAgrees(a) ==
  /\ NewestOnly(a)
  /\ (appointments[a].life = "fixed" /\ HasActiveRequest(a)) =>
       appointments[a].conf = AnswerOf(LatestOf(a))
  /\ (appointments[a].life = "fixed" /\ ~HasActiveRequest(a)) =>
       appointments[a].conf = "not_requested"
  /\ appointments[a].life \in {"draft", "proposal"} =>
       appointments[a].conf = "not_requested" /\ ~HasActiveRequest(a)

\* Status and requests tell the same story after every step.
LEMMA ConfirmationKept ==
  ASSUME NEW a \in Appointments, appointments[a] \in Appointment, requests[a] \in Seq(Request),
         Fresh(a), ConfirmationAgrees(a), View(a)
  PROVE  ConfirmationAgrees(a)'
<1>0. Len(requests[a]) \in Nat /\ DOMAIN requests[a] = 1 .. Len(requests[a])
  BY LenProperties
<1>1. ASSUME requests'[a] = requests[a]
      PROVE  /\ NewestOnly(a)' /\ HasActiveRequest(a)' = HasActiveRequest(a)
             /\ LatestOf(a)' = LatestOf(a)
  BY <1>1 DEF ConfirmationAgrees, NewestOnly, HasActiveRequest, LatestOf, Active
<1>2. ASSUME requests'[a] = Revoked(requests[a])
      PROVE  NewestOnly(a)' /\ ~HasActiveRequest(a)'
  <2>1. /\ Len(requests'[a]) = Len(requests[a]) /\ DOMAIN requests'[a] = DOMAIN requests[a]
        /\ \A i \in DOMAIN requests[a] : ~Active(requests'[a][i])
    BY <1>2, RevokedMeans
  <2>2. requests'[a] = <<>> \/ Len(requests'[a]) \in DOMAIN requests[a]
    BY <1>0, <2>1, <1>2, RevokedMeans, EmptySeq
  <2>3. QED
    BY <2>1, <2>2 DEF NewestOnly, HasActiveRequest, LatestOf, Active
<1>3. CASE Kept(a)
  BY <1>1, <1>3 DEF Kept, RowKept, ConfirmationAgrees, AnswerOf
<1>4. CASE Created(a)
  <2>1. requests[a] = <<>>
    BY <1>4 DEF Created, Fresh
  <2>2. ~HasActiveRequest(a)'
    BY <1>4, <2>1 DEF Created, HasActiveRequest
  <2>3. QED
    BY <1>1, <1>4, <2>2 DEF Created, ConfirmationAgrees
<1>5. CASE Planned(a)
  BY <1>1, <1>5 DEF Planned, RequestsKept, ConfirmationAgrees
<1>6. CASE Swapped(a) \/ Reassigned(a)
  BY <1>1, <1>6 DEF Swapped, Reassigned, LifeKept, RequestsKept, ConfirmationAgrees, AnswerOf
<1>7. CASE Shifted(a) \/ Fixed(a) \/ Reissued(a)
  <2>1. appointments'[a].life = "fixed" /\ Asked(a)
    BY <1>7 DEF Shifted, Fixed, Reissued, LifeKept
  <2>2. \A i \in DOMAIN requests[a] : ~Active(requests'[a][i])
    BY <2>1, AskedMeans
  <2>3. CASE /\ appointments'[a].conf = "pending"
             /\ Len(requests'[a]) = Len(requests[a]) + 1
             /\ DOMAIN requests'[a] = 1 .. Len(requests[a]) + 1
             /\ requests'[a][Len(requests'[a])] = NewRequest(appointments'[a])
    <3>1. NewestOnly(a)'
      BY <1>0, <2>2, <2>3 DEF NewestOnly
    <3>2. AnswerOf(NewRequest(appointments'[a])) = "pending"
      BY DEF AnswerOf, NewRequest
    <3>3. HasActiveRequest(a)' /\ LatestOf(a)' = NewRequest(appointments'[a])
      <4>1. requests'[a] # <<>>
        BY <1>0, <2>3
      <4>2. QED
        BY <2>3, <4>1 DEF HasActiveRequest, LatestOf, Active, NewRequest
    <3>4. QED
      BY <2>1, <2>3, <3>1, <3>2, <3>3 DEF ConfirmationAgrees
  <2>4. CASE /\ appointments'[a].conf = "not_requested"
             /\ Len(requests'[a]) = Len(requests[a])
             /\ DOMAIN requests'[a] = DOMAIN requests[a]
    <3>1. NewestOnly(a)'
      BY <2>2, <2>4 DEF NewestOnly
    <3>2. ~HasActiveRequest(a)'
      BY <1>0, <2>2, <2>4 DEF HasActiveRequest, LatestOf
    <3>3. QED
      BY <2>1, <2>4, <3>1, <3>2 DEF ConfirmationAgrees
  <2>5. QED
    BY <2>1, <2>3, <2>4, AskedMeans
<1>8. CASE Ended(a)
  BY <1>1, <1>8 DEF Ended, RequestsKept, ConfirmationAgrees
<1>9. CASE Restored(a)
  BY <1>2, <1>9 DEF Restored, ConfirmationAgrees
<1>10. CASE Outdated(a)
  <2>1. appointments'[a].life = "fixed" /\ appointments'[a].conf = "not_requested"
    BY <1>10 DEF Outdated, Bumped, Appointment
  <2>2. QED
    BY <1>2, <1>10, <2>1 DEF Outdated, ConfirmationAgrees
<1>11. CASE Answered(a)
  <2>1. PICK i \in DOMAIN requests[a], response \in {"none"} \cup Responses :
          /\ Active(requests[a][i])
          /\ requests'[a] = [requests[a] EXCEPT ![i].response = response]
          /\ appointments'[a] = [Bumped(appointments[a]) EXCEPT
                                   !.conf = IF response = "none" THEN "pending" ELSE response]
    BY <1>11 DEF Answered
  <2>2. i = Len(requests[a])
    BY <1>0, <2>1 DEF ConfirmationAgrees, NewestOnly
  <2>3. /\ appointments'[a].life = "fixed"
        /\ appointments'[a].conf = IF response = "none" THEN "pending" ELSE response
    BY <1>11, <2>1 DEF Answered, Bumped, Appointment
  <2>4. requests[a][i] \in Request
    BY ElementOfSeq
  <2>5. /\ Len(requests'[a]) = Len(requests[a]) /\ DOMAIN requests'[a] = DOMAIN requests[a]
        /\ \A k \in DOMAIN requests[a] : k # i => requests'[a][k] = requests[a][k]
        /\ requests'[a][i].response = response /\ Active(requests'[a][i])
    BY <2>1, <2>4 DEF Active, Request
  <2>6. NewestOnly(a)'
    BY <2>2, <2>5 DEF ConfirmationAgrees, NewestOnly
  <2>7. HasActiveRequest(a)' /\ LatestOf(a)'.response = response
    <3>1. requests'[a] # <<>>
      BY <2>5
    <3>2. QED
      BY <2>2, <2>5, <3>1 DEF HasActiveRequest, LatestOf, Active
  <2>8. QED
    BY <2>3, <2>6, <2>7 DEF ConfirmationAgrees, AnswerOf
<1>12. CASE Expired(a)
  <2>1. PICK i \in DOMAIN requests[a] : requests'[a] = [requests[a] EXCEPT ![i].expired = TRUE]
    BY <1>12 DEF Expired
  <2>2. \A k \in DOMAIN requests[a] : requests[a][k] \in Request
    BY ElementOfSeq, <1>0
  <2>3. /\ Len(requests'[a]) = Len(requests[a]) /\ DOMAIN requests'[a] = DOMAIN requests[a]
        /\ \A k \in DOMAIN requests[a] : /\ requests'[a][k].status = requests[a][k].status
                                         /\ requests'[a][k].response = requests[a][k].response
    BY <2>1, <2>2 DEF Request
  <2>4. /\ requests[a] # <<>> /\ requests'[a] # <<>> /\ Len(requests[a]) \in DOMAIN requests[a]
    BY <1>0, <2>1, <2>3
  <2>5. /\ NewestOnly(a)' /\ HasActiveRequest(a)' = HasActiveRequest(a)
        /\ AnswerOf(LatestOf(a))' = AnswerOf(LatestOf(a))
    BY <2>3, <2>4
    DEF ConfirmationAgrees, NewestOnly, HasActiveRequest, LatestOf, AnswerOf, Active
  <2>6. QED
    BY <1>12, <2>5 DEF Expired, RowKept, ConfirmationAgrees
<1>13. QED
  BY <1>3, <1>4, <1>5, <1>6, <1>7, <1>8, <1>9, <1>10, <1>11, <1>12, View(a) DEF View

\* The inductive invariant of the answers.
AnswersSound == TypeOK /\ \A a \in Appointments : Fresh(a) /\ ConfirmationAgrees(a)

\* It holds at first, when nothing has been created.
LEMMA InitAnswers == Init => AnswersSound
<1> SUFFICES ASSUME Init PROVE AnswersSound
  OBVIOUS
<1>1. ASSUME NEW a \in Appointments PROVE Fresh(a) /\ ConfirmationAgrees(a)
  <2>1. /\ requests[a] = <<>> /\ appointments[a].life = "none" /\ appointments[a].version = 0
    BY DEF Init, NoAppointment
  <2>2. QED
    BY <2>1 DEF Fresh, ConfirmationAgrees, NewestOnly
<1>2. QED
  BY <1>1, InitTyped DEF AnswersSound

\* Every step keeps it.
LEMMA NextAnswers == AnswersSound /\ [Next]_vars => AnswersSound'
<1> SUFFICES ASSUME AnswersSound, [Next]_vars PROVE AnswersSound'
  OBVIOUS
<1>1. TypeOK /\ TypeOK'
  BY NextTyped DEF AnswersSound
<1>2. ASSUME NEW a \in Appointments PROVE Fresh(a)' /\ ConfirmationAgrees(a)'
  <2>1. appointments[a] \in Appointment /\ requests[a] \in Seq(Request)
    BY <1>1 DEF TypeOK
  <2>2. Fresh(a) /\ ConfirmationAgrees(a) /\ View(a)
    BY <1>1, StepView DEF AnswersSound
  <2>3. QED
    BY <2>1, <2>2, FreshKept, ConfirmationKept
<1>3. QED
  BY <1>1, <1>2 DEF AnswersSound

\* In every order in which answers, resets, new requests, moves and edits of the
\* job commit, only the newest request is active and the confirmation status of
\* the appointment is the answer to it.
THEOREM ConfirmationAlwaysConsistent == Spec => []ConfirmationConsistent
<1>1. Init => AnswersSound
  BY InitAnswers
<1>2. AnswersSound /\ [Next]_vars => AnswersSound'
  BY NextAnswers
<1>3. AnswersSound => ConfirmationConsistent
  BY DEF AnswersSound, ConfirmationAgrees, NewestOnly, ConfirmationConsistent
<1>4. QED
  BY <1>1, <1>2, <1>3, PTL DEF Spec

\* A link that does not work is not made to work by any step on its appointment.
LEMMA LinkKept ==
  ASSUME NEW a \in Appointments, appointments[a] \in Appointment, requests[a] \in Seq(Request),
         View(a), NEW i \in DOMAIN requests[a], ~Live(a, i)
  PROVE  ~Live(a, i)'
<1>0. requests[a][i] \in Request
  BY ElementOfSeq, LenProperties
<1>1. ASSUME ~Active(requests'[a][i]) PROVE ~Live(a, i)'
  BY <1>1 DEF Live, Active
<1>2. CASE Kept(a) \/ Reassigned(a)
  BY <1>2 DEF Kept, RowKept, Reassigned, LifeKept, RequestsKept, Live, Active
<1>3. CASE Created(a) \/ Planned(a) \/ Swapped(a) \/ Ended(a) \/ Restored(a)
  BY <1>3 DEF Created, Planned, Swapped, Swappable, LifeKept, Ended, Restored, Live
<1>4. CASE Shifted(a) \/ Fixed(a) \/ Reissued(a)
  BY <1>1, <1>4, AskedMeans DEF Shifted, Fixed, Reissued
<1>5. CASE Outdated(a)
  BY <1>1, <1>5, RevokedMeans DEF Outdated
<1>6. CASE Answered(a)
  <2>1. PICK k \in DOMAIN requests[a], response \in {"none"} \cup Responses :
          requests'[a] = [requests[a] EXCEPT ![k].response = response]
    BY <1>6 DEF Answered
  <2>2. /\ requests'[a][i].status = requests[a][i].status
        /\ requests'[a][i].expired = requests[a][i].expired
    BY <2>1, <1>0 DEF Request
  <2>3. QED
    BY <1>6, <2>2 DEF Answered, Live, Active
<1>7. CASE Expired(a)
  <2>1. PICK k \in DOMAIN requests[a] : requests'[a] = [requests[a] EXCEPT ![k].expired = TRUE]
    BY <1>7 DEF Expired
  <2>2. /\ requests'[a][i].status = requests[a][i].status
        /\ requests[a][i].expired => requests'[a][i].expired
    BY <2>1, <1>0 DEF Request
  <2>3. QED
    BY <1>7, <2>2 DEF Expired, RowKept, Live, Active
<1>8. QED
  BY <1>2, <1>3, <1>4, <1>5, <1>6, <1>7, View(a) DEF View

\* A confirmation link that was revoked, expired or belongs to an appointment
\* that is not fixed never works again, whatever is cancelled, reopened, fixed
\* or reissued afterwards.
THEOREM LinksNeverRevive == Spec => LinkNeverRevives
<1> DEFINE Dead == \A a \in Appointments : \A i \in DOMAIN requests[a] : ~Live(a, i) => ~Live(a, i)'
<1>1. TypeOK /\ [Next]_vars => [Dead]_vars
  <2> SUFFICES ASSUME TypeOK, Next, NEW a \in Appointments, NEW i \in DOMAIN requests[a],
                      ~Live(a, i)
               PROVE  ~Live(a, i)'
    OBVIOUS
  <2>1. View(a) /\ appointments[a] \in Appointment /\ requests[a] \in Seq(Request)
    BY StepView DEF TypeOK
  <2>2. QED
    BY <2>1, LinkKept
<1>2. QED
  BY <1>1, TypeCorrect, PTL DEF Spec, LinkNeverRevives

\* A step that leaves the version of an appointment leaves what clients see of it.
LEMMA VisibleKept ==
  ASSUME NEW a \in Appointments, appointments[a] \in Appointment, requests[a] \in Seq(Request),
         Fresh(a), View(a)
  PROVE  Later(a) \/ Visible(a)' = Visible(a)
<1>1. CASE Created(a)
  BY <1>1 DEF Created, Fresh, Later
<1>2. CASE Kept(a)
  BY <1>2 DEF Kept, RowKept, TeamKept, Visible, TeamOf, AnswersOf
<1>3. CASE Expired(a)
  <2>1. PICK k \in DOMAIN requests[a] : requests'[a] = [requests[a] EXCEPT ![k].expired = TRUE]
    BY <1>3 DEF Expired
  <2>2. \A i \in DOMAIN requests[a] : requests[a][i] \in Request
    BY ElementOfSeq, LenProperties
  <2>3. /\ DOMAIN requests'[a] = DOMAIN requests[a]
        /\ \A i \in DOMAIN requests[a] : /\ requests'[a][i].status = requests[a][i].status
                                         /\ requests'[a][i].response = requests[a][i].response
    BY <2>1, <2>2 DEF Request
  <2>4. AnswersOf(a)' = AnswersOf(a)
    BY <2>3 DEF AnswersOf
  <2>5. QED
    BY <1>3, <2>4 DEF Expired, RowKept, TeamKept, Visible, TeamOf
<1>4. QED
  BY <1>1, <1>2, <1>3, View(a)
  DEF View, Planned, Swapped, Reassigned, Shifted, Fixed, Ended, Restored, Outdated, Answered,
      Reissued

\* Optimistic locking is complete: no operation changes an appointment, its team
\* or the answers to it without a later version, so a client that decided on an
\* older state is refused by the comparison of versions.
THEOREM VersionsCoverState == Spec => VersionCoversState
<1> DEFINE Covered == \A a \in Appointments :
                        Visible(a)' # Visible(a) => appointments[a]'.version > appointments[a].version
<1>1. Init => AnswersSound
  BY InitAnswers
<1>2. AnswersSound /\ [Next]_vars => AnswersSound'
  BY NextAnswers
<1>3. AnswersSound /\ [Next]_vars => [Covered]_vars
  <2> SUFFICES ASSUME AnswersSound, Next, NEW a \in Appointments
               PROVE  Later(a) \/ Visible(a)' = Visible(a)
    BY DEF Later
  <2>1. /\ View(a) /\ Fresh(a)
        /\ appointments[a] \in Appointment /\ requests[a] \in Seq(Request)
    BY StepView DEF AnswersSound, TypeOK
  <2>2. QED
    BY <2>1, VisibleKept
<1>4. QED
  BY <1>1, <1>2, <1>3, PTL DEF Spec, VersionCoversState

-----------------------------------------------------------------------------
(* Jobs and their workflow *)

Same(b) ==
  appointments'[b].life = appointments[b].life /\ appointments'[b].job = appointments[b].job
SameJob(k) ==
  /\ jobs'[k].workflow = jobs[k].workflow /\ jobs'[k].archived = jobs[k].archived
  /\ jobs'[k].waiting = jobs[k].waiting

\* One appointment becomes open, or moves on, for its job.
Enters(a, j) ==
  /\ Editable(appointments'[a].life) /\ appointments'[a].job = j
  /\ Editable(appointments[a].life) => appointments[a].job = j
  /\ \/ appointments'[a].life = "fixed" /\ SetWorkflow(j, "scheduled", FALSE)
     \/ /\ appointments'[a].life \in {"draft", "proposal"}
        /\ \E waiting \in BOOLEAN : SetWorkflow(j, "planning", waiting)
  /\ OneActivePerJob(appointments')

\* Or it is open no more.
Leaves(a, j) ==
  /\ Editable(appointments[a].life) /\ appointments[a].job = j
  /\ ~Editable(appointments'[a].life)
  /\ \/ /\ appointments[a].life = "fixed"
        /\ \E workflow \in {"cancelled", "completed"} : SetWorkflow(j, workflow, jobs[j].waiting)
     \/ SetWorkflow(j, "waitlist", TRUE)

JobStep ==
  \/ /\ \A a \in Appointments : Same(a)
     /\ \/ \A j \in Jobs : SameJob(j)
        \/ \E j \in Jobs : ArchiveJob(j) \/ RemoveWaitlist(j)
  \/ \E a \in Appointments, j \in Jobs :
       /\ \A b \in Appointments : b # a => Same(b)
       /\ Enters(a, j) \/ Leaves(a, j)

\* A transaction that keeps lifecycle and job of every appointment is quiet.
LEMMA QuietJobs ==
  ASSUME UNCHANGED jobs, NEW a \in Appointments, Same(a),
         \A b \in Appointments : b # a => RowKept(b)
  PROVE  JobStep
BY DEF JobStep, Same, SameJob, RowKept

\* What the transactions make of the jobs.
LEMMA CommitJobs ==
  ASSUME TypeOK, NEW c \in Clients, Commit(c)
  PROVE  JobStep
<1> DEFINE call == calls[c]
<1>0. /\ \A b \in Appointments : appointments[b] \in Appointment
      /\ \A j \in Jobs : jobs[j].waiting \in BOOLEAN
      /\ \A ap \in Appointment : ap.job \in Jobs
  BY JobType DEF TypeOK
<1>a. \A op : Take(c, op) => call.op = op
  BY DEF Take
<1>b. ASSUME NEW a \in Appointments, NEW j \in Jobs, Enters(a, j) \/ Leaves(a, j),
             \A b \in Appointments : b # a => RowKept(b)
      PROVE  JobStep
  BY <1>b DEF JobStep, Same, RowKept
<1>1. ASSUME NEW a \in Appointments, CommitPlan(c, a) PROVE JobStep
  <2> DEFINE draft == NewAppointment(call.job, call.start, call.dur, call.buffer)
             ap == [draft EXCEPT !.life = "proposal", !.override = call.override, !.version = 3]
  <2>1. PICK j \in Jobs : j = call.job
    BY <1>1, TypeParts, CallFields DEF CommitPlan, Take
  <2>2. call.team \in Team
    BY <1>1, TypeParts, CallFields, TeamsType DEF CommitPlan, Take
  <2>3. ~Used(a) /\ SaveTeam(a, ap, call.team) /\ SetWorkflow(j, "planning", TRUE)
    BY <1>1, <2>1 DEF CommitPlan
  <2>4. ap.life = "proposal" /\ ap.job = j
    BY <2>1 DEF NewAppointment
  <2> HIDE DEF ap
  <2>5. /\ appointments'[a] = ap /\ OneActivePerJob(appointments')
        /\ \A b \in Appointments : b # a => RowKept(b)
    BY <2>2, <2>3, SaveTeamView
  <2>6. Enters(a, j)
    BY <2>3, <2>4, <2>5 DEF Enters, Editable, Used
  <2>7. QED
    BY <2>5, <2>6, <1>b
<1>2. ASSUME CommitAssign(c) PROVE JobStep
  <2>1. PICK a \in Appointments : a = call.id
    BY <1>2, TypeParts, CallFields DEF CommitAssign, Take
  <2> DEFINE ap == [Bumped(appointments[a]) EXCEPT !.override = call.override]
  <2>2. call.team \in Team
    BY <1>2, TypeParts, CallFields, TeamsType DEF CommitAssign, Take
  <2>3. SaveTeam(a, ap, call.team) /\ UNCHANGED jobs
    BY <1>2, <2>1 DEF CommitAssign
  <2>4. ap.life = appointments[a].life /\ ap.job = appointments[a].job
    BY <1>0 DEF Bumped, Appointment
  <2> HIDE DEF ap
  <2>5. appointments'[a] = ap /\ \A b \in Appointments : b # a => RowKept(b)
    BY <2>2, <2>3, SaveTeamView
  <2>6. QED
    BY <2>3, <2>4, <2>5, QuietJobs DEF Same
<1>3. ASSUME NEW reachable \in BOOLEAN, CommitReschedule(c, reachable) PROVE JobStep
  <2>1. PICK a \in Appointments : a = call.id
    BY <1>3, TypeParts, CallFields DEF CommitReschedule, Take
  <2> DEFINE moved == Rescheduled(appointments[a], call)
             ap == IF moved.life = "fixed" THEN WithConfirmation(moved, reachable) ELSE moved
  <2>2. Save(a, ap) /\ UNCHANGED jobs
    BY <1>3, <2>1 DEF CommitReschedule
  <2>3. ap.life = appointments[a].life /\ ap.job = appointments[a].job
    BY <1>0 DEF Rescheduled, Bumped, WithConfirmation, Appointment
  <2> HIDE DEF ap
  <2>4. appointments'[a] = ap /\ \A b \in Appointments : b # a => RowKept(b)
    BY <2>2, SaveView
  <2>5. QED
    BY <2>2, <2>3, <2>4, QuietJobs DEF Same
<1>4. ASSUME CommitSwap(c) PROVE JobStep
  <2>1. UNCHANGED jobs
    BY <1>4, SwapView
  <2>2. ASSUME NEW a \in Appointments PROVE Same(a)
    <3>1. \/ RowKept(a)
          \/ \E start \in Int :
               appointments'[a] = [Bumped(appointments[a]) EXCEPT !.start = start]
      BY <1>4, SwapView
    <3>2. QED
      BY <3>1, <1>0 DEF Same, RowKept, Bumped, Appointment
  <2>3. QED
    BY <2>1, <2>2 DEF JobStep, SameJob
<1>5. ASSUME CommitPropose(c) PROVE JobStep
  <2>1. PICK a \in Appointments : a = call.id
    BY <1>5, TypeParts, CallFields DEF CommitPropose, Take
  <2> DEFINE ap == [Bumped(appointments[a]) EXCEPT !.life = "proposal", !.override = call.override]
  <2>2. /\ Save(a, ap) /\ SetWorkflow(ap.job, "planning", jobs[ap.job].waiting)
    BY <1>5, <2>1 DEF CommitPropose
  <2>3. ap.life = "proposal" /\ ap.job = appointments[a].job /\ ap.job \in Jobs
    BY <1>0 DEF Bumped, Appointment
  <2> HIDE DEF ap
  <2>4. /\ appointments'[a] = ap /\ OneActivePerJob(appointments')
        /\ \A b \in Appointments : b # a => RowKept(b)
    BY <2>2, SaveView
  <2>5. Enters(a, ap.job)
    BY <2>2, <2>3, <2>4, <1>0 DEF Enters, Editable
  <2>6. QED
    BY <2>3, <2>4, <2>5, <1>b
<1>6. ASSUME NEW reachable \in BOOLEAN, CommitFix(c, reachable) PROVE JobStep
  <2>1. PICK a \in Appointments : a = call.id
    BY <1>6, TypeParts, CallFields DEF CommitFix, Take
  <2> DEFINE fixed == [Bumped(appointments[a]) EXCEPT !.life = "fixed", !.fixedOnce = TRUE]
             ap == WithConfirmation(fixed, reachable)
  <2>2. /\ Save(a, ap) /\ SetWorkflow(ap.job, "scheduled", FALSE)
    BY <1>6, <2>1 DEF CommitFix
  <2>3. ap.life = "fixed" /\ ap.job = appointments[a].job /\ ap.job \in Jobs
    BY <1>0 DEF Bumped, WithConfirmation, Appointment
  <2> HIDE DEF ap
  <2>4. /\ appointments'[a] = ap /\ OneActivePerJob(appointments')
        /\ \A b \in Appointments : b # a => RowKept(b)
    BY <2>2, SaveView
  <2>5. Enters(a, ap.job)
    BY <2>2, <2>3, <2>4 DEF Enters, Editable
  <2>6. QED
    BY <2>3, <2>4, <2>5, <1>b
<1>7. ASSUME CommitCancel(c) PROVE JobStep
  <2>1. PICK a \in Appointments : a = call.id
    BY <1>7, TypeParts, CallFields DEF CommitCancel, Take
  <2> DEFINE old == appointments[a]
             ap == [Bumped(old) EXCEPT !.life = "cancelled", !.reasoned = call.reason]
  <2>2. /\ Editable(old.life) /\ Save(a, ap)
        /\ \/ old.life = "fixed" /\ SetWorkflow(ap.job, "cancelled", jobs[ap.job].waiting)
           \/ SetWorkflow(ap.job, "waitlist", TRUE)
    BY <1>7, <2>1 DEF CommitCancel
  <2>3. ap.life = "cancelled" /\ ap.job = appointments[a].job /\ ap.job \in Jobs
    BY <1>0 DEF Bumped, Appointment
  <2> HIDE DEF ap
  <2>4. appointments'[a] = ap /\ \A b \in Appointments : b # a => RowKept(b)
    BY <2>2, SaveView
  <2>5. Leaves(a, ap.job)
    BY <2>2, <2>3, <2>4 DEF Leaves, Editable
  <2>6. QED
    BY <2>3, <2>4, <2>5, <1>b
<1>8. ASSUME CommitComplete(c) PROVE JobStep
  <2>1. PICK a \in Appointments : a = call.id
    BY <1>8, TypeParts, CallFields DEF CommitComplete, Take
  <2> DEFINE old == appointments[a]
             ap == [Bumped(old) EXCEPT !.life = "completed"]
  <2>2. /\ old.life = "fixed" /\ Save(a, ap)
        /\ SetWorkflow(ap.job, "completed", jobs[ap.job].waiting)
    BY <1>8, <2>1 DEF CommitComplete
  <2>3. ap.life = "completed" /\ ap.job = appointments[a].job /\ ap.job \in Jobs
    BY <1>0 DEF Bumped, Appointment
  <2> HIDE DEF ap
  <2>4. appointments'[a] = ap /\ \A b \in Appointments : b # a => RowKept(b)
    BY <2>2, SaveView
  <2>5. Leaves(a, ap.job)
    BY <2>2, <2>3, <2>4 DEF Leaves, Editable
  <2>6. QED
    BY <2>3, <2>4, <2>5, <1>b
<1>9. ASSUME CommitReopen(c) PROVE JobStep
  <2>1. PICK a \in Appointments : a = call.id
    BY <1>9, TypeParts, CallFields DEF CommitReopen, Take
  <2> DEFINE ap == Reopened(appointments[a], call.override)
  <2>2. /\ Save(a, ap) /\ SetWorkflow(ap.job, "planning", jobs[ap.job].waiting)
    BY <1>9, <2>1 DEF CommitReopen
  <2>3. ap.life = "proposal" /\ ap.job = appointments[a].job /\ ap.job \in Jobs
    BY <1>0 DEF Reopened, Bumped, Appointment
  <2> HIDE DEF ap
  <2>4. /\ appointments'[a] = ap /\ OneActivePerJob(appointments')
        /\ \A b \in Appointments : b # a => RowKept(b)
    BY <2>2, SaveView
  <2>5. Enters(a, ap.job)
    BY <2>2, <2>3, <2>4, <1>0 DEF Enters, Editable
  <2>6. QED
    BY <2>3, <2>4, <2>5, <1>b
<1>10. QED
  BY <1>1, <1>2, <1>3, <1>4, <1>5, <1>6, <1>7, <1>8, <1>9, Commit(c) DEF Commit

\* Whatever happens, the jobs take one of the steps of JobStep.
LEMMA StepJobs == TypeOK /\ [Next]_vars => JobStep
<1> SUFFICES ASSUME TypeOK, [Next]_vars PROVE JobStep
  OBVIOUS
<1>0. \A b \in Appointments : appointments[b] \in Appointment
  BY DEF TypeOK
<1>1. UNCHANGED <<appointments, jobs>> => JobStep
  BY DEF JobStep, Same, SameJob
<1>2. ASSUME NEW c \in Clients, Submit(c) \/ Fail(c) PROVE JobStep
  BY <1>1, <1>2, SubmitIsQuiet DEF Fail, bookings
<1>3. ASSUME ManageStaff PROVE JobStep
  BY <1>1, <1>3 DEF ManageStaff, DeactivateDriver, UpdateDriver, ChangeAvailability,
                    UpdateResource, DeactivateResource, bookings
<1>4. ASSUME Confirm PROVE JobStep
  <2>1. UNCHANGED jobs
    BY <1>4 DEF Confirm, Respond, ResetResponse, Reissue, Expire
  <2>2. ASSUME NEW a \in Appointments, NEW conf, SetConfirmation(a, conf)
        PROVE  \A b \in Appointments : Same(b)
    BY <2>2, <1>0 DEF SetConfirmation, Same, Bumped, Appointment
  <2>3. ASSUME NEW a \in Appointments, Reissue(a) PROVE \A b \in Appointments : Same(b)
    BY <2>3, <1>0 DEF Reissue, Same, Bumped, WithConfirmation, Appointment
  <2>4. ASSUME NEW a \in Appointments, NEW i, Expire(a, i) PROVE \A b \in Appointments : Same(b)
    BY <2>4 DEF Expire, bookings, Same
  <2>5. \A b \in Appointments : Same(b)
    BY <2>2, <2>3, <2>4, <1>4 DEF Confirm, Respond, ResetResponse
  <2>6. QED
    BY <2>1, <2>5 DEF JobStep, SameJob
<1>5. ASSUME NEW b \in Appointments, NEW j \in Jobs, NEW start, NEW dur, NEW buffer,
             CreateDraft(b, j, start, dur, buffer)
      PROVE  JobStep
  <2> DEFINE ap == NewAppointment(j, start, dur, buffer)
  <2>1. /\ ~Used(b) /\ appointments' = [appointments EXCEPT ![b] = ap]
        /\ OneActivePerJob(appointments') /\ SetWorkflow(j, "planning", TRUE)
    BY <1>5 DEF CreateDraft, Write
  <2>2. ap.life = "draft" /\ ap.job = j
    BY DEF NewAppointment
  <2>3. appointments'[b] = ap /\ \A d \in Appointments : d # b => appointments'[d] = appointments[d]
    BY <2>1 DEF TypeOK
  <2> HIDE DEF ap
  <2>4. Enters(b, j)
    BY <2>1, <2>2, <2>3 DEF Enters, Editable, Used
  <2>5. QED
    BY <2>3, <2>4 DEF JobStep, Same
<1>6. ASSUME NEW j \in Jobs, NEW data, UpdateJob(j, data) PROVE JobStep
  <2>1. \A k \in Jobs : SameJob(k)
    BY <1>6 DEF UpdateJob, SameJob, TypeOK
  <2>2. ASSUME NEW a \in Appointments PROVE Same(a)
    <3>1. \/ appointments'[a] = [Bumped(appointments[a]) EXCEPT !.conf = "not_requested"]
          \/ appointments'[a] = appointments[a]
      BY <1>6 DEF UpdateJob
    <3>2. QED
      BY <3>1, <1>0 DEF Same, Bumped, Appointment
  <2>3. QED
    BY <2>1, <2>2 DEF JobStep
<1>7. ASSUME NEW j \in Jobs, ArchiveJob(j) \/ RemoveWaitlist(j) PROVE JobStep
  BY <1>7 DEF JobStep, Same, ArchiveJob, RemoveWaitlist, bookings
<1>8. CASE UNCHANGED vars
  BY <1>1, <1>8 DEF vars, bookings
<1>9. QED
  BY <1>2, <1>3, <1>4, <1>5, <1>6, <1>7, <1>8, CommitJobs DEF Next, ManageJobs

\* WorkflowAgrees, for one job.
JobAgrees(j) ==
  /\ \A a, b \in OpenOf(j) : a = b
  /\ HasOpen(j, "fixed") <=> jobs[j].workflow = "scheduled"
  /\ HasOpen(j, "proposal") => jobs[j].workflow = "planning"
  /\ HasOpen(j, "draft") => jobs[j].workflow = "planning" \/ jobs[j].archived
  /\ jobs[j].workflow = "planning" => OpenOf(j) # {}
  /\ jobs[j].waiting => jobs[j].workflow \in {"waitlist", "planning"}

\* A job whose appointments keep their lifecycle keeps agreeing.
LEMMA AgreesQuietly ==
  ASSUME NEW j \in Jobs, JobAgrees(j), SameJob(j),
         OpenOf(j)' = OpenOf(j),
         \A a \in OpenOf(j) : appointments'[a].life = appointments[a].life
  PROVE  JobAgrees(j)'
BY DEF JobAgrees, SameJob, HasOpen

\* No other job is concerned when an appointment enters or leaves one.
LEMMA OtherJobs ==
  ASSUME NEW a \in Appointments, NEW j \in Jobs, Enters(a, j) \/ Leaves(a, j),
         \A b \in Appointments : b # a => Same(b), NEW k \in Jobs, k # j, JobAgrees(k), JobsTyped
  PROVE  JobAgrees(k)'
<1>1. SameJob(k)
  BY DEF Enters, Leaves, SetWorkflow, SameJob, JobsTyped
<1>2. a \notin OpenOf(k) /\ a \notin OpenOf(k)'
  <2>1. Editable(appointments[a].life) => appointments[a].job # k
    BY DEF Enters, Leaves
  <2>2. Editable(appointments'[a].life) => appointments'[a].job # k
    BY DEF Enters, Leaves
  <2>3. QED
    BY <2>1, <2>2 DEF OpenOf
<1>3. OpenOf(k)' = OpenOf(k)
  BY <1>2 DEF OpenOf, Same
<1>4. \A b \in OpenOf(k) : appointments'[b].life = appointments[b].life
  BY <1>2 DEF OpenOf, Same
<1>5. QED
  BY <1>1, <1>3, <1>4, AgreesQuietly

\* The unique index leaves nothing else open for a job that is entered.
LEMMA EnteredAgrees ==
  ASSUME NEW a \in Appointments, NEW j \in Jobs, Enters(a, j), JobsTyped
  PROVE  JobAgrees(j)'
<1>1. OpenOf(j)' = {a}
  <2>1. a \in OpenOf(j)'
    BY DEF Enters, OpenOf
  <2>2. ASSUME NEW b \in OpenOf(j)' PROVE b = a
    <3>1. b \in Appointments /\ appointments'[b].job = j /\ Editable(appointments'[b].life)
      BY DEF OpenOf
    <3>2. QED
      BY <3>1 DEF Enters, OneActivePerJob
  <2>3. QED
    BY <2>1, <2>2
<1>2. \A life : HasOpen(j, life)' <=> appointments'[a].life = life
  BY <1>1 DEF HasOpen
<1>3. CASE appointments'[a].life = "fixed"
  <2>1. jobs'[j].workflow = "scheduled" /\ ~jobs'[j].waiting
    BY <1>3 DEF Enters, SetWorkflow, JobsTyped
  <2>2. QED
    BY <1>1, <1>2, <1>3, <2>1 DEF JobAgrees
<1>4. CASE appointments'[a].life # "fixed"
  <2>1. jobs'[j].workflow = "planning"
    BY <1>4 DEF Enters, SetWorkflow, JobsTyped
  <2>2. QED
    BY <1>1, <1>2, <1>4, <2>1 DEF JobAgrees
<1>5. QED
  BY <1>3, <1>4

\* What leaves was all that was open, so the job is free or done.
LEMMA LeftAgrees ==
  ASSUME NEW a \in Appointments, NEW j \in Jobs, Leaves(a, j), JobAgrees(j), JobsTyped,
         \A b \in Appointments : b # a => Same(b)
  PROVE  JobAgrees(j)'
<1>1. a \in OpenOf(j)
  BY DEF Leaves, OpenOf
<1>2. OpenOf(j)' = {}
  <2> SUFFICES ASSUME NEW b \in OpenOf(j)' PROVE FALSE
    OBVIOUS
  <2>1. b \in Appointments /\ appointments'[b].job = j /\ Editable(appointments'[b].life)
    BY DEF OpenOf
  <2>2. b # a
    BY <2>1 DEF Leaves
  <2>3. b \in OpenOf(j)
    BY <2>1, <2>2 DEF OpenOf, Same
  <2>4. QED
    BY <1>1, <2>2, <2>3 DEF JobAgrees
<1>3. \A life : ~HasOpen(j, life)'
  BY <1>2 DEF HasOpen
<1>4. CASE SetWorkflow(j, "waitlist", TRUE)
  <2>1. jobs'[j].workflow = "waitlist"
    BY <1>4 DEF SetWorkflow, JobsTyped
  <2>2. QED
    BY <1>2, <1>3, <2>1 DEF JobAgrees
<1>5. ASSUME appointments[a].life = "fixed",
             NEW workflow \in {"cancelled", "completed"},
             SetWorkflow(j, workflow, jobs[j].waiting)
      PROVE  JobAgrees(j)'
  <2>1. HasOpen(j, "fixed")
    BY <1>1, <1>5 DEF HasOpen
  <2>2. ~jobs[j].waiting
    BY <2>1 DEF JobAgrees
  <2>3. jobs'[j].workflow = workflow /\ ~jobs'[j].waiting
    BY <1>5, <2>2 DEF SetWorkflow, JobsTyped
  <2>4. QED
    BY <1>2, <1>3, <2>3 DEF JobAgrees
<1>6. QED
  BY <1>4, <1>5 DEF Leaves

\* Archiving a job that has at most a draft, or taking one off the waiting list.
LEMMA ArchivedAgrees ==
  ASSUME NEW j \in Jobs, ArchiveJob(j) \/ RemoveWaitlist(j), NEW k \in Jobs, JobAgrees(k),
         JobsTyped
  PROVE  JobAgrees(k)'
<1>1. UNCHANGED appointments
  BY DEF ArchiveJob, RemoveWaitlist, bookings
<1>2. OpenOf(k)' = OpenOf(k) /\ \A life : HasOpen(k, life)' = HasOpen(k, life)
  BY <1>1 DEF OpenOf, HasOpen
<1>3. CASE k # j
  <2>1. SameJob(k)
    BY <1>3 DEF ArchiveJob, RemoveWaitlist, SameJob, JobsTyped
  <2>2. QED
    BY <1>1, <1>2, <2>1, AgreesQuietly
<1>4. CASE k = j /\ ArchiveJob(j)
  <2>1. ~HasOpen(j, "fixed") /\ ~HasOpen(j, "proposal")
    BY <1>4 DEF ArchiveJob, HasActiveAppointment, Reserving, HasOpen, OpenOf
  <2>2. jobs'[j].workflow = "cancelled" /\ jobs'[j].archived /\ ~jobs'[j].waiting
    BY <1>4 DEF ArchiveJob, JobsTyped
  <2>3. QED
    BY <1>2, <1>4, <2>1, <2>2 DEF JobAgrees
<1>5. CASE k = j /\ RemoveWaitlist(j)
  <2>1. /\ jobs'[j].workflow = jobs[j].workflow /\ jobs'[j].archived = jobs[j].archived
        /\ ~jobs'[j].waiting
    BY <1>5 DEF RemoveWaitlist, JobsTyped
  <2>2. QED
    BY <1>2, <1>5, <2>1 DEF JobAgrees
<1>6. QED
  BY <1>3, <1>4, <1>5

\* Every step keeps each job in agreement with its appointments.
LEMMA AgreesKept ==
  ASSUME JobsTyped, JobStep, \A j \in Jobs : JobAgrees(j), NEW k \in Jobs
  PROVE  JobAgrees(k)'
<1>1. ASSUME \A a \in Appointments : Same(a), SameJob(k) PROVE JobAgrees(k)'
  <2>1. OpenOf(k)' = OpenOf(k) /\ \A a \in OpenOf(k) : appointments'[a].life = appointments[a].life
    BY <1>1 DEF OpenOf, Same
  <2>2. QED
    BY <1>1, <2>1, AgreesQuietly
<1>2. ASSUME NEW a \in Appointments, NEW j \in Jobs, \A b \in Appointments : b # a => Same(b),
             Enters(a, j) \/ Leaves(a, j)
      PROVE  JobAgrees(k)'
  BY <1>2, OtherJobs, EnteredAgrees, LeftAgrees
<1>3. QED
  BY <1>1, <1>2, ArchivedAgrees DEF JobStep

\* The invariant of the jobs.
JobsSound == TypeOK /\ \A j \in Jobs : JobAgrees(j)

\* At first every job waits and none has an appointment.
LEMMA InitJobs == Init => JobsSound
<1> SUFFICES ASSUME Init, NEW j \in Jobs PROVE JobAgrees(j)
  BY InitTyped DEF JobsSound
<1>1. OpenOf(j) = {}
  BY DEF Init, NoAppointment, OpenOf, Editable
<1>2. jobs[j].workflow = "waitlist"
  BY DEF Init
<1>3. QED
  BY <1>1, <1>2 DEF JobAgrees, HasOpen

\* Every step keeps it.
LEMMA NextJobs == JobsSound /\ [Next]_vars => JobsSound'
<1> SUFFICES ASSUME JobsSound, [Next]_vars PROVE JobsSound'
  OBVIOUS
<1>1. TypeOK /\ TypeOK' /\ JobsTyped
  BY NextTyped, TypeParts DEF JobsSound
<1>2. JobStep /\ \A j \in Jobs : JobAgrees(j)
  BY <1>1, StepJobs DEF JobsSound
<1>3. \A k \in Jobs : JobAgrees(k)'
  BY <1>1, <1>2, AgreesKept
<1>4. QED
  BY <1>1, <1>3 DEF JobsSound

\* Whatever is proposed, fixed, cancelled, reopened, completed or archived, and
\* in whatever order, a job is scheduled exactly while one appointment is fixed
\* for it, has one open appointment at most, and waits only while it may.
THEOREM WorkflowAlwaysAgrees == Spec => []WorkflowAgrees
<1>1. Init => JobsSound
  BY InitJobs
<1>2. JobsSound /\ [Next]_vars => JobsSound'
  BY NextJobs
<1>3. JobsSound => WorkflowAgrees
  BY DEF JobsSound, JobAgrees, WorkflowAgrees
<1>4. QED
  BY <1>1, <1>2, <1>3, PTL DEF Spec

-----------------------------------------------------------------------------
(* Reservations and what they were checked against *)

\* A step that changes what is reserved finds the crew available, or swaps.
LEMMA VettedOrSwapped ==
  ASSUME NEW a \in Appointments, appointments[a] \in Appointment, View(a), ~Swapping,
         Booking(a)' # Booking(a), ReservingNow(a)'
  PROVE  CrewAvailable(TeamOf(a), appointments[a], appointments[a].override)'
<1>1. ASSUME appointments'[a].life = appointments[a].life,
             appointments'[a].start = appointments[a].start,
             appointments'[a].dur = appointments[a].dur,
             appointments'[a].before = appointments[a].before,
             appointments'[a].after = appointments[a].after, TeamKept(a)
      PROVE  FALSE
  BY <1>1 DEF Booking, From, To, TeamKept
<1>2. ASSUME Vetted(a) PROVE CrewAvailable(TeamOf(a), appointments[a], appointments[a].override)'
  BY <1>2 DEF Vetted, EnsureReady, CrewAvailable, Available, staff
<1>3. ASSUME NEW conf, appointments'[a] = [Bumped(appointments[a]) EXCEPT !.conf = conf],
             TeamKept(a)
      PROVE  FALSE
  BY <1>1, <1>3 DEF Bumped, Appointment
<1>4. CASE Kept(a) \/ Expired(a) \/ Reissued(a)
  BY <1>1, <1>4 DEF Kept, Expired, RowKept, Reissued, LifeKept, PlanKept
<1>5. CASE Outdated(a) \/ Answered(a)
  BY <1>3, <1>5 DEF Outdated, Answered
<1>6. CASE Created(a) \/ Planned(a)
  BY <1>2, <1>6 DEF Created, Planned, ReservingNow, Reserving
<1>7. CASE Reassigned(a) \/ Shifted(a) \/ Fixed(a) \/ Restored(a)
  BY <1>2, <1>7 DEF Reassigned, Shifted, Fixed, Restored
<1>8. CASE Swapped(a) \/ Ended(a)
  BY <1>8 DEF Swapped, Ended, ReservingNow, Reserving
<1>9. QED
  BY <1>4, <1>5, <1>6, <1>7, <1>8, View(a) DEF View

\* The check on the snapshot is repeated in every transaction that creates or
\* changes a reservation, other than a swap: the crew is available at that time
\* according to the tables of the transaction, or an override was given.
THEOREM ReservationsAlwaysVetted == Spec => ReservationIsVetted
<1> DEFINE Repeated ==
      ~Swapping =>
        \A a \in Appointments :
          (Booking(a)' # Booking(a) /\ ReservingNow(a)') =>
            CrewAvailable(TeamOf(a), appointments[a], appointments[a].override)'
<1>1. TypeOK /\ [Next]_vars => [Repeated]_vars
  <2> SUFFICES ASSUME TypeOK, Next, ~Swapping, NEW a \in Appointments,
                      Booking(a)' # Booking(a), ReservingNow(a)'
               PROVE  CrewAvailable(TeamOf(a), appointments[a], appointments[a].override)'
    OBVIOUS
  <2>1. View(a) /\ appointments[a] \in Appointment
    BY StepView DEF TypeOK
  <2>2. QED
    BY <2>1, VettedOrSwapped
<1>2. QED
  BY <1>1, TypeCorrect, PTL DEF Spec, ReservationIsVetted

\* What an appointment reserves stays in service and of its type.
ServiceKept(a) ==
  ReservingNow(a) =>
    /\ \A d \in CrewOf(a) : drivers[d].active => drivers'[d].active
    /\ \A e \in EquipmentOf(a) :
         /\ resources[e.resource].active => resources'[e.resource].active
         /\ resources'[e.resource].type = resources[e.resource].type

\* Because edits of drivers and resources look for reservation rows.
LEMMA StaffStep ==
  ASSUME Sound, [Next]_vars, NEW a \in Appointments
  PROVE  ServiceKept(a)
<1>1. UNCHANGED staff => ServiceKept(a)
  BY DEF staff, ServiceKept
<1>2. ASSUME ManageStaff, ReservingNow(a) PROVE ServiceKept(a)
  <2>1. ASSUME NEW row \in driverRows, row.appointment = a
        PROVE  row.driver \in Drivers /\ DriverReserved(row.driver)
    <3>1. row.driver \in Drivers
      BY DEF Sound, TypeOK, DriverReservation
    <3>2. row = DriverRow(a, appointments[a], row.driver)
      BY <2>1 DEF Sound, RowsSound, DriversAgree
    <3>3. row.active
      BY <1>2, <3>2 DEF DriverRow, ReservingNow
    <3>4. QED
      BY <1>2, <2>1, <3>1, <3>3 DEF DriverReserved, Holds, ReservingNow
  <2>2. ASSUME NEW row \in resourceRows, row.appointment = a
        PROVE  row.resource \in Resources /\ ResourceReserved(row.resource)
    <3>1. row.resource \in Resources
      BY DEF Sound, TypeOK, ResourceReservation
    <3>2. row = ResourceRow(a, appointments[a], row.resource, row.purpose, row.exclusive)
      BY <2>2 DEF Sound, RowsSound, ResourcesAgree
    <3>3. row.active
      BY <1>2, <3>2 DEF ResourceRow, ReservingNow
    <3>4. QED
      BY <1>2, <2>2, <3>1, <3>3 DEF ResourceReserved, Holds, ReservingNow
  <2>3. \A d \in CrewOf(a) : d \in Drivers /\ DriverReserved(d)
    BY <2>1 DEF CrewOf, RowsOf
  <2>4. \A e \in EquipmentOf(a) : e.resource \in Resources /\ ResourceReserved(e.resource)
    BY <2>2 DEF EquipmentOf, RowsOf
  <2>5. DriversTyped /\ ResourcesTyped
    BY TypeParts DEF Sound
  <2>6. ASSUME NEW d \in Drivers,
               \/ DeactivateDriver(d)
               \/ \E canComplete \in BOOLEAN : UpdateDriver(d, canComplete)
               \/ \E absent \in Absences : ChangeAvailability(d, absent)
        PROVE  ServiceKept(a)
    BY <2>3, <2>5, <2>6
    DEF DeactivateDriver, UpdateDriver, ChangeAvailability, DriversTyped, ServiceKept
  <2>7. ASSUME NEW r \in Resources,
               DeactivateResource(r) \/ \E edit \in Edits : UpdateResource(r, edit)
        PROVE  ServiceKept(a)
    <3>1. ASSUME NEW edit \in Edits, UpdateResource(r, edit), NEW e \in EquipmentOf(a)
          PROVE  /\ resources'[e.resource].active = resources[e.resource].active
                 /\ resources'[e.resource].type = resources[e.resource].type
      BY <2>4, <2>5, <3>1 DEF UpdateResource, ResourcesTyped
    <3>2. ASSUME DeactivateResource(r), NEW e \in EquipmentOf(a)
          PROVE  resources'[e.resource] = resources[e.resource]
      BY <2>4, <2>5, <3>2 DEF DeactivateResource, ResourcesTyped
    <3>3. UNCHANGED drivers
      BY <2>7 DEF DeactivateResource, UpdateResource
    <3>4. QED
      BY <2>7, <3>1, <3>2, <3>3 DEF ServiceKept
  <2>8. QED
    BY <1>2, <2>6, <2>7 DEF ManageStaff
<1>3. ASSUME NEW c \in Clients, Submit(c) \/ Commit(c) \/ Fail(c) PROVE UNCHANGED staff
  BY <1>3, SubmitIsQuiet
  DEF Fail, Commit, CommitPlan, CommitAssign, CommitPropose, CommitReschedule, CommitFix,
      CommitCancel, CommitReopen, CommitComplete, CommitSwap
<1>4. ManageJobs \/ Confirm => UNCHANGED staff
  BY DEF ManageJobs, CreateDraft, UpdateJob, ArchiveJob, RemoveWaitlist, Confirm, Respond,
         ResetResponse, Reissue, Expire
<1>5. UNCHANGED vars => UNCHANGED staff
  BY DEF vars
<1>6. ~ReservingNow(a) => ServiceKept(a)
  BY DEF ServiceKept
<1>7. QED
  BY <1>1, <1>2, <1>3, <1>4, <1>5, <1>6 DEF Next

\* ReservedTeamInService, for one appointment.
InService(a) == ReservingNow(a) => CrewOf(a) # {} /\ AllActive(TeamOf(a))

\* No step leaves a reservation with a driver or resource out of service.
LEMMA InServiceKept ==
  ASSUME NEW a \in Appointments, appointments[a] \in Appointment,
         InService(a), ServiceKept(a), View(a)
  PROVE  InService(a)'
<1>1. ASSUME TeamKept(a), ReservingNow(a)' => ReservingNow(a) PROVE InService(a)'
  BY <1>1 DEF InService, ServiceKept, TeamKept, TeamOf, AllActive
<1>2. ASSUME Vetted(a) PROVE InService(a)'
  BY <1>2 DEF Vetted, EnsureReady, AssignmentsReady, ValidTeam, TeamOf, AllActive, InService, staff
<1>3. CASE Kept(a) \/ Expired(a)
  BY <1>1, <1>3 DEF Kept, Expired, RowKept, ReservingNow
<1>4. CASE Swapped(a) \/ Reissued(a)
  BY <1>1, <1>4 DEF Swapped, Reissued, LifeKept, ReservingNow
<1>5. CASE Outdated(a) \/ Answered(a)
  BY <1>1, <1>5 DEF Outdated, Answered, ReservingNow, Bumped, Appointment
<1>6. CASE Created(a) \/ Planned(a)
  BY <1>2, <1>6 DEF Created, Planned, InService, ReservingNow, Reserving
<1>7. CASE Reassigned(a) \/ Shifted(a) \/ Fixed(a) \/ Restored(a)
  BY <1>2, <1>7 DEF Reassigned, Shifted, Fixed, Restored
<1>8. CASE Ended(a)
  BY <1>8 DEF Ended, InService, ReservingNow, Reserving
<1>9. QED
  BY <1>3, <1>4, <1>5, <1>6, <1>7, <1>8, View(a) DEF View

\* Drivers and resources that an appointment reserves stay in service: a
\* transaction finds them active under its locks, and an edit that would take
\* them out of service finds the rows that hold them.
THEOREM ReservedTeamsStayInService == Spec => []ReservedTeamInService
<1> DEFINE Inv == Sound /\ \A a \in Appointments : InService(a)
<1>1. Init => Inv
  <2> SUFFICES ASSUME Init, NEW a \in Appointments PROVE InService(a)
    BY InitTyped, InitSound DEF Sound
  <2>1. ~ReservingNow(a)
    BY DEF Init, NoAppointment, ReservingNow, Reserving
  <2>2. QED
    BY <2>1 DEF InService
<1>2. Inv /\ [Next]_vars => Inv'
  <2> SUFFICES ASSUME Inv, [Next]_vars PROVE Inv'
    OBVIOUS
  <2>1. Sound'
    BY NextTyped, NextSound DEF Sound
  <2>2. ASSUME NEW a \in Appointments PROVE InService(a)'
    <3>1. InService(a) /\ ServiceKept(a) /\ View(a) /\ appointments[a] \in Appointment
      BY StaffStep, StepView DEF Sound, TypeOK
    <3>2. QED
      BY <3>1, InServiceKept
  <2>3. QED
    BY <2>1, <2>2
<1>3. Inv => ReservedTeamInService
  BY DEF InService, ReservedTeamInService
<1>4. QED
  BY <1>1, <1>2, <1>3, PTL DEF Spec

\* An edit of a job that is scheduled was checked against its fixed appointment,
\* and withdraws the request when the customer was told otherwise.
Rechecked(a) ==
  LET data == jobs'[appointments[a].job].data
  IN /\ UNCHANGED staff /\ TeamKept(a)
     /\ AssignmentsReady(TeamOf(a), data, FALSE) /\ appointments[a].dur >= data.minutes
     /\ Facing(data) = Facing(DataOf(appointments[a])) \/ Outdated(a)

\* Nothing but such an edit changes the data of a job.
LEMMA DataStep ==
  ASSUME TypeOK, [Next]_vars, NEW a \in Appointments, appointments[a].life = "fixed",
         JobAgrees(appointments[a].job)
  PROVE  Rechecked(a) \/ jobs'[appointments[a].job].data = jobs[appointments[a].job].data
<1> DEFINE job == appointments[a].job
           Unchanged == \A j \in Jobs : jobs'[j].data = jobs[j].data
<1>0. /\ job \in Jobs /\ JobsTyped
      /\ \A b \in Appointments : appointments[b] \in Appointment
  BY TypeParts, JobType DEF TypeOK
<1>1. \A j, workflow, waiting : SetWorkflow(j, workflow, waiting) => Unchanged
  BY <1>0, WorkflowKeepsData
<1>2. ASSUME NEW c \in Clients, Submit(c) \/ Fail(c) PROVE Unchanged
  BY <1>2, SubmitIsQuiet DEF Fail
<1>3. ASSUME NEW c \in Clients, Commit(c) PROVE Unchanged
  <2>1. (\E b \in Appointments : CommitPlan(c, b)) => Unchanged
    BY <1>1 DEF CommitPlan
  <2>2. CommitAssign(c) \/ CommitSwap(c)
          \/ (\E reachable \in BOOLEAN : CommitReschedule(c, reachable)) => Unchanged
    BY DEF CommitAssign, CommitSwap, CommitReschedule
  <2>3. CommitPropose(c) \/ CommitCancel(c) \/ CommitReopen(c) \/ CommitComplete(c)
          \/ (\E reachable \in BOOLEAN : CommitFix(c, reachable)) => Unchanged
    BY <1>1 DEF CommitPropose, CommitCancel, CommitReopen, CommitComplete, CommitFix
  <2>4. QED
    BY <1>3, <2>1, <2>2, <2>3 DEF Commit
<1>4. ManageStaff \/ Confirm => Unchanged
  BY DEF ManageStaff, DeactivateDriver, UpdateDriver, ChangeAvailability, UpdateResource,
         DeactivateResource, Confirm, Respond, ResetResponse, Reissue, Expire
<1>5. ASSUME NEW b \in Appointments, NEW j \in Jobs, NEW start, NEW dur, NEW buffer,
             CreateDraft(b, j, start, dur, buffer)
      PROVE  Unchanged
  BY <1>1, <1>5 DEF CreateDraft
<1>6. ASSUME NEW j \in Jobs, ArchiveJob(j) \/ RemoveWaitlist(j) PROVE Unchanged
  BY <1>0, <1>6 DEF ArchiveJob, RemoveWaitlist, JobsTyped
<1>7. ASSUME NEW j \in Jobs, NEW data, UpdateJob(j, data), j # job PROVE jobs'[job].data = jobs[job].data
  BY <1>0, <1>7 DEF UpdateJob, JobsTyped
<1>8. ASSUME NEW data, UpdateJob(job, data) PROVE Rechecked(a)
  <2>1. a \in OpenOf(job) /\ HasOpen(job, "fixed")
    BY <1>0 DEF OpenOf, HasOpen, Editable
  <2>2. jobs[job].workflow = "scheduled"
    BY <2>1 DEF JobAgrees
  <2>3. PICK b \in Appointments : /\ appointments[b].job = job /\ appointments[b].life = "fixed"
                                  /\ AssignmentsReady(TeamOf(b), data, FALSE)
                                  /\ appointments[b].dur >= data.minutes
    BY <1>8, <2>2 DEF UpdateJob, StillExecutable
  <2>4. b = a
    BY <2>1, <2>3 DEF JobAgrees, OpenOf, Editable
  <2>5. jobs'[job].data = data
    BY <1>0, <1>8 DEF UpdateJob, JobsTyped
  <2>6. UNCHANGED staff /\ TeamKept(a)
    BY <1>8, RowsKeepTeams DEF UpdateJob
  <2>7. Facing(data) = Facing(DataOf(appointments[a])) \/ Outdated(a)
    <3>1. ASSUME Facing(jobs[job].data) # Facing(data)
          PROVE  /\ appointments'[a] = [Bumped(appointments[a]) EXCEPT !.conf = "not_requested"]
                 /\ requests'[a] = Revoked(requests[a])
      BY <1>8, <2>2, <3>1 DEF UpdateJob
    <3>2. ASSUME Facing(jobs[job].data) # Facing(data) PROVE Outdated(a)
      <4>1. /\ appointments'[a] = [Bumped(appointments[a]) EXCEPT !.conf = "not_requested"]
            /\ requests'[a] = Revoked(requests[a])
        BY <3>1, <3>2
      <4>2. Later(a)
        BY <1>0, <4>1 DEF Later, Bumped, Appointment
      <4>3. QED
        BY <2>6, <4>1, <4>2 DEF Outdated
    <3>3. QED
      BY <3>2 DEF DataOf
  <2>8. QED
    BY <2>3, <2>4, <2>5, <2>6, <2>7 DEF Rechecked
<1>9. UNCHANGED vars => Unchanged
  BY DEF vars
<1>10. ASSUME ManageJobs PROVE Rechecked(a) \/ jobs'[job].data = jobs[job].data
  BY <1>0, <1>5, <1>6, <1>7, <1>8, <1>10 DEF ManageJobs
<1>11. QED
  BY <1>0, <1>2, <1>3, <1>4, <1>9, <1>10 DEF Next

\* FixedIsExecutable and AnswersConcernPresentPlan, for one appointment.
Executable(a) ==
  appointments[a].life = "fixed" =>
    /\ appointments[a].dur >= DataOf(appointments[a]).minutes
    /\ TransportPlanned(EquipmentOf(a), DataOf(appointments[a]))
AskedAboutThePlan(a) ==
  (appointments[a].life = "fixed" /\ HasActiveRequest(a)) =>
    /\ LatestOf(a).start = appointments[a].start
    /\ LatestOf(a).dur = appointments[a].dur
    /\ LatestOf(a).facing = Facing(DataOf(appointments[a]))

\* A fixed appointment stays executable.
LEMMA ExecutableKept ==
  ASSUME NEW a \in Appointments, appointments[a] \in Appointment, Executable(a), ServiceKept(a),
         View(a),
         appointments[a].life = "fixed" =>
           Rechecked(a) \/ jobs'[appointments[a].job].data = jobs[appointments[a].job].data
  PROVE  Executable(a)'
<1>1. ASSUME Vetted(a), appointments'[a].job \in Jobs PROVE Executable(a)'
  BY <1>1 DEF Vetted, EnsureReady, AssignmentsReady, ValidTeam, TransportPlanned, TeamOf, DataOf,
              Executable, staff
<1>2. ASSUME appointments[a].life = "fixed", TeamKept(a),
             appointments'[a].job = appointments[a].job, appointments'[a].dur = appointments[a].dur
      PROVE  Executable(a)'
  <2>1. CASE jobs'[appointments[a].job].data = jobs[appointments[a].job].data
    <3>1. \A e \in EquipmentOf(a) : resources'[e.resource].type = resources[e.resource].type
      BY <1>2 DEF ServiceKept, ReservingNow, Reserving
    <3>2. TransportPlanned(EquipmentOf(a), DataOf(appointments[a]))'
      BY <1>2, <2>1, <3>1 DEF Executable, TransportPlanned, TeamKept, DataOf
    <3>3. QED
      BY <1>2, <2>1, <3>2 DEF Executable, DataOf
  <2>2. CASE Rechecked(a)
    BY <1>2, <2>2
    DEF Rechecked, AssignmentsReady, ValidTeam, TransportPlanned, TeamOf, TeamKept, DataOf,
        Executable, staff
  <2>3. QED
    BY <1>2, <2>1, <2>2
<1>3. CASE Kept(a) \/ Expired(a)
  <2>1. CASE appointments[a].life = "fixed"
    BY <1>2, <1>3, <2>1 DEF Kept, Expired, RowKept
  <2>2. CASE appointments[a].life # "fixed"
    BY <1>3, <2>2 DEF Kept, Expired, RowKept, Executable
  <2>3. QED
    BY <2>1, <2>2
<1>4. CASE Outdated(a) \/ Answered(a)
  BY <1>2, <1>4 DEF Outdated, Answered, Bumped, Appointment
<1>5. CASE Reissued(a)
  BY <1>2, <1>5 DEF Reissued, PlanKept
<1>6. CASE Reassigned(a) \/ Shifted(a) \/ Fixed(a)
  BY <1>1, <1>6 DEF Reassigned, Shifted, Fixed, LifeKept, Appointment
<1>7. CASE Created(a) \/ Planned(a) \/ Swapped(a) \/ Ended(a) \/ Restored(a)
  BY <1>7 DEF Created, Planned, Swapped, Swappable, LifeKept, Ended, Restored, Executable
<1>8. QED
  BY <1>3, <1>4, <1>5, <1>6, <1>7, View(a) DEF View

\* A request that can be answered stays one about the present plan.
LEMMA AskedKept ==
  ASSUME JobsTyped, NEW a \in Appointments, appointments[a] \in Appointment,
         requests[a] \in Seq(Request), ConfirmationAgrees(a), AskedAboutThePlan(a), View(a),
         appointments[a].life = "fixed" =>
           Rechecked(a) \/ jobs'[appointments[a].job].data = jobs[appointments[a].job].data
  PROVE  AskedAboutThePlan(a)'
<1>0. /\ Len(requests[a]) \in Nat /\ DOMAIN requests[a] = 1 .. Len(requests[a])
      /\ \A i \in DOMAIN requests[a] : requests[a][i] \in Request
      /\ appointments[a].job \in Jobs
  BY LenProperties, ElementOfSeq, JobType
<1>1. CASE Kept(a)
  <2>1. CASE appointments[a].life = "fixed" /\ ~Outdated(a)
    <3>1. Facing(jobs'[appointments[a].job].data) = Facing(jobs[appointments[a].job].data)
      BY <2>1 DEF Rechecked, DataOf
    <3>2. HasActiveRequest(a)' => HasActiveRequest(a) /\ LatestOf(a)' = LatestOf(a)
      BY <1>1 DEF Kept, HasActiveRequest, LatestOf, Active
    <3>3. QED
      BY <1>1, <3>1, <3>2 DEF AskedAboutThePlan, Kept, RowKept, DataOf
  <2>2. CASE appointments[a].life # "fixed"
    BY <1>1, <2>2 DEF AskedAboutThePlan, Kept, RowKept
  <2>3. CASE Outdated(a)
    <3>1. appointments'[a].version = appointments[a].version
      BY <1>1 DEF Kept, RowKept
    <3>2. QED
      BY <2>3, <3>1 DEF Outdated, Later, Appointment
  <2>4. QED
    BY <2>1, <2>2, <2>3
<1>2. CASE Reassigned(a)
  <2>1. HasActiveRequest(a)' => HasActiveRequest(a) /\ LatestOf(a)' = LatestOf(a)
    BY <1>2 DEF Reassigned, RequestsKept, HasActiveRequest, LatestOf, Active
  <2>2. /\ appointments'[a].job = appointments[a].job /\ appointments'[a].start = appointments[a].start
        /\ appointments'[a].dur = appointments[a].dur /\ appointments[a].life = "fixed"
        /\ jobs'[appointments[a].job].data = jobs[appointments[a].job].data
    BY <1>0, <1>2 DEF Reassigned, PlanKept, Vetted
  <2>3. QED
    BY <2>1, <2>2 DEF AskedAboutThePlan, DataOf
<1>3. CASE Shifted(a) \/ Fixed(a) \/ Reissued(a)
  <2>1. /\ Asked(a) /\ appointments'[a].job = appointments[a].job
        /\ jobs'[appointments[a].job].data = jobs[appointments[a].job].data
    BY <1>0, <1>3 DEF Shifted, Fixed, Reissued, LifeKept, Vetted
  <2>2. ASSUME HasActiveRequest(a)' PROVE LatestOf(a)' = NewRequest(appointments'[a])
    <3>1. requests'[a] # <<>> /\ Active(requests'[a][Len(requests'[a])])
      BY <2>2 DEF HasActiveRequest, LatestOf, Active
    <3>2. \A i \in DOMAIN requests[a] : ~Active(requests'[a][i])
      BY <2>1, AskedMeans
    <3>3. CASE requests'[a][Len(requests'[a])] = NewRequest(appointments'[a])
      BY <3>3 DEF LatestOf
    <3>4. CASE requests'[a] = Revoked(requests[a])
      <4>1. Len(requests'[a]) \in DOMAIN requests[a]
        BY <1>0, <3>1, <3>4, RevokedMeans, EmptySeq
      <4>2. QED
        BY <3>1, <3>2, <4>1
    <3>5. requests'[a][Len(requests'[a])] = NewRequest(appointments'[a])
            \/ requests'[a] = Revoked(requests[a])
      <4>1. Revoked(requests[a]) \in Seq(Request)
        BY RevokedMeans
      <4>2. \A request : LET list == Append(Revoked(requests[a]), request)
                         IN list[Len(list)] = request
        BY <4>1
      <4>3. QED
        BY <2>1, <4>2 DEF Asked
    <3>6. QED
      BY <3>3, <3>4, <3>5
  <2>3. /\ NewRequest(appointments'[a]).start = appointments'[a].start
        /\ NewRequest(appointments'[a]).dur = appointments'[a].dur
        /\ NewRequest(appointments'[a]).facing = Facing(jobs[appointments'[a].job].data)
    BY DEF NewRequest, DataOf
  <2>4. QED
    BY <2>1, <2>2, <2>3 DEF AskedAboutThePlan, DataOf
<1>4. CASE Outdated(a)
  <2>1. \A i \in DOMAIN requests[a] : ~Active(requests'[a][i])
    BY <1>4, RevokedMeans DEF Outdated
  <2>2. requests'[a] = <<>> \/ Len(requests'[a]) \in DOMAIN requests[a]
    BY <1>0, <1>4, RevokedMeans, EmptySeq DEF Outdated
  <2>3. ~HasActiveRequest(a)'
    BY <2>1, <2>2 DEF HasActiveRequest, LatestOf, Active
  <2>4. QED
    BY <2>3 DEF AskedAboutThePlan
<1>5. CASE Answered(a)
  <2>1. PICK i \in DOMAIN requests[a], response \in {"none"} \cup Responses :
          /\ Active(requests[a][i])
          /\ requests'[a] = [requests[a] EXCEPT ![i].response = response]
          /\ appointments'[a] = [Bumped(appointments[a]) EXCEPT
                                   !.conf = IF response = "none" THEN "pending" ELSE response]
    BY <1>5 DEF Answered
  <2>2. i = Len(requests[a])
    BY <1>0, <2>1 DEF ConfirmationAgrees, NewestOnly
  <2>3. HasActiveRequest(a) /\ appointments[a].life = "fixed"
    BY <1>5, <2>1, <2>2 DEF HasActiveRequest, LatestOf, Answered
  <2>4. /\ appointments'[a].job = appointments[a].job /\ appointments'[a].start = appointments[a].start
        /\ appointments'[a].dur = appointments[a].dur /\ UNCHANGED jobs
    BY <1>5, <2>1 DEF Answered, Bumped, Appointment
  <2>5. Len(requests'[a]) = Len(requests[a])
    BY <2>1
  <2>6. /\ LatestOf(a)'.start = LatestOf(a).start /\ LatestOf(a)'.dur = LatestOf(a).dur
        /\ LatestOf(a)'.facing = LatestOf(a).facing
    BY <1>0, <2>1, <2>2, <2>5 DEF LatestOf, Request
  <2>7. QED
    BY <2>3, <2>4, <2>6 DEF AskedAboutThePlan, DataOf
<1>6. CASE Expired(a)
  <2>1. PICK i \in DOMAIN requests[a] : requests'[a] = [requests[a] EXCEPT ![i].expired = TRUE]
    BY <1>6 DEF Expired
  <2>2. /\ Len(requests'[a]) = Len(requests[a]) /\ Len(requests[a]) \in DOMAIN requests[a]
        /\ requests[a] # <<>>
    BY <1>0, <2>1
  <2>3. /\ LatestOf(a)'.start = LatestOf(a).start /\ LatestOf(a)'.dur = LatestOf(a).dur
        /\ LatestOf(a)'.facing = LatestOf(a).facing /\ LatestOf(a)'.status = LatestOf(a).status
    BY <1>0, <2>1, <2>2 DEF LatestOf, Request
  <2>4. HasActiveRequest(a)' => HasActiveRequest(a)
    BY <2>2, <2>3 DEF HasActiveRequest, Active
  <2>5. QED
    BY <1>6, <2>3, <2>4 DEF Expired, RowKept, AskedAboutThePlan, DataOf
<1>7. CASE Created(a) \/ Planned(a) \/ Swapped(a) \/ Ended(a) \/ Restored(a)
  BY <1>7 DEF Created, Planned, Swapped, Swappable, LifeKept, Ended, Restored, AskedAboutThePlan
<1>8. QED
  BY <1>1, <1>2, <1>3, <1>4, <1>5, <1>6, <1>7, View(a) DEF View

\* The inductive invariant of fixed appointments.
FixedSound ==
  /\ Sound /\ JobsSound /\ AnswersSound
  /\ \A a \in Appointments : Executable(a) /\ AskedAboutThePlan(a)

\* At first nothing is fixed.
LEMMA InitFixed == Init => FixedSound
<1>1. ASSUME Init, NEW a \in Appointments PROVE Executable(a) /\ AskedAboutThePlan(a)
  BY <1>1 DEF Init, NoAppointment, Executable, AskedAboutThePlan
<1>2. QED
  BY <1>1, InitTyped, InitSound, InitJobs, InitAnswers DEF Sound, FixedSound

\* Every step keeps it.
LEMMA NextFixed == FixedSound /\ [Next]_vars => FixedSound'
<1> SUFFICES ASSUME FixedSound, [Next]_vars PROVE FixedSound'
  OBVIOUS
<1>1. Sound /\ JobsSound /\ AnswersSound /\ TypeOK /\ JobsTyped
  BY TypeParts DEF FixedSound, Sound
<1>2. Sound' /\ JobsSound' /\ AnswersSound'
  BY <1>1, NextTyped, NextSound, NextJobs, NextAnswers DEF Sound
<1>3. ASSUME NEW a \in Appointments PROVE Executable(a)' /\ AskedAboutThePlan(a)'
  <2>1. appointments[a] \in Appointment /\ requests[a] \in Seq(Request) /\ appointments[a].job \in Jobs
    BY <1>1, JobType DEF TypeOK
  <2>2. View(a) /\ ServiceKept(a) /\ ConfirmationAgrees(a) /\ JobAgrees(appointments[a].job)
    BY <1>1, <2>1, StepView, StaffStep DEF AnswersSound, JobsSound
  <2>3. appointments[a].life = "fixed" =>
          Rechecked(a) \/ jobs'[appointments[a].job].data = jobs[appointments[a].job].data
    BY <1>1, <2>2, DataStep
  <2>4. QED
    BY <1>1, <2>1, <2>2, <2>3, ExecutableKept, AskedKept DEF FixedSound
<1>4. QED
  BY <1>2, <1>3 DEF FixedSound

\* A fixed appointment can be carried out whatever was edited since: the edit of
\* its job was checked against it, and the edit of a resource found its rows.
THEOREM FixedAlwaysExecutable == Spec => []FixedIsExecutable
<1>1. Init => FixedSound
  BY InitFixed
<1>2. FixedSound /\ [Next]_vars => FixedSound'
  BY NextFixed
<1>3. FixedSound => FixedIsExecutable
  BY DEF FixedSound, Executable, FixedIsExecutable
<1>4. QED
  BY <1>1, <1>2, <1>3, PTL DEF Spec

\* A customer never answers for a date that is not the one agreed: a request that
\* can be answered was written for the present time and the present job.
THEOREM AnswersAlwaysConcernPlan == Spec => []AnswersConcernPresentPlan
<1>1. Init => FixedSound
  BY InitFixed
<1>2. FixedSound /\ [Next]_vars => FixedSound'
  BY NextFixed
<1>3. FixedSound => AnswersConcernPresentPlan
  BY DEF FixedSound, AskedAboutThePlan, AnswersConcernPresentPlan
<1>4. QED
  BY <1>1, <1>2, <1>3, PTL DEF Spec

-----------------------------------------------------------------------------
(* Cancelling *)

\* The conjuncts of the invariant: what was fixed is fixed or over, and a request
\* to cancel without reason is outdated or concerns what is not fixed.
FixedOrOver(a) ==
  appointments[a].fixedOnce => appointments[a].life \in {"fixed", "cancelled", "completed"}
WithReason(a) ==
  (appointments[a].life = "cancelled" /\ appointments[a].fixedOnce) => appointments[a].reasoned
NeedsNoReason(call) ==
  (call.op = "cancel" /\ ~call.reason) =>
    /\ call.version <= appointments[call.id].version
    /\ call.version = appointments[call.id].version =>
         appointments[call.id].life \in {"draft", "proposal"}

ReasonsSound ==
  /\ AnswersSound
  /\ \A a \in Appointments : FixedOrOver(a) /\ WithReason(a)
  /\ \A c \in Clients : NeedsNoReason(calls[c])

\* Where a request in flight comes from.
LEMMA CallStep ==
  ASSUME [Next]_vars, NEW c \in Clients, CallsTyped
  PROVE  \/ calls'[c] = calls[c] \/ calls'[c] = NoCall
         \/ /\ UNCHANGED appointments
            /\ \/ calls'[c].op # "cancel"
               \/ \E a \in Appointments, version \in 1 .. MaxVersion, reason \in Reasons :
                    /\ SubmitCancel(c, a, version, reason)
                    /\ calls'[c] = [op |-> "cancel", id |-> a, version |-> version,
                                    reason |-> reason]
<1> DEFINE Goal == \/ calls'[c] = calls[c] \/ calls'[c] = NoCall
                   \/ /\ UNCHANGED appointments
                      /\ \/ calls'[c].op # "cancel"
                         \/ \E a \in Appointments, version \in 1 .. MaxVersion, reason \in Reasons :
                              /\ SubmitCancel(c, a, version, reason)
                              /\ calls'[c] = [op |-> "cancel", id |-> a, version |-> version,
                                              reason |-> reason]
<1> SUFFICES Goal
  OBVIOUS
<1>1. ASSUME NEW d \in Clients, \E op : Take(d, op) PROVE Goal
  BY <1>1 DEF Take, CallsTyped
<1>2. ASSUME NEW d \in Clients, Commit(d) PROVE Goal
  <2>1. \E op : Take(d, op)
    BY <1>2 DEF Commit, CommitPlan, CommitAssign, CommitPropose, CommitReschedule, CommitFix,
                CommitCancel, CommitReopen, CommitComplete, CommitSwap
  <2>2. QED
    BY <1>1, <2>1
<1>3. ASSUME NEW d \in Clients, Fail(d) PROVE Goal
  BY <1>3 DEF Fail, CallsTyped
<1>4. UNCHANGED calls => Goal
  OBVIOUS
<1>5. ManageJobs \/ ManageStaff \/ Confirm => UNCHANGED calls
  BY DEF ManageJobs, CreateDraft, UpdateJob, ArchiveJob, RemoveWaitlist, ManageStaff,
         DeactivateDriver, UpdateDriver, ChangeAvailability, UpdateResource, DeactivateResource,
         Confirm, Respond, ResetResponse, Reissue, Expire
<1>6. UNCHANGED vars => UNCHANGED calls
  BY DEF vars
<1>7. ASSUME NEW d \in Clients, NEW call, Ask(d, call)
      PROVE  /\ UNCHANGED appointments
             /\ IF d = c THEN calls'[c] = call ELSE calls'[c] = calls[c]
  BY <1>7 DEF Ask, bookings, CallsTyped
<1>8. ASSUME NEW d \in Clients, NEW call, Ask(d, call), call.op # "cancel" PROVE Goal
  BY <1>7, <1>8
<1>9. ASSUME NEW d \in Clients, NEW a \in Appointments, NEW version \in 1 .. MaxVersion,
             NEW reason \in Reasons, SubmitCancel(d, a, version, reason)
      PROVE  Goal
  <2>1. Ask(d, [op |-> "cancel", id |-> a, version |-> version, reason |-> reason])
    BY <1>9 DEF SubmitCancel
  <2>2. QED
    BY <1>7, <1>9, <2>1
<1> HIDE DEF Goal
<1>10. ASSUME NEW d \in Clients, Submit(d) PROVE Goal
  <2>1. ASSUME NEW j, NEW start, NEW dur, NEW buffer, NEW team, NEW override,
               SubmitPlan(d, j, start, dur, buffer, team, override)
        PROVE  Goal
    BY <1>8, <2>1 DEF SubmitPlan
  <2>2. ASSUME NEW a, NEW start, NEW dur, NEW override, NEW silent,
               SubmitReschedule(d, a, start, dur, override, silent)
        PROVE  Goal
    BY <1>8, <2>2 DEF SubmitReschedule
  <2>3. ASSUME NEW a, NEW at, NEW by, NEW override, SubmitComplete(d, a, at, by, override)
        PROVE  Goal
    BY <1>8, <2>3 DEF SubmitComplete
  <2>4. ASSUME NEW a, NEW x, NEW y,
               \/ SubmitAssign(d, a, x, y) \/ SubmitPropose(d, a, x) \/ SubmitFix(d, a, x, y)
               \/ SubmitReopen(d, a, x) \/ SubmitSwap(d, a, x)
        PROVE  Goal
    BY <1>8, <2>4 DEF SubmitAssign, SubmitPropose, SubmitFix, SubmitReopen, SubmitSwap
  <2>5. QED
    BY <1>9, <1>10, <2>1, <2>2, <2>3, <2>4 DEF Submit
<1>11. QED
  BY <1>2, <1>3, <1>4, <1>5, <1>6, <1>10 DEF Next

\* A request without reason stays permitted while the call itself stays: what
\* changes of its appointment, changes with a later version.
LEMMA CallKept ==
  ASSUME ReasonsSound, TypeOK', \A a \in Appointments : View(a), NEW c \in Clients,
         calls'[c] = calls[c]
  PROVE  NeedsNoReason(calls[c])'
<1>0. TypeOK /\ CallsTyped /\ NeedsNoReason(calls[c])
  BY TypeParts DEF ReasonsSound, AnswersSound
<1> SUFFICES ASSUME calls[c].op = "cancel", ~calls[c].reason
             PROVE  NeedsNoReason(calls[c])'
  BY DEF NeedsNoReason
<1>1. PICK a \in Appointments : a = calls[c].id
  BY <1>0, CallFields
<1>2. calls[c].version \in Nat
  BY <1>0 DEF CallsTyped, Call, NoCall
<1>3. Later(a) \/ appointments'[a] = appointments[a]
  <2>1. /\ Fresh(a) /\ View(a)
        /\ appointments[a] \in Appointment /\ requests[a] \in Seq(Request)
    BY <1>0 DEF ReasonsSound, AnswersSound, TypeOK
  <2>2. QED
    BY <2>1, VisibleKept DEF Visible
<1>4. appointments[a].version \in Nat /\ appointments'[a].version \in Nat
  BY <1>0 DEF TypeOK, Appointment
<1>5. QED
  BY <1>0, <1>1, <1>2, <1>3, <1>4 DEF NeedsNoReason, Later

\* A client that names no version it has not seen asks for no forbidden cancelling.
LEMMA CallsKept ==
  ASSUME Foresight = 0, ReasonsSound, [Next]_vars, NEW c \in Clients
  PROVE  NeedsNoReason(calls[c])'
<1>0. TypeOK /\ CallsTyped /\ NeedsNoReason(calls[c])
  BY TypeParts DEF ReasonsSound, AnswersSound
<1>1. CASE calls'[c] = calls[c]
  BY <1>0, <1>1, NextTyped, StepView, CallKept
<1>2. CASE calls'[c] = NoCall \/ calls'[c].op # "cancel"
  BY <1>2 DEF NeedsNoReason, NoCall
<1>3. ASSUME UNCHANGED appointments, NEW a \in Appointments, NEW version \in 1 .. MaxVersion,
             NEW reason \in Reasons, SubmitCancel(c, a, version, reason),
             calls'[c] = [op |-> "cancel", id |-> a, version |-> version, reason |-> reason]
      PROVE  NeedsNoReason(calls[c])'
  <2>1. appointments[a].version \in Nat /\ version \in Nat
    BY <1>0, BoundAssumption DEF TypeOK, Appointment
  <2>2. /\ appointments[a].life = "fixed" => reason
        /\ Editable(appointments[a].life)
        /\ version \in appointments[a].version .. appointments[a].version + Foresight
    BY <1>3 DEF SubmitCancel
  <2>3. version = appointments[a].version
    BY <2>1, <2>2
  <2>4. QED
    BY <1>3, <2>1, <2>2, <2>3 DEF NeedsNoReason, Editable
<1>4. QED
  BY <1>0, <1>1, <1>2, <1>3, CallStep

\* Cancelling records the reason it came with.
LEMMA ReasonKept ==
  ASSUME ReasonsSound, NEW a \in Appointments, View(a)
  PROVE  FixedOrOver(a)' /\ WithReason(a)'
<1>0. FixedOrOver(a) /\ WithReason(a) /\ appointments[a] \in Appointment
  BY DEF ReasonsSound, AnswersSound, TypeOK
<1>1. CASE Kept(a) \/ Expired(a)
  BY <1>0, <1>1 DEF Kept, Expired, RowKept, FixedOrOver, WithReason
<1>2. CASE Outdated(a) \/ Answered(a)
  <2>1. appointments'[a].life = "fixed"
    BY <1>0, <1>2 DEF Outdated, Answered, Bumped, Appointment
  <2>2. QED
    BY <2>1 DEF FixedOrOver, WithReason
<1>3. CASE Created(a) \/ Restored(a)
  BY <1>3 DEF Created, Restored, FixedOrOver, WithReason
<1>4. CASE Planned(a) \/ Swapped(a)
  BY <1>0, <1>4 DEF Planned, Swapped, Swappable, LifeKept, FixedOrOver, WithReason
<1>5. CASE Reassigned(a) \/ Shifted(a) \/ Fixed(a) \/ Reissued(a)
  BY <1>5 DEF Reassigned, Shifted, Fixed, Reissued, LifeKept, FixedOrOver, WithReason
<1>6. CASE Ended(a)
  <2>1. CASE appointments'[a].life = "completed"
    BY <2>1 DEF FixedOrOver, WithReason
  <2>2. ASSUME NEW c \in Clients, CommitCancel(c), calls[c].id = a
        PROVE  WithReason(a)'
    <3>1. /\ calls[c].op = "cancel" /\ calls[c].version = appointments[a].version
          /\ appointments' = [appointments EXCEPT ![a] =
               [Bumped(appointments[a]) EXCEPT !.life = "cancelled", !.reasoned = calls[c].reason]]
      BY <2>2 DEF CommitCancel, Take, AtVersion, Save, Write
    <3>2. /\ appointments'[a].reasoned = calls[c].reason
          /\ appointments'[a].fixedOnce = appointments[a].fixedOnce
      BY <1>0, <3>1 DEF ReasonsSound, AnswersSound, TypeOK, Bumped, Appointment
    <3>3. calls[c].reason \/ appointments[a].life \in {"draft", "proposal"}
      BY <2>2, <3>1 DEF ReasonsSound, NeedsNoReason
    <3>4. QED
      BY <1>0, <3>2, <3>3 DEF FixedOrOver, WithReason
  <2>3. QED
    BY <1>6, <2>1, <2>2 DEF Ended, FixedOrOver
<1>7. QED
  BY <1>1, <1>2, <1>3, <1>4, <1>5, <1>6, View(a) DEF View

\* At first nothing is fixed, cancelled or asked for.
LEMMA InitReasons == Init => ReasonsSound
<1> SUFFICES ASSUME Init PROVE ReasonsSound
  OBVIOUS
<1>1. \A a \in Appointments : FixedOrOver(a) /\ WithReason(a)
  BY DEF Init, NoAppointment, FixedOrOver, WithReason
<1>2. \A c \in Clients : NeedsNoReason(calls[c])
  BY DEF Init, NoCall, NeedsNoReason
<1>3. QED
  BY <1>1, <1>2, InitAnswers DEF ReasonsSound

\* Every step keeps the invariant.
LEMMA NextReasons == Foresight = 0 /\ ReasonsSound /\ [Next]_vars => ReasonsSound'
<1> SUFFICES ASSUME Foresight = 0, ReasonsSound, [Next]_vars PROVE ReasonsSound'
  OBVIOUS
<1>1. AnswersSound' /\ \A a \in Appointments : View(a)
  BY NextAnswers, StepView DEF ReasonsSound, AnswersSound
<1>2. QED
  BY <1>1, CallsKept, ReasonKept DEF ReasonsSound

\* Provided that clients name a version they have seen, a fixed appointment is
\* only called off with a reason, although the store never asks for one: a request
\* without one was made when the appointment was not fixed, and fixing it moved
\* the version on.
THEOREM FixedCancelledWithReason == ASSUME Foresight = 0 PROVE Spec => []CancelledFixedHasReason
<1>1. Init => ReasonsSound
  BY InitReasons
<1>2. ReasonsSound /\ [Next]_vars => ReasonsSound'
  BY NextReasons
<1>3. ReasonsSound => CancelledFixedHasReason
  BY DEF ReasonsSound, WithReason, CancelledFixedHasReason
<1>4. QED
  BY <1>1, <1>2, <1>3, PTL DEF Spec
=============================================================================
