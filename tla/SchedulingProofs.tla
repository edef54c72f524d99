-------------------------- MODULE SchedulingProofs --------------------------
(***************************************************************************)
(* Theorems about Scheduling for every choice of its constants: types, the *)
(* reservation rows and the absence of double bookings.                    *)
(***************************************************************************)
EXTENDS SchedulingSafety, SequenceTheorems, TLAPS

BookingsTyped ==
  /\ appointments \in [Appointments -> Appointment]
  /\ driverRows \subseteq DriverReservation
  /\ resourceRows \subseteq ResourceReservation
JobsTyped ==
  jobs \in [Jobs -> [workflow : Workflows, archived : BOOLEAN, waiting : BOOLEAN, data : JobData]]
DriversTyped ==
  drivers \in [Drivers -> [active : BOOLEAN, canComplete : BOOLEAN, absent : Absences \cup {{}}]]
ResourcesTyped ==
  resources \in [Resources -> [active : BOOLEAN, type : ResourceTypes, exclusive : BOOLEAN]]
RequestsTyped == requests \in [Appointments -> Seq(Request)]
CallsTyped == calls \in [Clients -> Call]

\* TypeOK, split into the parts that single operations change.
LEMMA TypeParts ==
  TypeOK <=> /\ BookingsTyped /\ JobsTyped /\ DriversTyped /\ ResourcesTyped
             /\ RequestsTyped /\ CallsTyped
BY DEF TypeOK, BookingsTyped, JobsTyped, DriversTyped, ResourcesTyped, RequestsTyped, CallsTyped

-----------------------------------------------------------------------------
(* Types of the operators *)

\* Counting up the version keeps the columns of an appointment.
LEMMA BumpedType == ASSUME NEW ap \in Appointment PROVE Bumped(ap) \in Appointment
BY DEF Bumped, Appointment

\* So do the single columns the operations assign.
LEMMA ChangedType ==
  ASSUME NEW ap \in Appointment
  PROVE  /\ \A life \in Lifecycles : [ap EXCEPT !.life = life] \in Appointment
         /\ \A flag \in BOOLEAN : [ap EXCEPT !.override = flag] \in Appointment
         /\ \A start \in Int : [ap EXCEPT !.start = start] \in Appointment
         /\ \A life \in Lifecycles, flag \in BOOLEAN :
              /\ [ap EXCEPT !.life = life, !.override = flag] \in Appointment
              /\ [ap EXCEPT !.life = life, !.reasoned = flag] \in Appointment
              /\ [ap EXCEPT !.life = life, !.fixedOnce = flag] \in Appointment
         /\ \A start \in Int, dur \in Nat \ {0}, flag \in BOOLEAN :
              [ap EXCEPT !.start = start, !.dur = dur, !.override = flag] \in Appointment
         /\ \A flag \in BOOLEAN :
              [ap EXCEPT !.life = "proposal", !.override = flag, !.version = 3] \in Appointment
BY DEF Appointment, Lifecycles

\* The job of an appointment is a job.
LEMMA JobType == ASSUME NEW ap \in Appointment PROVE ap.job \in Jobs
BY DEF Appointment

\* Setting the confirmation columns of a planned confirmation.
LEMMA WithConfirmationType ==
  ASSUME NEW ap \in Appointment, NEW reachable \in BOOLEAN
  PROVE  WithConfirmation(ap, reachable) \in Appointment
BY DEF WithConfirmation, Appointment, Confirmations

\* Resetting a cancelled appointment to a proposal.
LEMMA ReopenedType ==
  ASSUME NEW ap \in Appointment, NEW override \in BOOLEAN
  PROVE  Reopened(ap, override) \in Appointment
BY BumpedType DEF Reopened, Appointment, Confirmations, Lifecycles

\* A draft made from a request is an appointment.
LEMMA NewAppointmentType ==
  ASSUME NEW j \in Jobs, NEW start \in Starts, NEW dur \in Durations, NEW buffer \in Buffers
  PROVE  NewAppointment(j, start, dur, buffer) \in Appointment
BY TimeAssumption DEF NewAppointment, Appointment, Lifecycles, Confirmations

\* The reservation row of a driver, as written for an appointment.
LEMMA DriverRowType ==
  ASSUME NEW a \in Appointments, NEW ap \in Appointment, NEW d \in Drivers
  PROVE  DriverRow(a, ap, d) \in DriverReservation
BY DEF DriverRow, DriverReservation, From, To, Reserving, Appointment

\* The reservation row of a resource, as written for an appointment.
LEMMA ResourceRowType ==
  ASSUME NEW a \in Appointments, NEW ap \in Appointment, NEW r \in Resources,
         NEW purpose \in Purposes, NEW exclusive \in BOOLEAN
  PROVE  ResourceRow(a, ap, r, purpose, exclusive) \in ResourceReservation
BY DEF ResourceRow, ResourceReservation, From, To, Reserving, Appointment

\* Refreshing keeps the columns of both reservation tables.
LEMMA RefreshType ==
  ASSUME NEW drows, drows \subseteq DriverReservation,
         NEW rrows, rrows \subseteq ResourceReservation,
         NEW a \in Appointments, NEW ap \in Appointment, ResourcesTyped
  PROVE  /\ RefreshDrivers(drows, a, ap) \subseteq DriverReservation
         /\ RefreshResources(rrows, a, ap, Exclusive) \subseteq ResourceReservation
<1>1. \A d \in Drivers : DriverRow(a, ap, d) \in DriverReservation
  BY DriverRowType
<1>2. \A row \in drows : row.driver \in Drivers
  BY DEF DriverReservation
<1>3. \A row \in rrows : /\ row.resource \in Resources /\ row.purpose \in Purposes
                         /\ Exclusive[row.resource] \in BOOLEAN
  BY DEF ResourceReservation, Exclusive, ResourcesTyped
<1>4. \A row \in rrows :
        ResourceRow(a, ap, row.resource, row.purpose, Exclusive[row.resource])
          \in ResourceReservation
  BY <1>3, ResourceRowType
<1>5. QED
  BY <1>1, <1>2, <1>4 DEF RefreshDrivers, RefreshResources, RowsOf, RowsOfOthers

\* Saving an appointment keeps the types of the three booking tables.
LEMMA SaveType ==
  ASSUME BookingsTyped, ResourcesTyped, NEW a \in Appointments, NEW ap \in Appointment,
         Save(a, ap)
  PROVE  BookingsTyped'
BY RefreshType DEF Save, Write, BookingsTyped

\* So does saving it with another team.
LEMMA SaveTeamType ==
  ASSUME BookingsTyped, ResourcesTyped, NEW a \in Appointments, NEW ap \in Appointment,
         NEW team \in Team, SaveTeam(a, ap, team)
  PROVE  BookingsTyped'
<1>1. \A d \in team.drivers : DriverRow(a, ap, d) \in DriverReservation
  BY DriverRowType DEF Team
<1>2. \A e \in team.equipment : /\ e.resource \in Resources /\ e.purpose \in Purposes
                                /\ Exclusive[e.resource] \in BOOLEAN
  BY DEF Team, Exclusive, ResourcesTyped
<1>3. \A e \in team.equipment :
        ResourceRow(a, ap, e.resource, e.purpose, Exclusive[e.resource]) \in ResourceReservation
  BY <1>2, ResourceRowType
<1>4. QED
  BY <1>1, <1>3 DEF SaveTeam, Write, BookingsTyped, RowsOfOthers

\* A workflow change keeps the type of the jobs.
LEMMA SetWorkflowType ==
  ASSUME JobsTyped, NEW j \in Jobs, NEW workflow \in Workflows, NEW waiting \in BOOLEAN,
         SetWorkflow(j, workflow, waiting)
  PROVE  JobsTyped'
BY DEF SetWorkflow, JobsTyped

\* Revoking the requests of an appointment leaves a list of requests.
LEMMA RevokedType == ASSUME NEW list \in Seq(Request) PROVE Revoked(list) \in Seq(Request)
<1>1. Len(list) \in Nat /\ DOMAIN list = 1 .. Len(list)
  BY LenProperties
<1>2. ASSUME NEW i \in 1 .. Len(list) PROVE [list[i] EXCEPT !.status = "revoked"] \in Request
  <2>1. list[i] \in Request
    BY ElementOfSeq
  <2>2. QED
    BY <2>1 DEF Request
<1>3. QED
  BY <1>1, <1>2, IsASeq DEF Revoked

\* The request written for an appointment is a request.
LEMMA NewRequestType ==
  ASSUME JobsTyped, NEW ap \in Appointment
  PROVE  NewRequest(ap) \in Request
<1>1. DataOf(ap) \in [transport : Transports, minutes : Nat, volume : Nat]
  BY InputAssumption DEF DataOf, JobsTyped, Appointment
<1>2. QED
  BY <1>1 DEF NewRequest, Request, Facing, Appointment

\* Planning a confirmation keeps the type of the requests.
LEMMA PlanConfirmationType ==
  ASSUME JobsTyped, RequestsTyped, NEW a \in Appointments, NEW ap \in Appointment,
         NEW reachable \in BOOLEAN, PlanConfirmation(a, ap, reachable)
  PROVE  RequestsTyped'
<1>1. Revoked(requests[a]) \in Seq(Request)
  BY RevokedType DEF RequestsTyped
<1>2. Append(Revoked(requests[a]), NewRequest(ap)) \in Seq(Request)
  BY <1>1, NewRequestType
<1>3. QED
  BY <1>1, <1>2 DEF PlanConfirmation, RequestsTyped

\* Revoking requests keeps the type of the requests.
LEMMA RevokeRequestsType ==
  ASSUME RequestsTyped, NEW a \in Appointments, RevokeRequests(a)
  PROVE  RequestsTyped'
BY RevokedType DEF RevokeRequests, RequestsTyped

\* A transaction that takes a request leaves none in flight.
LEMMA TakeType ==
  ASSUME CallsTyped, NEW c \in Clients, NEW op, Take(c, op)
  PROVE  CallsTyped'
BY DEF Take, CallsTyped, Call

\* Handing a well-formed request to the store changes nothing else.
LEMMA AskType ==
  ASSUME TypeOK, NEW c \in Clients, NEW call \in Call, Ask(c, call)
  PROVE  TypeOK'
BY DEF Ask, TypeOK, bookings, staff

\* A team a request may name is a team.
LEMMA TeamsType == ASSUME NEW team \in Teams PROVE team \in Team
BY InputAssumption DEF Team

-----------------------------------------------------------------------------
(* Types are preserved *)

\* The initial tables have the types of their columns.
LEMMA InitTyped == Init => TypeOK
<1> SUFFICES ASSUME Init PROVE TypeOK
  OBVIOUS
<1>1. NoAppointment \in Appointment
  BY IdentityAssumption DEF NoAppointment, Appointment, Lifecycles, Confirmations
<1>2. <<>> \in Seq(Request)
  OBVIOUS
<1>3. QED
  BY <1>1, <1>2, FleetAssumption DEF Init, TypeOK, Workflows, Call

\* Validating a request keeps every type.
LEMMA SubmitTyped == ASSUME TypeOK, NEW c \in Clients, Submit(c) PROVE TypeOK'
<1> USE DEF TypeOK
<1>1. ASSUME NEW j \in Jobs, NEW start \in Starts, NEW dur \in Durations, NEW buffer \in Buffers,
             NEW team \in Teams, NEW override \in Reasons,
             SubmitPlan(c, j, start, dur, buffer, team, override)
      PROVE  TypeOK'
  BY <1>1, AskType, ReasonAssumption DEF SubmitPlan, Call
<1>2. ASSUME NEW a \in Appointments, NEW team \in Teams, NEW override \in Reasons,
             SubmitAssign(c, a, team, override)
      PROVE  TypeOK'
  BY <1>2, AskType, ReasonAssumption DEF SubmitAssign, Call, Appointment
<1>3. ASSUME NEW a \in Appointments, NEW override \in Reasons, SubmitPropose(c, a, override)
      PROVE  TypeOK'
  BY <1>3, AskType, ReasonAssumption DEF SubmitPropose, Call, Appointment
<1>4. ASSUME NEW a \in Appointments, NEW start \in Starts, NEW dur \in Durations,
             NEW override \in Reasons, NEW silent \in Reasons,
             SubmitReschedule(c, a, start, dur, override, silent)
      PROVE  TypeOK'
  BY <1>4, AskType, ReasonAssumption DEF SubmitReschedule, Call, Appointment
<1>5. ASSUME NEW a \in Appointments, NEW waive \in Reasons, NEW silent \in Reasons,
             SubmitFix(c, a, waive, silent)
      PROVE  TypeOK'
  BY <1>5, AskType, ReasonAssumption DEF SubmitFix, Call, Appointment
<1>6. ASSUME NEW a \in Appointments, NEW version \in 1 .. MaxVersion, NEW reason \in Reasons,
             SubmitCancel(c, a, version, reason)
      PROVE  TypeOK'
  BY <1>6, AskType, ReasonAssumption, BoundAssumption DEF SubmitCancel, Call
<1>7. ASSUME NEW a \in Appointments, NEW override \in Reasons, SubmitReopen(c, a, override)
      PROVE  TypeOK'
  BY <1>7, AskType, ReasonAssumption DEF SubmitReopen, Call, Appointment
<1>8. ASSUME NEW a \in Appointments, NEW at \in Starts, NEW by \in Drivers \cup {Admin},
             NEW override \in Reasons, SubmitComplete(c, a, at, by, override)
      PROVE  TypeOK'
  BY <1>8, AskType, ReasonAssumption DEF SubmitComplete, Call, Appointment
<1>9. ASSUME NEW a \in Appointments, NEW b \in Appointments, SubmitSwap(c, a, b)
      PROVE  TypeOK'
  BY <1>9, AskType DEF SubmitSwap, Call, Appointment
<1>10. QED
  BY <1>1, <1>2, <1>3, <1>4, <1>5, <1>6, <1>7, <1>8, <1>9, Submit(c) DEF Submit

\* What the request of a client says, by operation.
LEMMA CallFields ==
  ASSUME CallsTyped, NEW c \in Clients
  PROVE  /\ calls[c].op = "plan" =>
              /\ calls[c].job \in Jobs /\ calls[c].start \in Starts /\ calls[c].dur \in Durations
              /\ calls[c].buffer \in Buffers /\ calls[c].team \in Teams
              /\ calls[c].override \in BOOLEAN
         /\ calls[c].op = "assign" =>
              /\ calls[c].id \in Appointments /\ calls[c].team \in Teams
              /\ calls[c].override \in BOOLEAN
         /\ calls[c].op \in {"propose", "reopen"} =>
              calls[c].id \in Appointments /\ calls[c].override \in BOOLEAN
         /\ calls[c].op = "reschedule" =>
              /\ calls[c].id \in Appointments /\ calls[c].start \in Starts
              /\ calls[c].dur \in Durations /\ calls[c].override \in BOOLEAN
         /\ calls[c].op = "fix" => calls[c].id \in Appointments
         /\ calls[c].op = "cancel" =>
              calls[c].id \in Appointments /\ calls[c].reason \in BOOLEAN
         /\ calls[c].op = "complete" => calls[c].id \in Appointments
         /\ calls[c].op = "swap" =>
              calls[c].id \in Appointments /\ calls[c].other \in Appointments
<1>1. calls[c] \in Call
  BY DEF CallsTyped
<1>2. QED
  BY <1>1 DEF Call, NoCall

\* Every transaction of the appointment store keeps every type.
LEMMA CommitTyped == ASSUME TypeOK, NEW c \in Clients, Commit(c) PROVE TypeOK'
<1> DEFINE call == calls[c]
<1>0. /\ BookingsTyped /\ JobsTyped /\ DriversTyped /\ ResourcesTyped
      /\ RequestsTyped /\ CallsTyped
  BY TypeParts
<1>a. SUFFICES /\ BookingsTyped' /\ JobsTyped' /\ DriversTyped' /\ ResourcesTyped'
               /\ RequestsTyped' /\ CallsTyped'
  BY DEF TypeOK, BookingsTyped, JobsTyped, DriversTyped, ResourcesTyped, RequestsTyped, CallsTyped
<1>b. \A ap \in Appointment : Bumped(ap) \in Appointment
  BY BumpedType
<1>c. \A a \in Appointments : appointments[a] \in Appointment /\ appointments[a].job \in Jobs
  BY <1>0 DEF BookingsTyped, Appointment
<1>d. \A j \in Jobs : jobs[j].waiting \in BOOLEAN
  BY <1>0 DEF JobsTyped
<1>e. UNCHANGED staff => DriversTyped' /\ ResourcesTyped'
  BY <1>0 DEF staff, DriversTyped, ResourcesTyped
<1>f. (UNCHANGED jobs => JobsTyped') /\ (UNCHANGED requests => RequestsTyped')
  BY <1>0 DEF JobsTyped, RequestsTyped
<1>1. ASSUME NEW a \in Appointments, CommitPlan(c, a)
      PROVE  /\ BookingsTyped' /\ JobsTyped' /\ UNCHANGED <<staff, requests>> /\ CallsTyped'
  <2> DEFINE ap == [NewAppointment(call.job, call.start, call.dur, call.buffer) EXCEPT
                      !.life = "proposal", !.override = call.override, !.version = 3]
  <2>1. /\ Take(c, "plan") /\ SaveTeam(a, ap, call.team) /\ SetWorkflow(call.job, "planning", TRUE)
        /\ UNCHANGED <<staff, requests>>
    BY <1>1 DEF CommitPlan
  <2>2. /\ call.job \in Jobs /\ call.start \in Starts /\ call.dur \in Durations
        /\ call.buffer \in Buffers /\ call.team \in Team /\ call.override \in BOOLEAN
    BY <2>1, <1>0, CallFields, TeamsType DEF Take
  <2>3. ap \in Appointment
    <3>1. NewAppointment(call.job, call.start, call.dur, call.buffer) \in Appointment
      BY <2>2, NewAppointmentType
    <3>2. QED
      BY <2>2, <3>1, ChangedType
  <2> HIDE DEF ap
  <2>4. QED
    BY <2>1, <2>2, <2>3, <1>0, SaveTeamType, SetWorkflowType, TakeType, JobType DEF Workflows
<1>2. ASSUME CommitAssign(c)
      PROVE  /\ BookingsTyped' /\ UNCHANGED <<jobs, staff, requests>> /\ CallsTyped'
  <2> DEFINE ap == [Bumped(appointments[call.id]) EXCEPT !.override = call.override]
  <2>1. /\ Take(c, "assign") /\ SaveTeam(call.id, ap, call.team)
        /\ UNCHANGED <<jobs, staff, requests>>
    BY <1>2 DEF CommitAssign
  <2>2. call.id \in Appointments /\ call.team \in Team /\ call.override \in BOOLEAN
    BY <2>1, <1>0, CallFields, TeamsType DEF Take
  <2>3. ap \in Appointment
    BY <2>2, <1>b, <1>c, ChangedType DEF Lifecycles
  <2> HIDE DEF ap
  <2>4. QED
    BY <2>1, <2>2, <2>3, <1>0, SaveTeamType, TakeType
<1>3. ASSUME CommitPropose(c)
      PROVE  /\ BookingsTyped' /\ JobsTyped' /\ UNCHANGED <<staff, requests>> /\ CallsTyped'
  <2> DEFINE ap == [Bumped(appointments[call.id]) EXCEPT !.life = "proposal",
                                                         !.override = call.override]
  <2>1. /\ Take(c, "propose") /\ Save(call.id, ap)
        /\ SetWorkflow(ap.job, "planning", jobs[ap.job].waiting)
        /\ UNCHANGED <<staff, requests>>
    BY <1>3 DEF CommitPropose
  <2>2. call.id \in Appointments /\ call.override \in BOOLEAN
    BY <2>1, <1>0, CallFields DEF Take
  <2>3. ap \in Appointment
    BY <2>2, <1>b, <1>c, ChangedType DEF Lifecycles
  <2> HIDE DEF ap
  <2>4. QED
    BY <2>1, <2>2, <2>3, <1>0, <1>d, SaveType, SetWorkflowType, TakeType, JobType DEF Workflows
<1>4. ASSUME NEW reachable \in BOOLEAN, CommitReschedule(c, reachable)
      PROVE  /\ BookingsTyped' /\ UNCHANGED <<jobs, staff>> /\ RequestsTyped' /\ CallsTyped'
  <2> DEFINE moved == Rescheduled(appointments[call.id], call)
  <2> DEFINE ap == IF moved.life = "fixed" THEN WithConfirmation(moved, reachable) ELSE moved
  <2>1. /\ Take(c, "reschedule") /\ Save(call.id, ap) /\ UNCHANGED <<jobs, staff>>
        /\ PlanConfirmation(call.id, ap, reachable) \/ UNCHANGED requests
    BY <1>4 DEF CommitReschedule
  <2>2. /\ call.id \in Appointments /\ call.start \in Int /\ call.dur \in Nat \ {0}
        /\ call.override \in BOOLEAN
    BY <2>1, <1>0, CallFields, TimeAssumption DEF Take
  <2>3. moved \in Appointment
    BY <2>2, <1>b, <1>c, ChangedType DEF Rescheduled
  <2>4. ap \in Appointment
    BY <2>3, WithConfirmationType
  <2> HIDE DEF ap
  <2>5. QED
    BY <2>1, <2>2, <2>4, <1>0, <1>f, SaveType, TakeType, PlanConfirmationType
<1>5. ASSUME NEW reachable \in BOOLEAN, CommitFix(c, reachable)
      PROVE  /\ BookingsTyped' /\ JobsTyped' /\ UNCHANGED staff /\ RequestsTyped' /\ CallsTyped'
  <2> DEFINE fixed == [Bumped(appointments[call.id]) EXCEPT !.life = "fixed", !.fixedOnce = TRUE]
  <2> DEFINE ap == WithConfirmation(fixed, reachable)
  <2>1. /\ Take(c, "fix") /\ Save(call.id, ap) /\ SetWorkflow(ap.job, "scheduled", FALSE)
        /\ PlanConfirmation(call.id, ap, reachable) /\ UNCHANGED staff
    BY <1>5 DEF CommitFix
  <2>2. call.id \in Appointments
    BY <2>1, <1>0, CallFields DEF Take
  <2>3. fixed \in Appointment
    BY <2>2, <1>b, <1>c, ChangedType DEF Lifecycles
  <2>4. ap \in Appointment
    BY <2>3, WithConfirmationType
  <2> HIDE DEF ap
  <2>5. QED
    BY <2>1, <2>2, <2>4, <1>0, SaveType, SetWorkflowType, TakeType, JobType, PlanConfirmationType
    DEF Workflows
<1>6. ASSUME CommitCancel(c)
      PROVE  /\ BookingsTyped' /\ JobsTyped' /\ UNCHANGED <<staff, requests>> /\ CallsTyped'
  <2> DEFINE ap == [Bumped(appointments[call.id]) EXCEPT !.life = "cancelled",
                                                         !.reasoned = call.reason]
  <2>1. /\ Take(c, "cancel") /\ Save(call.id, ap) /\ UNCHANGED <<staff, requests>>
        /\ \/ SetWorkflow(ap.job, "cancelled", jobs[ap.job].waiting)
           \/ SetWorkflow(ap.job, "waitlist", TRUE)
    BY <1>6 DEF CommitCancel
  <2>2. call.id \in Appointments /\ call.reason \in BOOLEAN
    BY <2>1, <1>0, CallFields DEF Take
  <2>3. ap \in Appointment
    BY <2>2, <1>b, <1>c, ChangedType DEF Lifecycles
  <2> HIDE DEF ap
  <2>4. QED
    BY <2>1, <2>2, <2>3, <1>0, <1>d, SaveType, SetWorkflowType, TakeType, JobType DEF Workflows
<1>7. ASSUME CommitReopen(c)
      PROVE  /\ BookingsTyped' /\ JobsTyped' /\ UNCHANGED staff /\ RequestsTyped' /\ CallsTyped'
  <2> DEFINE ap == Reopened(appointments[call.id], call.override)
  <2>1. /\ Take(c, "reopen") /\ Save(call.id, ap)
        /\ SetWorkflow(ap.job, "planning", jobs[ap.job].waiting)
        /\ RevokeRequests(call.id) /\ UNCHANGED staff
    BY <1>7 DEF CommitReopen
  <2>2. call.id \in Appointments /\ call.override \in BOOLEAN
    BY <2>1, <1>0, CallFields DEF Take
  <2>3. ap \in Appointment
    BY <2>2, <1>c, ReopenedType
  <2> HIDE DEF ap
  <2>4. QED
    BY <2>1, <2>2, <2>3, <1>0, <1>d, SaveType, SetWorkflowType, TakeType, JobType, RevokeRequestsType
    DEF Workflows
<1>8. ASSUME CommitComplete(c)
      PROVE  /\ BookingsTyped' /\ JobsTyped' /\ UNCHANGED <<staff, requests>> /\ CallsTyped'
  <2> DEFINE ap == [Bumped(appointments[call.id]) EXCEPT !.life = "completed"]
  <2>1. /\ Take(c, "complete") /\ Save(call.id, ap)
        /\ SetWorkflow(ap.job, "completed", jobs[ap.job].waiting)
        /\ UNCHANGED <<staff, requests>>
    BY <1>8 DEF CommitComplete
  <2>2. call.id \in Appointments
    BY <2>1, <1>0, CallFields DEF Take
  <2>3. ap \in Appointment
    BY <2>2, <1>b, <1>c, ChangedType DEF Lifecycles
  <2> HIDE DEF ap
  <2>4. QED
    BY <2>1, <2>2, <2>3, <1>0, <1>d, SaveType, SetWorkflowType, TakeType, JobType DEF Workflows
<1>9. ASSUME CommitSwap(c)
      PROVE  /\ BookingsTyped' /\ UNCHANGED <<jobs, staff, requests>> /\ CallsTyped'
  <2> DEFINE a == call.id
             b == call.other
             first == [Bumped(appointments[a]) EXCEPT !.start = appointments[b].start]
             second == [Bumped(appointments[b]) EXCEPT !.start = appointments[a].start]
             drows == RefreshDrivers(driverRows, a, first)
             rrows == RefreshResources(resourceRows, a, first, Exclusive)
  <2>1. /\ Take(c, "swap") /\ UNCHANGED <<jobs, staff, requests>>
        /\ Write([appointments EXCEPT ![a] = first, ![b] = second],
                 RefreshDrivers(drows, b, second), RefreshResources(rrows, b, second, Exclusive))
    BY <1>9 DEF CommitSwap
  <2>2. a \in Appointments /\ b \in Appointments
    BY <2>1, <1>0, CallFields DEF Take
  <2>3. first \in Appointment /\ second \in Appointment
    <3>1. /\ Bumped(appointments[a]) \in Appointment /\ appointments[a].start \in Int
          /\ Bumped(appointments[b]) \in Appointment /\ appointments[b].start \in Int
      BY <2>2, <1>b, <1>c DEF Appointment
    <3>2. QED
      BY <3>1, ChangedType
  <2> HIDE DEF a, b, first, second
  <2>4. drows \subseteq DriverReservation /\ rrows \subseteq ResourceReservation
    BY <2>2, <2>3, <1>0, RefreshType DEF BookingsTyped
  <2> HIDE DEF drows, rrows
  <2>5. /\ RefreshDrivers(drows, b, second) \subseteq DriverReservation
        /\ RefreshResources(rrows, b, second, Exclusive) \subseteq ResourceReservation
    BY <2>2, <2>3, <2>4, <1>0, RefreshType
  <2>6. QED
    BY <2>1, <2>2, <2>3, <2>5, <1>0, TakeType DEF Write, BookingsTyped
<1>10. QED
  BY <1>0, <1>e, <1>f, <1>1, <1>2, <1>3, <1>4, <1>5, <1>6, <1>7, <1>8, <1>9, Commit(c) DEF Commit

\* The operations on jobs and the waiting list keep every type.
LEMMA ManageJobsTyped == ASSUME TypeOK, ManageJobs PROVE TypeOK'
<1>0. /\ BookingsTyped /\ JobsTyped /\ DriversTyped /\ ResourcesTyped
      /\ RequestsTyped /\ CallsTyped
  BY TypeParts
<1>a. SUFFICES /\ BookingsTyped' /\ JobsTyped' /\ DriversTyped' /\ ResourcesTyped'
               /\ RequestsTyped' /\ CallsTyped'
  BY DEF TypeOK, BookingsTyped, JobsTyped, DriversTyped, ResourcesTyped, RequestsTyped, CallsTyped
<1>b. UNCHANGED <<staff, calls>> => DriversTyped' /\ ResourcesTyped' /\ CallsTyped'
  BY <1>0 DEF staff, DriversTyped, ResourcesTyped, CallsTyped
<1>c. /\ UNCHANGED bookings => BookingsTyped'
      /\ UNCHANGED requests => RequestsTyped'
  BY <1>0 DEF bookings, BookingsTyped, RequestsTyped
<1>1. ASSUME NEW a \in Appointments, NEW j \in Jobs, NEW start \in Starts, NEW dur \in Durations,
             NEW buffer \in Buffers, CreateDraft(a, j, start, dur, buffer)
      PROVE  BookingsTyped' /\ JobsTyped' /\ UNCHANGED <<staff, requests, calls>>
  <2>1. NewAppointment(j, start, dur, buffer) \in Appointment
    BY NewAppointmentType
  <2>2. /\ Write([appointments EXCEPT ![a] = NewAppointment(j, start, dur, buffer)],
                 driverRows, resourceRows)
        /\ SetWorkflow(j, "planning", TRUE)
        /\ UNCHANGED <<staff, requests, calls>>
    BY <1>1 DEF CreateDraft
  <2>3. BookingsTyped'
    BY <2>1, <2>2, <1>0 DEF Write, BookingsTyped
  <2>4. QED
    BY <2>2, <2>3, <1>0, SetWorkflowType DEF Workflows
<1>2. ASSUME NEW j \in Jobs, NEW data \in JobData, UpdateJob(j, data)
      PROVE  BookingsTyped' /\ JobsTyped' /\ RequestsTyped' /\ UNCHANGED <<staff, calls>>
  <2>1. \A a \in Appointments :
          [Bumped(appointments[a]) EXCEPT !.conf = "not_requested"] \in Appointment
    <3>1. TAKE a \in Appointments
    <3>2. Bumped(appointments[a]) \in Appointment
      BY <1>0, BumpedType DEF BookingsTyped
    <3>3. QED
      BY <3>2 DEF Appointment, Confirmations
  <2>2. \A a \in Appointments : Revoked(requests[a]) \in Seq(Request)
    BY <1>0, RevokedType DEF RequestsTyped
  <2>3. BookingsTyped'
    BY <1>2, <1>0, <2>1 DEF UpdateJob, BookingsTyped
  <2>4. RequestsTyped'
    BY <1>2, <1>0, <2>2 DEF UpdateJob, RequestsTyped
  <2>5. JobsTyped' /\ UNCHANGED <<staff, calls>>
    BY <1>2, <1>0 DEF UpdateJob, JobsTyped
  <2>6. QED
    BY <2>3, <2>4, <2>5
<1>3. ASSUME NEW j \in Jobs, ArchiveJob(j)
      PROVE  JobsTyped' /\ UNCHANGED <<bookings, staff, requests, calls>>
  <2>1. \A archived, waiting \in BOOLEAN, workflow \in Workflows :
          [jobs EXCEPT ![j].archived = archived, ![j].workflow = workflow, ![j].waiting = waiting]
            \in [Jobs -> [workflow : Workflows, archived : BOOLEAN, waiting : BOOLEAN,
                          data : JobData]]
    BY <1>0 DEF JobsTyped
  <2>2. QED
    BY <2>1, <1>3 DEF ArchiveJob, JobsTyped, Workflows
<1>4. ASSUME NEW j \in Jobs, RemoveWaitlist(j)
      PROVE  JobsTyped' /\ UNCHANGED <<bookings, staff, requests, calls>>
  BY <1>4, <1>0 DEF RemoveWaitlist, JobsTyped
<1>5. QED
  BY <1>0, <1>b, <1>c, <1>1, <1>2, <1>3, <1>4, ManageJobs DEF ManageJobs

\* The operations on drivers and resources keep every type.
LEMMA ManageStaffTyped == ASSUME TypeOK, ManageStaff PROVE TypeOK'
<1>1. ASSUME NEW d \in Drivers,
             \/ DeactivateDriver(d)
             \/ \E canComplete \in BOOLEAN : UpdateDriver(d, canComplete)
             \/ \E absent \in Absences : ChangeAvailability(d, absent)
      PROVE  DriversTyped' /\ UNCHANGED <<bookings, jobs, resources, requests, calls>>
  BY <1>1, TypeParts DEF DriversTyped, DeactivateDriver, UpdateDriver, ChangeAvailability
<1>2. ASSUME NEW r \in Resources, DeactivateResource(r)
      PROVE  ResourcesTyped' /\ UNCHANGED <<bookings, jobs, drivers, requests, calls>>
  BY <1>2, TypeParts DEF ResourcesTyped, DeactivateResource
<1>3. ASSUME NEW r \in Resources, NEW edit \in Edits, UpdateResource(r, edit)
      PROVE  ResourcesTyped' /\ UNCHANGED <<bookings, jobs, drivers, requests, calls>>
  BY <1>3, TypeParts, FleetAssumption DEF ResourcesTyped, UpdateResource
<1>4. QED
  BY <1>1, <1>2, <1>3, ManageStaff
  DEF ManageStaff, bookings, TypeOK, DriversTyped, ResourcesTyped

\* Answers, resets, new requests and expiry keep every type.
LEMMA ConfirmTyped == ASSUME TypeOK, Confirm PROVE TypeOK'
<1>0. BookingsTyped /\ RequestsTyped
  BY TypeParts
<1>1. ASSUME NEW a \in Appointments, NEW conf \in Confirmations, SetConfirmation(a, conf),
             UNCHANGED <<driverRows, resourceRows>>
      PROVE  BookingsTyped'
  <2>1. Bumped(appointments[a]) \in Appointment
    BY <1>0, BumpedType DEF BookingsTyped
  <2>2. [Bumped(appointments[a]) EXCEPT !.conf = conf] \in Appointment
    BY <2>1 DEF Appointment
  <2>3. QED
    BY <1>0, <1>1, <2>2 DEF SetConfirmation, BookingsTyped
<1>2. ASSUME NEW a \in Appointments, NEW i \in DOMAIN requests[a], NEW request \in Request,
             requests' = [requests EXCEPT ![a][i] = request]
      PROVE  RequestsTyped'
  <2>1. [requests[a] EXCEPT ![i] = request] \in Seq(Request)
    BY <1>0, ExceptSeq DEF RequestsTyped
  <2>2. QED
    BY <1>0, <1>2, <2>1 DEF RequestsTyped
<1>3. ASSUME NEW a \in Appointments, NEW i \in DOMAIN requests[a]
      PROVE  requests[a][i] \in Request
  BY <1>0, <1>3, ElementOfSeq, LenProperties DEF RequestsTyped
<1>4. ASSUME NEW a \in Appointments, NEW i \in DOMAIN requests[a], NEW response \in Responses,
             Respond(a, i, response)
      PROVE  BookingsTyped' /\ RequestsTyped' /\ UNCHANGED <<jobs, staff, calls>>
  <2>1. [requests[a][i] EXCEPT !.response = response] \in Request
    BY <1>3 DEF Request
  <2>2. requests' = [requests EXCEPT ![a][i] = [requests[a][i] EXCEPT !.response = response]]
    BY <1>4 DEF Respond
  <2>3. QED
    BY <1>1, <1>2, <1>4, <2>1, <2>2 DEF Respond, Confirmations
<1>5. ASSUME NEW a \in Appointments, NEW i \in DOMAIN requests[a], ResetResponse(a, i)
      PROVE  BookingsTyped' /\ RequestsTyped' /\ UNCHANGED <<jobs, staff, calls>>
  <2>1. [requests[a][i] EXCEPT !.response = "none"] \in Request
    BY <1>3 DEF Request
  <2>2. requests' = [requests EXCEPT ![a][i] = [requests[a][i] EXCEPT !.response = "none"]]
    BY <1>5 DEF ResetResponse
  <2>3. QED
    BY <1>1, <1>2, <1>5, <2>1, <2>2 DEF ResetResponse, Confirmations
<1>6. ASSUME NEW a \in Appointments, Reissue(a)
      PROVE  BookingsTyped' /\ RequestsTyped' /\ UNCHANGED <<jobs, staff, calls>>
  <2> DEFINE ap == WithConfirmation(Bumped(appointments[a]), TRUE)
  <2>1. /\ appointments' = [appointments EXCEPT ![a] = ap]
        /\ PlanConfirmation(a, ap, TRUE)
        /\ UNCHANGED <<driverRows, resourceRows, jobs, staff, calls>>
    BY <1>6 DEF Reissue
  <2>2. ap \in Appointment
    BY <1>0, BumpedType, WithConfirmationType DEF BookingsTyped
  <2> HIDE DEF ap
  <2>3. RequestsTyped'
    BY <2>1, <2>2, TypeParts, PlanConfirmationType
  <2>4. QED
    BY <2>1, <2>2, <2>3, <1>0 DEF BookingsTyped
<1>7. ASSUME NEW a \in Appointments, NEW i \in DOMAIN requests[a], Expire(a, i)
      PROVE  BookingsTyped' /\ RequestsTyped' /\ UNCHANGED <<jobs, staff, calls>>
  <2>1. \A expired \in BOOLEAN : [requests[a][i] EXCEPT !.expired = expired] \in Request
    BY <1>3 DEF Request
  <2>2. requests' = [requests EXCEPT ![a][i] = [requests[a][i] EXCEPT !.expired = TRUE]]
    BY <1>7 DEF Expire
  <2>3. QED
    BY <1>0, <1>2, <1>7, <2>1, <2>2 DEF Expire, bookings, BookingsTyped
<1>8. BookingsTyped' /\ RequestsTyped' /\ UNCHANGED <<jobs, staff, calls>>
  BY <1>4, <1>5, <1>6, <1>7, Confirm DEF Confirm
<1>9. QED
  BY <1>8 DEF TypeOK, BookingsTyped, RequestsTyped, staff

\* A request that fails keeps every type.
LEMMA FailTyped == ASSUME TypeOK, NEW c \in Clients, Fail(c) PROVE TypeOK'
BY DEF Fail, TypeOK, bookings, staff, Call

\* Every step keeps every type: TypeOK is inductive.
LEMMA NextTyped == TypeOK /\ [Next]_vars => TypeOK'
<1> SUFFICES ASSUME TypeOK, [Next]_vars PROVE TypeOK'
  OBVIOUS
<1>1. CASE Next
  BY <1>1, SubmitTyped, CommitTyped, FailTyped, ManageJobsTyped, ManageStaffTyped, ConfirmTyped
  DEF Next
<1>2. CASE UNCHANGED vars
  BY <1>2 DEF TypeOK, vars, bookings, staff
<1>3. QED
  BY <1>1, <1>2

\* Whatever requests race and whatever is edited, every table keeps the types of
\* its columns and every request in flight stays well formed.
THEOREM TypeCorrect == Spec => []TypeOK
<1>1. Init => TypeOK
  BY InitTyped
<1>2. TypeOK /\ [Next]_vars => TypeOK'
  BY NextTyped
<1>3. QED
  BY <1>1, <1>2, PTL DEF Spec

-----------------------------------------------------------------------------
(* The reservation rows *)

\* The rows agree with a table of appointments, and with the exclusive flags of
\* the resources: ReservationsSound without the constraints and the types.
DriversAgree(drows, apps) ==
  \A row \in drows :
    /\ row = DriverRow(row.appointment, apps[row.appointment], row.driver)
    /\ apps[row.appointment].life # "none"

ResourcesAgree(rrows, apps, exclusive) ==
  \A row \in rrows :
    /\ row = ResourceRow(row.appointment, apps[row.appointment], row.resource, row.purpose,
                         row.exclusive)
    /\ row.active => row.exclusive = exclusive[row.resource]
    /\ apps[row.appointment].life # "none"

RowsSound ==
  /\ DriversAgree(driverRows, appointments)
  /\ ResourcesAgree(resourceRows, appointments, Exclusive)
  /\ DriverExclusion(driverRows)
  /\ ResourceExclusion(resourceRows)

\* ReservationsSound, in the form in which the steps are shown to preserve it.
LEMMA SoundParts == TypeOK => (ReservationsSound <=> RowsSound)
<1> SUFFICES ASSUME TypeOK PROVE ReservationsSound <=> RowsSound
  OBVIOUS
<1>1. \A row \in resourceRows : Exclusive[row.resource] = resources[row.resource].exclusive
  BY DEF TypeOK, ResourceReservation, Exclusive
<1>2. QED
  BY <1>1 DEF ReservationsSound, RowsMirrorAppointments, DriverRowsMirror, ResourceRowsMirror,
              RowsHaveAppointment, Used, RowsSound, DriversAgree, ResourcesAgree

\* Refreshing the rows of an appointment makes them agree with its new record
\* and leaves the other rows as they were.
LEMMA RefreshDriversAgrees ==
  ASSUME NEW apps \in [Appointments -> Appointment], NEW drows,
         drows \subseteq DriverReservation, DriversAgree(drows, apps),
         NEW a \in Appointments, NEW ap, ap.life # "none"
  PROVE  DriversAgree(RefreshDrivers(drows, a, ap), [apps EXCEPT ![a] = ap])
<1> DEFINE after == [apps EXCEPT ![a] = ap]
<1>1. ASSUME NEW row \in RowsOfOthers(drows, a)
      PROVE  /\ row = DriverRow(row.appointment, after[row.appointment], row.driver)
             /\ after[row.appointment].life # "none"
  <2>1. row \in drows /\ row.appointment # a /\ row.appointment \in Appointments
    BY DEF RowsOfOthers, DriverReservation
  <2>2. after[row.appointment] = apps[row.appointment]
    BY <2>1
  <2>3. QED
    BY <2>1, <2>2 DEF DriversAgree
<1>2. ASSUME NEW d
      PROVE  LET row == DriverRow(a, ap, d)
             IN /\ row = DriverRow(row.appointment, after[row.appointment], row.driver)
                /\ after[row.appointment].life # "none"
  <2>1. DriverRow(a, ap, d).appointment = a /\ DriverRow(a, ap, d).driver = d
    BY DEF DriverRow
  <2>2. after[a] = ap
    OBVIOUS
  <2>3. QED
    BY <2>1, <2>2
<1>3. QED
  BY <1>1, <1>2 DEF RefreshDrivers, DriversAgree

\* The same for the rows of resources and their exclusive flags.
LEMMA RefreshResourcesAgrees ==
  ASSUME NEW apps \in [Appointments -> Appointment], NEW rrows,
         rrows \subseteq ResourceReservation, NEW exclusive,
         ResourcesAgree(rrows, apps, exclusive),
         NEW a \in Appointments, NEW ap, ap.life # "none"
  PROVE  ResourcesAgree(RefreshResources(rrows, a, ap, exclusive), [apps EXCEPT ![a] = ap],
                        exclusive)
<1> DEFINE after == [apps EXCEPT ![a] = ap]
<1> DEFINE Agrees(row) ==
      /\ row = ResourceRow(row.appointment, after[row.appointment], row.resource, row.purpose,
                           row.exclusive)
      /\ row.active => row.exclusive = exclusive[row.resource]
      /\ after[row.appointment].life # "none"
<1>1. ASSUME NEW row \in RowsOfOthers(rrows, a) PROVE Agrees(row)
  <2>1. row \in rrows /\ row.appointment # a /\ row.appointment \in Appointments
    BY DEF RowsOfOthers, ResourceReservation
  <2>2. after[row.appointment] = apps[row.appointment]
    BY <2>1
  <2>3. QED
    BY <2>1, <2>2 DEF ResourcesAgree
<1>2. ASSUME NEW r, NEW purpose PROVE Agrees(ResourceRow(a, ap, r, purpose, exclusive[r]))
  <2> DEFINE row == ResourceRow(a, ap, r, purpose, exclusive[r])
  <2>1. /\ row.appointment = a /\ row.resource = r /\ row.purpose = purpose
        /\ row.exclusive = exclusive[r]
    BY DEF ResourceRow
  <2>2. after[a] = ap
    OBVIOUS
  <2> HIDE DEF after
  <2>3. QED
    BY <2>1, <2>2
<1>3. \A row \in RefreshResources(rrows, a, ap, exclusive) : Agrees(row)
  BY <1>1, <1>2 DEF RefreshResources
<1>4. QED
  BY <1>3 DEF ResourcesAgree

\* An appointment that is saved, with its rows refreshed, leaves the rows sound.
LEMMA SaveSound ==
  ASSUME TypeOK, RowsSound, NEW a \in Appointments, NEW ap, ap.life # "none",
         Save(a, ap), UNCHANGED resources
  PROVE  RowsSound'
<1>1. /\ appointments' = [appointments EXCEPT ![a] = ap]
      /\ driverRows' = RefreshDrivers(driverRows, a, ap)
      /\ resourceRows' = RefreshResources(resourceRows, a, ap, Exclusive)
      /\ DriverExclusion(driverRows') /\ ResourceExclusion(resourceRows')
  BY DEF Save, Write
<1>2. Exclusive' = Exclusive
  BY DEF Exclusive
<1>3. DriversAgree(driverRows', appointments')
  BY <1>1, RefreshDriversAgrees DEF RowsSound, TypeOK
<1>4. ResourcesAgree(resourceRows', appointments', Exclusive)
  BY <1>1, RefreshResourcesAgrees DEF RowsSound, TypeOK
<1>5. QED
  BY <1>1, <1>2, <1>3, <1>4 DEF RowsSound

\* So does one that is saved with another team.
LEMMA SaveTeamSound ==
  ASSUME TypeOK, RowsSound, NEW a \in Appointments, NEW ap, ap.life # "none",
         NEW team, SaveTeam(a, ap, team), UNCHANGED resources
  PROVE  RowsSound'
<1>1. /\ appointments' = [appointments EXCEPT ![a] = ap]
      /\ driverRows' = RowsOfOthers(driverRows, a) \cup {DriverRow(a, ap, d) : d \in team.drivers}
      /\ resourceRows' = RowsOfOthers(resourceRows, a) \cup
           {ResourceRow(a, ap, e.resource, e.purpose, Exclusive[e.resource]) : e \in team.equipment}
      /\ DriverExclusion(driverRows') /\ ResourceExclusion(resourceRows')
  BY DEF SaveTeam, Write
<1>2. Exclusive' = Exclusive
  BY DEF Exclusive
<1>3. appointments'[a] = ap
  BY <1>1 DEF TypeOK
<1>4. \A b \in Appointments : b # a => appointments'[b] = appointments[b]
  BY <1>1 DEF TypeOK
<1>5. DriversAgree(driverRows', appointments')
  <2>1. ASSUME NEW row \in RowsOfOthers(driverRows, a)
        PROVE  /\ row = DriverRow(row.appointment, appointments'[row.appointment], row.driver)
               /\ appointments'[row.appointment].life # "none"
    <3>1. row \in driverRows /\ row.appointment # a /\ row.appointment \in Appointments
      BY DEF RowsOfOthers, TypeOK, DriverReservation
    <3>2. QED
      BY <3>1, <1>4 DEF RowsSound, DriversAgree
  <2>2. ASSUME NEW d \in team.drivers
        PROVE  LET row == DriverRow(a, ap, d)
               IN /\ row = DriverRow(row.appointment, appointments'[row.appointment], row.driver)
                  /\ appointments'[row.appointment].life # "none"
    <3>1. DriverRow(a, ap, d).appointment = a /\ DriverRow(a, ap, d).driver = d
      BY DEF DriverRow
    <3>2. QED
      BY <3>1, <1>3
  <2>3. QED
    BY <1>1, <2>1, <2>2 DEF DriversAgree
<1>6. ResourcesAgree(resourceRows', appointments', Exclusive)
  <2> DEFINE Agrees(row) ==
        /\ row = ResourceRow(row.appointment, appointments'[row.appointment], row.resource,
                             row.purpose, row.exclusive)
        /\ row.active => row.exclusive = Exclusive[row.resource]
        /\ appointments'[row.appointment].life # "none"
  <2>1. ASSUME NEW row \in RowsOfOthers(resourceRows, a) PROVE Agrees(row)
    <3>1. row \in resourceRows /\ row.appointment # a /\ row.appointment \in Appointments
      BY DEF RowsOfOthers, TypeOK, ResourceReservation
    <3>2. QED
      BY <3>1, <1>4 DEF RowsSound, ResourcesAgree
  <2>2. ASSUME NEW e \in team.equipment
        PROVE  Agrees(ResourceRow(a, ap, e.resource, e.purpose, Exclusive[e.resource]))
    <3> DEFINE row == ResourceRow(a, ap, e.resource, e.purpose, Exclusive[e.resource])
    <3>1. /\ row.appointment = a /\ row.resource = e.resource /\ row.purpose = e.purpose
          /\ row.exclusive = Exclusive[e.resource]
      BY DEF ResourceRow
    <3>2. QED
      BY <3>1, <1>3
  <2>3. \A row \in resourceRows' : Agrees(row)
    BY <1>1, <2>1, <2>2
  <2>4. QED
    BY <2>3 DEF ResourcesAgree
<1>7. QED
  BY <1>1, <1>2, <1>5, <1>6 DEF RowsSound

\* A step that leaves the rows alone keeps them sound if it keeps the plan of
\* every appointment that has any, and the flag of every resource in use.
SamePlan(ap, aq) ==
  /\ aq.life = ap.life /\ aq.start = ap.start /\ aq.dur = ap.dur
  /\ aq.before = ap.before /\ aq.after = ap.after

\* Rows that do not change stay sound as long as no appointment moves, starts or
\* stops to reserve, and no resource in use changes its exclusive flag.
LEMMA StaySound ==
  ASSUME TypeOK, RowsSound, UNCHANGED <<driverRows, resourceRows>>,
         \A a \in Appointments : Used(a) => SamePlan(appointments[a], appointments'[a]),
         \A row \in resourceRows :
           row.active => Exclusive'[row.resource] = Exclusive[row.resource]
  PROVE  RowsSound'
<1>1. ASSUME NEW ap, NEW aq, SamePlan(ap, aq), NEW a, NEW d
      PROVE  DriverRow(a, aq, d) = DriverRow(a, ap, d)
  BY <1>1 DEF SamePlan, DriverRow, From, To
<1>2. ASSUME NEW ap, NEW aq, SamePlan(ap, aq), NEW a, NEW r, NEW purpose, NEW exclusive
      PROVE  ResourceRow(a, aq, r, purpose, exclusive) = ResourceRow(a, ap, r, purpose, exclusive)
  BY <1>2 DEF SamePlan, ResourceRow, From, To
<1>3. DriversAgree(driverRows', appointments')
  <2> SUFFICES ASSUME NEW row \in driverRows
               PROVE  /\ row = DriverRow(row.appointment, appointments'[row.appointment],
                                         row.driver)
                      /\ appointments'[row.appointment].life # "none"
    BY DEF DriversAgree
  <2>1. /\ row.appointment \in Appointments
        /\ row = DriverRow(row.appointment, appointments[row.appointment], row.driver)
        /\ Used(row.appointment)
    BY DEF TypeOK, DriverReservation, RowsSound, DriversAgree, Used
  <2>2. SamePlan(appointments[row.appointment], appointments'[row.appointment])
    BY <2>1
  <2>3. appointments'[row.appointment].life # "none"
    BY <2>1, <2>2 DEF SamePlan, Used
  <2>4. QED
    BY <2>1, <2>2, <2>3, <1>1
<1>4. ResourcesAgree(resourceRows', appointments', Exclusive')
  <2> SUFFICES ASSUME NEW row \in resourceRows
               PROVE  /\ row = ResourceRow(row.appointment, appointments'[row.appointment],
                                           row.resource, row.purpose, row.exclusive)
                      /\ row.active => row.exclusive = Exclusive'[row.resource]
                      /\ appointments'[row.appointment].life # "none"
    BY DEF ResourcesAgree
  <2>1. /\ row.appointment \in Appointments
        /\ row = ResourceRow(row.appointment, appointments[row.appointment], row.resource,
                             row.purpose, row.exclusive)
        /\ row.active => row.exclusive = Exclusive[row.resource]
        /\ Used(row.appointment)
    BY DEF TypeOK, ResourceReservation, RowsSound, ResourcesAgree, Used
  <2>2. SamePlan(appointments[row.appointment], appointments'[row.appointment])
    BY <2>1
  <2>3. appointments'[row.appointment].life # "none"
    BY <2>1, <2>2 DEF SamePlan, Used
  <2>4. QED
    BY <2>1, <2>2, <2>3, <1>2
<1>5. QED
  BY <1>3, <1>4 DEF RowsSound

-----------------------------------------------------------------------------
(* Every step keeps the rows sound *)

\* Every transaction of the appointment store leaves the rows sound.
LEMMA CommitSound == ASSUME TypeOK, RowsSound, NEW c \in Clients, Commit(c) PROVE RowsSound'
<1> DEFINE call == calls[c]
<1>0. CallsTyped /\ appointments \in [Appointments -> Appointment]
  BY DEF TypeOK, CallsTyped
<1>a. \A op : Take(c, op) => call.op = op
  BY DEF Take
<1>1. ASSUME NEW a \in Appointments, CommitPlan(c, a) PROVE RowsSound'
  <2> DEFINE ap == [NewAppointment(call.job, call.start, call.dur, call.buffer) EXCEPT
                      !.life = "proposal", !.override = call.override, !.version = 3]
  <2>1. SaveTeam(a, ap, call.team) /\ UNCHANGED resources
    BY <1>1 DEF CommitPlan, staff
  <2>2. ap.life = "proposal"
    BY DEF NewAppointment
  <2> HIDE DEF ap
  <2>3. QED
    BY <2>1, <2>2, SaveTeamSound
<1>2. ASSUME CommitAssign(c) PROVE RowsSound'
  <2> DEFINE ap == [Bumped(appointments[call.id]) EXCEPT !.override = call.override]
  <2>1. Take(c, "assign") /\ SaveTeam(call.id, ap, call.team) /\ UNCHANGED resources
    BY <1>2 DEF CommitAssign, staff
  <2>2. call.id \in Appointments
    BY <2>1, <1>0, <1>a, CallFields
  <2>3. ap.life # "none"
    BY <1>2 DEF CommitAssign, Editable
  <2> HIDE DEF ap
  <2>4. QED
    BY <2>1, <2>2, <2>3, SaveTeamSound
<1>3. ASSUME CommitPropose(c) PROVE RowsSound'
  <2> DEFINE ap == [Bumped(appointments[call.id]) EXCEPT !.life = "proposal",
                                                         !.override = call.override]
  <2>1. Take(c, "propose") /\ Save(call.id, ap) /\ UNCHANGED resources
    BY <1>3 DEF CommitPropose, staff
  <2>2. call.id \in Appointments
    BY <2>1, <1>0, <1>a, CallFields
  <2>3. ap.life # "none"
    BY <2>2, <1>0 DEF Bumped, Appointment
  <2> HIDE DEF ap
  <2>4. QED
    BY <2>1, <2>2, <2>3, SaveSound
<1>4. ASSUME NEW reachable \in BOOLEAN, CommitReschedule(c, reachable) PROVE RowsSound'
  <2> DEFINE moved == Rescheduled(appointments[call.id], call)
  <2> DEFINE ap == IF moved.life = "fixed" THEN WithConfirmation(moved, reachable) ELSE moved
  <2>1. /\ Take(c, "reschedule") /\ Save(call.id, ap) /\ UNCHANGED resources
        /\ Editable(moved.life)
    BY <1>4 DEF CommitReschedule, staff
  <2>2. call.id \in Appointments
    BY <2>1, <1>0, <1>a, CallFields
  <2>3. moved \in Appointment
    <3>1. Bumped(appointments[call.id]) \in Appointment
      BY <2>2, <1>0, BumpedType
    <3>2. call.start \in Int /\ call.dur \in Nat \ {0} /\ call.override \in BOOLEAN
      BY <2>1, <1>0, <1>a, CallFields, TimeAssumption
    <3>3. QED
      BY <3>1, <3>2, ChangedType DEF Rescheduled
  <2> HIDE DEF moved
  <2>4. ap.life = moved.life
    BY <2>3 DEF WithConfirmation, Appointment
  <2> HIDE DEF ap
  <2>5. QED
    BY <2>1, <2>2, <2>4, SaveSound DEF Editable
<1>5. ASSUME NEW reachable \in BOOLEAN, CommitFix(c, reachable) PROVE RowsSound'
  <2> DEFINE fixed == [Bumped(appointments[call.id]) EXCEPT !.life = "fixed", !.fixedOnce = TRUE]
  <2> DEFINE ap == WithConfirmation(fixed, reachable)
  <2>1. Take(c, "fix") /\ Save(call.id, ap) /\ UNCHANGED resources
    BY <1>5 DEF CommitFix, staff
  <2>2. call.id \in Appointments
    BY <2>1, <1>0, <1>a, CallFields
  <2>3. ap.life # "none"
    BY <2>2, <1>0 DEF Bumped, WithConfirmation, Appointment
  <2> HIDE DEF ap
  <2>4. QED
    BY <2>1, <2>2, <2>3, SaveSound
<1>6. ASSUME CommitCancel(c) PROVE RowsSound'
  <2> DEFINE ap == [Bumped(appointments[call.id]) EXCEPT !.life = "cancelled",
                                                         !.reasoned = call.reason]
  <2>1. Take(c, "cancel") /\ Save(call.id, ap) /\ UNCHANGED resources
    BY <1>6 DEF CommitCancel, staff
  <2>2. call.id \in Appointments
    BY <2>1, <1>0, <1>a, CallFields
  <2>3. ap.life # "none"
    BY <2>2, <1>0 DEF Bumped, Appointment
  <2> HIDE DEF ap
  <2>4. QED
    BY <2>1, <2>2, <2>3, SaveSound
<1>7. ASSUME CommitReopen(c) PROVE RowsSound'
  <2> DEFINE ap == Reopened(appointments[call.id], call.override)
  <2>1. Take(c, "reopen") /\ Save(call.id, ap) /\ UNCHANGED resources
    BY <1>7 DEF CommitReopen, staff
  <2>2. call.id \in Appointments
    BY <2>1, <1>0, <1>a, CallFields
  <2>3. ap.life # "none"
    BY <2>2, <1>0 DEF Bumped, Reopened, Appointment
  <2> HIDE DEF ap
  <2>4. QED
    BY <2>1, <2>2, <2>3, SaveSound
<1>8. ASSUME CommitComplete(c) PROVE RowsSound'
  <2> DEFINE ap == [Bumped(appointments[call.id]) EXCEPT !.life = "completed"]
  <2>1. Take(c, "complete") /\ Save(call.id, ap) /\ UNCHANGED resources
    BY <1>8 DEF CommitComplete, staff
  <2>2. call.id \in Appointments
    BY <2>1, <1>0, <1>a, CallFields
  <2>3. ap.life # "none"
    BY <2>2, <1>0 DEF Bumped, Appointment
  <2> HIDE DEF ap
  <2>4. QED
    BY <2>1, <2>2, <2>3, SaveSound
<1>9. ASSUME CommitSwap(c) PROVE RowsSound'
  <2> DEFINE a == call.id
             b == call.other
             first == [Bumped(appointments[a]) EXCEPT !.start = appointments[b].start]
             second == [Bumped(appointments[b]) EXCEPT !.start = appointments[a].start]
             apps == [appointments EXCEPT ![a] = first]
             drows == RefreshDrivers(driverRows, a, first)
             rrows == RefreshResources(resourceRows, a, first, Exclusive)
  <2>1. /\ Take(c, "swap") /\ Swappable(first.life) /\ Swappable(second.life)
        /\ appointments' = [apps EXCEPT ![b] = second]
        /\ driverRows' = RefreshDrivers(drows, b, second)
        /\ resourceRows' = RefreshResources(rrows, b, second, Exclusive)
        /\ DriverExclusion(driverRows') /\ ResourceExclusion(resourceRows')
        /\ UNCHANGED resources
    BY <1>9 DEF CommitSwap, Write, staff
  <2>2. a \in Appointments /\ b \in Appointments
    BY <2>1, <1>0, <1>a, CallFields
  <2>3. first \in Appointment /\ second \in Appointment
    <3>1. /\ Bumped(appointments[a]) \in Appointment /\ appointments[a].start \in Int
          /\ Bumped(appointments[b]) \in Appointment /\ appointments[b].start \in Int
      BY <2>2, <1>0, BumpedType DEF Appointment
    <3>2. QED
      BY <3>1, ChangedType
  <2> HIDE DEF a, b, first, second
  <2>4. first.life # "none" /\ second.life # "none"
    BY <2>1 DEF Swappable
  <2>5. apps \in [Appointments -> Appointment]
    BY <2>2, <2>3, <1>0
  <2>6. drows \subseteq DriverReservation /\ rrows \subseteq ResourceReservation
    BY <2>2, <2>3, RefreshType, TypeParts DEF BookingsTyped
  <2>7. DriversAgree(drows, apps) /\ ResourcesAgree(rrows, apps, Exclusive)
    BY <2>2, <2>4, <1>0, RefreshDriversAgrees, RefreshResourcesAgrees DEF RowsSound, TypeOK
  <2> HIDE DEF apps, drows, rrows
  <2>8. /\ DriversAgree(driverRows', appointments')
        /\ ResourcesAgree(resourceRows', appointments', Exclusive)
    BY <2>1, <2>2, <2>4, <2>5, <2>6, <2>7, RefreshDriversAgrees, RefreshResourcesAgrees
  <2>9. Exclusive' = Exclusive
    BY <2>1 DEF Exclusive
  <2>10. QED
    BY <2>1, <2>8, <2>9 DEF RowsSound
<1>10. QED
  BY <1>1, <1>2, <1>3, <1>4, <1>5, <1>6, <1>7, <1>8, <1>9, Commit(c) DEF Commit

\* A new draft has no rows and disturbs none.
LEMMA CreateDraftSound ==
  ASSUME TypeOK, RowsSound, NEW a \in Appointments, NEW j \in Jobs, NEW start, NEW dur, NEW buffer,
         CreateDraft(a, j, start, dur, buffer)
  PROVE  RowsSound'
<1>1. /\ UNCHANGED <<driverRows, resourceRows, resources>> /\ ~Used(a)
      /\ appointments' = [appointments EXCEPT ![a] = NewAppointment(j, start, dur, buffer)]
  BY DEF CreateDraft, Write, staff
<1>2. \A b \in Appointments : Used(b) => SamePlan(appointments[b], appointments'[b])
  BY <1>1 DEF SamePlan, TypeOK
<1>3. QED
  BY <1>1, <1>2, StaySound DEF Exclusive

\* Editing a job touches no time and no lifecycle.
LEMMA UpdateJobSound ==
  ASSUME TypeOK, RowsSound, NEW j \in Jobs, NEW data, UpdateJob(j, data)
  PROVE  RowsSound'
<1>1. UNCHANGED <<driverRows, resourceRows, resources>>
  BY DEF UpdateJob, staff
<1>2. ASSUME NEW a \in Appointments
      PROVE  \/ appointments'[a] = [Bumped(appointments[a]) EXCEPT !.conf = "not_requested"]
             \/ appointments'[a] = appointments[a]
  BY DEF UpdateJob
<1>3. ASSUME NEW a \in Appointments PROVE SamePlan(appointments[a], appointments'[a])
  <2>1. appointments[a] \in Appointment
    BY DEF TypeOK
  <2>2. QED
    BY <1>2, <2>1 DEF SamePlan, Bumped, Appointment
<1>4. QED
  BY <1>1, <1>3, StaySound DEF Exclusive

\* A resource is not edited while it is reserved, so no active row goes stale.
LEMMA ManageStaffSound == ASSUME TypeOK, RowsSound, ManageStaff PROVE RowsSound'
<1>1. UNCHANGED bookings
  BY DEF ManageStaff, DeactivateDriver, UpdateDriver, ChangeAvailability, UpdateResource,
         DeactivateResource
<1>2. \A a \in Appointments : Used(a) => SamePlan(appointments[a], appointments'[a])
  BY <1>1 DEF bookings, SamePlan
<1>3. \A row \in resourceRows : row.resource \in Resources
  BY DEF TypeOK, ResourceReservation
<1>4. ASSUME NEW r \in Resources, NEW edit \in Edits, UpdateResource(r, edit)
      PROVE  \A row \in resourceRows :
               row.active => Exclusive'[row.resource] = Exclusive[row.resource]
  <2> SUFFICES ASSUME NEW row \in resourceRows, row.active
               PROVE  Exclusive'[row.resource] = Exclusive[row.resource]
    OBVIOUS
  <2>1. resources' = [resources EXCEPT ![r].type = edit.type, ![r].exclusive = edit.exclusive]
    BY <1>4 DEF UpdateResource
  <2>2. CASE row.resource = r
    <3>1. Reserving(appointments[row.appointment].life)
      BY DEF RowsSound, ResourcesAgree, ResourceRow
    <3>2. ResourceReserved(r)
      BY <2>2, <3>1 DEF ResourceReserved, Holds
    <3>3. resources[r].exclusive = edit.exclusive
      BY <1>4, <3>2 DEF UpdateResource
    <3>4. QED
      BY <2>1, <2>2, <3>3 DEF Exclusive, TypeOK
  <2>3. CASE row.resource # r
    BY <2>1, <2>3, <1>3 DEF Exclusive, TypeOK
  <2>4. QED
    BY <2>2, <2>3
<1>5. ASSUME NEW r \in Resources, DeactivateResource(r)
      PROVE  Exclusive' = Exclusive
  <2>1. resources' = [resources EXCEPT ![r].active = FALSE]
    BY <1>5 DEF DeactivateResource
  <2>2. \A s \in Resources : resources'[s].exclusive = resources[s].exclusive
    BY <2>1 DEF TypeOK
  <2>3. QED
    BY <2>2 DEF Exclusive
<1>6. (\E d \in Drivers : \/ DeactivateDriver(d)
                          \/ \E canComplete \in BOOLEAN : UpdateDriver(d, canComplete)
                          \/ \E absent \in Absences : ChangeAvailability(d, absent))
      => Exclusive' = Exclusive
  BY DEF DeactivateDriver, UpdateDriver, ChangeAvailability, Exclusive
<1>7. \A row \in resourceRows : row.active => Exclusive'[row.resource] = Exclusive[row.resource]
  BY <1>4, <1>5, <1>6, ManageStaff DEF ManageStaff
<1>8. QED
  BY <1>1, <1>2, <1>7, StaySound DEF bookings

\* Answers change neither the time nor the lifecycle of an appointment.
LEMMA ConfirmSound == ASSUME TypeOK, RowsSound, Confirm PROVE RowsSound'
<1>1. UNCHANGED <<driverRows, resourceRows, resources>>
  BY DEF Confirm, Respond, ResetResponse, Reissue, Expire, bookings, staff
<1>2. ASSUME NEW a \in Appointments, NEW conf, SetConfirmation(a, conf)
      PROVE  \A b \in Appointments : SamePlan(appointments[b], appointments'[b])
  <2>1. appointments[a] \in Appointment /\ appointments \in [Appointments -> Appointment]
    BY DEF TypeOK
  <2>2. appointments' = [appointments EXCEPT ![a] = [Bumped(appointments[a]) EXCEPT !.conf = conf]]
    BY <1>2 DEF SetConfirmation
  <2>3. SamePlan(appointments[a], [Bumped(appointments[a]) EXCEPT !.conf = conf])
    BY <2>1 DEF SamePlan, Bumped, Appointment
  <2>4. QED
    BY <2>1, <2>2, <2>3 DEF SamePlan
<1>3. ASSUME NEW a \in Appointments, Reissue(a)
      PROVE  \A b \in Appointments : SamePlan(appointments[b], appointments'[b])
  <2>1. appointments[a] \in Appointment /\ appointments \in [Appointments -> Appointment]
    BY DEF TypeOK
  <2>2. appointments' =
          [appointments EXCEPT ![a] = WithConfirmation(Bumped(appointments[a]), TRUE)]
    BY <1>3 DEF Reissue
  <2>3. SamePlan(appointments[a], WithConfirmation(Bumped(appointments[a]), TRUE))
    BY <2>1 DEF SamePlan, Bumped, WithConfirmation, Appointment
  <2>4. QED
    BY <2>1, <2>2, <2>3 DEF SamePlan
<1>4. ASSUME NEW a \in Appointments, NEW i, Expire(a, i)
      PROVE  \A b \in Appointments : SamePlan(appointments[b], appointments'[b])
  BY <1>4 DEF Expire, bookings, SamePlan
<1>5. \A b \in Appointments : SamePlan(appointments[b], appointments'[b])
  BY <1>2, <1>3, <1>4, Confirm DEF Confirm, Respond, ResetResponse
<1>6. QED
  BY <1>1, <1>5, StaySound DEF Exclusive

\* A step that leaves bookings and resources alone leaves the rows sound.
LEMMA RestSound ==
  ASSUME TypeOK, RowsSound, UNCHANGED <<bookings, resources>>
  PROVE  RowsSound'
BY DEF RowsSound, DriversAgree, ResourcesAgree, Exclusive, bookings

\* What a client asks changes nothing but the calls in flight.
LEMMA SubmitIsQuiet ==
  ASSUME NEW c \in Clients, Submit(c)
  PROVE  UNCHANGED <<bookings, jobs, staff, requests>>
<1>1. \A call : Ask(c, call) => UNCHANGED <<bookings, jobs, staff, requests>>
  BY DEF Ask
<1>2. ASSUME NEW j, NEW start, NEW dur, NEW buffer, NEW team, NEW override,
             SubmitPlan(c, j, start, dur, buffer, team, override)
      PROVE  UNCHANGED <<bookings, jobs, staff, requests>>
  BY <1>1, <1>2 DEF SubmitPlan
<1>3. ASSUME NEW a, NEW start, NEW dur, NEW override, NEW silent,
             SubmitReschedule(c, a, start, dur, override, silent)
      PROVE  UNCHANGED <<bookings, jobs, staff, requests>>
  BY <1>1, <1>3 DEF SubmitReschedule
<1>4. ASSUME NEW a, NEW at, NEW by, NEW override, SubmitComplete(c, a, at, by, override)
      PROVE  UNCHANGED <<bookings, jobs, staff, requests>>
  BY <1>1, <1>4 DEF SubmitComplete
<1>5. ASSUME NEW a, NEW x, NEW y,
             \/ SubmitAssign(c, a, x, y) \/ SubmitPropose(c, a, x) \/ SubmitFix(c, a, x, y)
             \/ SubmitCancel(c, a, x, y) \/ SubmitReopen(c, a, x) \/ SubmitSwap(c, a, x)
      PROVE  UNCHANGED <<bookings, jobs, staff, requests>>
  BY <1>1, <1>5 DEF SubmitAssign, SubmitPropose, SubmitFix, SubmitCancel, SubmitReopen, SubmitSwap
<1>6. QED
  BY <1>2, <1>3, <1>4, <1>5, Submit(c) DEF Submit

\* There are no rows at first.
LEMMA InitSound == Init => RowsSound
BY DEF Init, RowsSound, DriversAgree, ResourcesAgree, DriverExclusion, ResourceExclusion

\* Every step keeps the rows sound.
LEMMA NextSound == TypeOK /\ RowsSound /\ [Next]_vars => RowsSound'
<1> SUFFICES ASSUME TypeOK, RowsSound, [Next]_vars PROVE RowsSound'
  OBVIOUS
<1>1. ASSUME NEW c \in Clients, Submit(c) PROVE RowsSound'
  BY <1>1, SubmitIsQuiet, RestSound DEF staff
<1>2. ASSUME NEW c \in Clients, Fail(c) PROVE RowsSound'
  BY <1>2, RestSound DEF Fail, staff
<1>3. ASSUME ManageJobs PROVE RowsSound'
  <2>1. ASSUME NEW j \in Jobs, ArchiveJob(j) \/ RemoveWaitlist(j) PROVE RowsSound'
    BY <2>1, RestSound DEF ArchiveJob, RemoveWaitlist, staff
  <2>2. QED
    BY <1>3, <2>1, CreateDraftSound, UpdateJobSound DEF ManageJobs
<1>4. CASE UNCHANGED vars
  BY <1>4, RestSound DEF vars, staff
<1>5. QED
  BY <1>1, <1>2, <1>3, <1>4, CommitSound, ManageStaffSound, ConfirmSound DEF Next

-----------------------------------------------------------------------------
(* The theorems *)

\* Whatever requests race, fail or come late, the reservation rows stay a mirror
\* of the appointments and of the exclusive flags, and the exclusion constraints
\* hold of them: refreshReservations and the guards of resource edits suffice.
THEOREM ReservationsAlwaysSound == Spec => []ReservationsSound
<1>1. Init => TypeOK /\ RowsSound
  BY InitTyped, InitSound
<1>2. (TypeOK /\ RowsSound) /\ [Next]_vars => (TypeOK /\ RowsSound)'
  BY NextTyped, NextSound
<1>3. TypeOK /\ RowsSound => ReservationsSound
  BY SoundParts
<1>4. QED
  BY <1>1, <1>2, <1>3, PTL DEF Spec

\* The rows the exclusion constraints look at never lag behind the appointments.
THEOREM RowsAlwaysMirror == Spec => []RowsMirrorAppointments
<1>1. ReservationsSound => RowsMirrorAppointments
  BY DEF ReservationsSound
<1>2. QED
  BY <1>1, ReservationsAlwaysSound, PTL

\* Sound rows leave no room for a double booking: two reserving appointments that
\* share a driver or an exclusive resource have active rows for it, whose ranges
\* are those of the appointments.
LEMMA SoundMeansDisjoint ==
  ASSUME ReservationsSound, NEW a \in Appointments, NEW b \in Appointments, a # b,
         ReservingNow(a), ReservingNow(b), SharesDriver(a, b) \/ SharesExclusiveResource(a, b)
  PROVE  Disjoint(a, b)
<1> USE DEF ReservationsSound
<1>1. appointments[a] \in Appointment /\ appointments[b] \in Appointment
  BY DEF TypeOK
<1>2. /\ From(appointments[a]) \in Int /\ To(appointments[a]) \in Int
      /\ From(appointments[b]) \in Int /\ To(appointments[b]) \in Int
  BY <1>1 DEF From, To, Appointment
<1>3. CASE SharesDriver(a, b)
  <2>1. PICK d \in CrewOf(a) : d \in CrewOf(b)
    BY <1>3 DEF SharesDriver
  <2>2. PICK r \in driverRows : r.appointment = a /\ r.driver = d
    BY <2>1 DEF CrewOf, RowsOf
  <2>3. PICK s \in driverRows : s.appointment = b /\ s.driver = d
    BY <2>1 DEF CrewOf, RowsOf
  <2>4. r = DriverRow(a, appointments[a], d) /\ s = DriverRow(b, appointments[b], d)
    BY <2>2, <2>3 DEF RowsMirrorAppointments, DriverRowsMirror
  <2>5. r # s /\ r.driver = s.driver /\ r.active /\ s.active
    BY <2>2, <2>3, <2>4 DEF DriverRow, ReservingNow
  <2>6. ~Overlap(r, s)
    BY <2>2, <2>3, <2>5 DEF DriverExclusion
  <2>7. QED
    BY <2>4, <2>6, <1>2 DEF Overlap, DriverRow, Disjoint
<1>4. CASE SharesExclusiveResource(a, b)
  <2>1. PICK e \in EquipmentOf(a), f \in EquipmentOf(b) :
          e.resource = f.resource /\ resources[e.resource].exclusive
    BY <1>4 DEF SharesExclusiveResource
  <2>2. PICK r \in resourceRows : r.appointment = a /\ r.resource = e.resource
    BY <2>1 DEF EquipmentOf, RowsOf
  <2>3. PICK s \in resourceRows : s.appointment = b /\ s.resource = f.resource
    BY <2>1 DEF EquipmentOf, RowsOf
  <2>4. /\ r = ResourceRow(a, appointments[a], r.resource, r.purpose, r.exclusive)
        /\ s = ResourceRow(b, appointments[b], s.resource, s.purpose, s.exclusive)
        /\ r.active => r.exclusive = resources[r.resource].exclusive
        /\ s.active => s.exclusive = resources[s.resource].exclusive
    BY <2>2, <2>3 DEF RowsMirrorAppointments, ResourceRowsMirror
  <2>5. r # s /\ r.resource = s.resource /\ r.active /\ s.active
    BY <2>1, <2>2, <2>3, <2>4 DEF ResourceRow, ReservingNow
  <2>6. r.exclusive /\ s.exclusive
    BY <2>1, <2>2, <2>3, <2>4, <2>5
  <2>7. ~Overlap(r, s)
    BY <2>2, <2>3, <2>5, <2>6 DEF ResourceExclusion
  <2>8. /\ r.from = From(appointments[a]) /\ r.to = To(appointments[a])
        /\ s.from = From(appointments[b]) /\ s.to = To(appointments[b])
    BY <2>4 DEF ResourceRow
  <2>9. QED
    BY <2>7, <2>8, <1>2 DEF Overlap, Disjoint
<1>5. QED
  BY <1>3, <1>4

\* No driver and no exclusive resource is ever promised to two appointments at
\* overlapping times, buffers included, for any number of clients, appointments,
\* drivers and resources.
THEOREM NeverDoublyBooked == Spec => []NoDoubleBooking
<1>1. ReservationsSound => NoDoubleBooking
  BY SoundMeansDisjoint DEF NoDoubleBooking
<1>2. QED
  BY <1>1, ReservationsAlwaysSound, PTL
=============================================================================
