--------------------------- MODULE PlanningProofs ---------------------------
(***************************************************************************)
(* Theorems about Planning for every choice of its constants: the types of *)
(* runs and routes, the absence of double bookings when suggestions are    *)
(* adopted and routes assigned among all other operations, and that all of *)
(* them together still implement the calendar.                             *)
(*                                                                         *)
(* Adopting and assigning make of an appointment what View of SafetyProofs *)
(* lists: they leave it alone or create it vetted.  So what is proved of   *)
(* the single appointment there holds here too.  That they vet what they   *)
(* create, and that a suggestion can still be reached in time, rests on    *)
(* what stale runs and stops are kept from (PlansCurrent).                 *)
(***************************************************************************)
EXTENDS Planning, SafetyProofs, WellFoundedInduction

-----------------------------------------------------------------------------
(* Types *)

SuggestionType == [start : Int, dur : Nat \ {0}, team : Team]
Fingerprint ==
  [drivers : SUBSET (Drivers \X BOOLEAN), absences : SUBSET (Drivers \X Int),
   resources : SUBSET (Resources \X ResourceTypes \X BOOLEAN),
   reservations : SUBSET (Appointments \X Nat \X Int \X Int \X
                            (SUBSET Drivers) \X (SUBSET Resources) \X JobData)]
RunRecord ==
  [step : {"loaded", "saved"}, job : Jobs, routed : BOOLEAN, pending : SUBSET SuggestionType,
   inputs : Fingerprint, calm : BOOLEAN]
RunType == {NoRun, Stale, Adopted} \cup RunRecord

Stop ==
  [job : Jobs, start : Int, dur : Nat \ {0}, fresh : BOOLEAN,
   appointment : Appointments \cup {Nothing}]
RouteRecord ==
  [status : {"draft", "assigned"}, driver : Drivers, chipper : Resources \cup {Nothing},
   transport : Resources \cup {Nothing}, departure : Int, end : Jobs \cup {Nothing},
   stops : Seq(Stop)]
RouteType == {NoRoute} \cup RouteRecord

PlansTyped == runs \in [Runs -> RunType] /\ routes \in [Routes -> RouteType]

\* What is known of a run by its step and of a route by its status.
LEMMA RunCases ==
  ASSUME NEW run \in RunType, run.step \in {"loaded", "saved"}
  PROVE  run \in RunRecord
BY DEF RunType, NoRun, Stale, Adopted

\* A route with a status has all its columns.
LEMMA RouteCases ==
  ASSUME NEW route \in RouteType, route.status \in {"draft", "assigned"}
  PROVE  route \in RouteRecord
BY DEF RouteType, NoRoute

\* A function over the indices of a sequence is a sequence.
LEMMA MappedSeq ==
  ASSUME NEW S, NEW T, NEW list \in Seq(S), NEW f \in [DOMAIN list -> T]
  PROVE  f \in Seq(T)
<1>1. Len(list) \in Nat /\ DOMAIN list = 1 .. Len(list)
  BY LenProperties
<1>2. f = [i \in 1 .. Len(list) |-> f[i]] /\ \A i \in 1 .. Len(list) : f[i] \in T
  BY <1>1
<1>3. QED
  BY <1>1, <1>2, IsASeq

\* Work takes time: no job is done in no slots.
LEMMA WorkTakesTime ==
  ASSUME JobsTyped, NEW j \in Jobs
  PROVE  jobs[j].data.minutes \in Nat \ {0}
<1>1. jobs[j].data \in JobData
  BY DEF JobsTyped
<1>2. QED
  BY <1>1, InputAssumption, PlanningAssumption

-----------------------------------------------------------------------------
(* Runs and routes keep their types *)

\* Growing old keeps the type of a run and of a route.
LEMMA AgedRunTyped == ASSUME NEW run \in RunType PROVE AgedRun(run) \in RunType
BY DEF AgedRun, RunType

\* Stops that are no longer fresh are stops.
LEMMA AgedStopsTyped == ASSUME NEW stops \in Seq(Stop) PROVE AgedStops(stops) \in Seq(Stop)
<1>1. ASSUME NEW i \in DOMAIN stops, NEW flag \in BOOLEAN
      PROVE  [stops[i] EXCEPT !.fresh = flag] \in Stop
  <2>1. stops[i] \in Stop
    BY LenProperties, ElementOfSeq
  <2>2. QED
    BY <2>1 DEF Stop
<1>2. \A i \in DOMAIN stops : (stops[i].fresh /\ JobUnchanged(stops[i].job)) \in BOOLEAN
  OBVIOUS
<1>3. AgedStops(stops) \in [DOMAIN stops -> Stop]
  BY <1>1, <1>2 DEF AgedStops
<1>4. QED
  BY <1>3, MappedSeq

\* So are the stops of a draft whose jobs changed.
LEMMA AgedRouteTyped == ASSUME NEW route \in RouteType PROVE AgedRoute(route) \in RouteType
<1>1. CASE route.status # "draft"
  BY <1>1 DEF AgedRoute
<1>2. CASE route.status = "draft"
  <2>1. route \in RouteRecord
    BY <1>2, RouteCases
  <2>2. AgedStops(route.stops) \in Seq(Stop)
    BY <2>1, AgedStopsTyped DEF RouteRecord
  <2>3. QED
    BY <1>2, <2>1, <2>2 DEF AgedRoute, RouteType, RouteRecord
<1>3. QED
  BY <1>1, <1>2

\* What a change of the tables does to runs and routes keeps their types.
LEMMA AgeTyped ==
  ASSUME NEW someRuns \in [Runs -> RunType], NEW someRoutes \in [Routes -> RouteType],
         Age(someRuns, someRoutes)
  PROVE  PlansTyped'
BY AgedRunTyped, AgedRouteTyped DEF Age, PlansTyped

\* What is computed for a job is a well-formed suggestion.
LEMMA CandidatesTyped ==
  ASSUME TypeOK, NEW j \in Jobs, NEW routed
  PROVE  Candidates(j, routed) \subseteq SuggestionType
<1>1. ASSUME NEW equipment \in Choices(jobs[j].data)
      PROVE  equipment \subseteq [resource : Resources, purpose : Purposes]
  BY <1>1 DEF Choices, Purposes
<1>2. jobs[j].data.minutes + PlanningBuffer \in Nat \ {0}
  BY WorkTakesTime, TypeParts, PlanningAssumption
<1>3. ASSUME NEW start \in Starts, NEW d \in Drivers, NEW equipment \in Choices(jobs[j].data)
      PROVE  Suggestion(start, jobs[j].data, d, equipment) \in SuggestionType
  BY <1>1, <1>2, TimeAssumption DEF Suggestion, SuggestionType, Team
<1>4. QED
  BY <1>3 DEF Candidates

\* The stops of a route stay stops when they are given their times.
LEMMA ScheduledTyped ==
  ASSUME NEW stops \in Seq(Stop), NEW departure, NEW timed \in Scheduled(departure, stops)
  PROVE  timed \in Seq(Stop)
<1>1. PICK starts \in [DOMAIN stops -> Times] : timed = At(stops, starts)
  BY DEF Scheduled
<1>2. ASSUME NEW i \in DOMAIN stops
      PROVE  [stops[i] EXCEPT !.start = starts[i]] \in Stop
  <2>1. stops[i] \in Stop /\ starts[i] \in Int
    BY <1>1, LenProperties, ElementOfSeq, PlanningAssumption
  <2>2. QED
    BY <2>1 DEF Stop
<1>3. timed \in [DOMAIN stops -> Stop]
  BY <1>1, <1>2 DEF At
<1>4. QED
  BY <1>3, MappedSeq

\* A fingerprint lists rows of the tables.
LEMMA InputsTyped == ASSUME TypeOK PROVE Inputs \in Fingerprint
<1>1. /\ \A d \in Drivers : drivers[d].canComplete \in BOOLEAN /\ drivers[d].absent \subseteq Int
      /\ \A r \in Resources :
           resources[r].type \in ResourceTypes /\ resources[r].exclusive \in BOOLEAN
  BY TypeParts, TimeAssumption DEF DriversTyped, ResourcesTyped
<1>2. ASSUME NEW a \in Appointments
      PROVE  /\ appointments[a].version \in Nat
             /\ From(appointments[a]) \in Int /\ To(appointments[a]) \in Int
             /\ CrewOf(a) \subseteq Drivers /\ {e.resource : e \in EquipmentOf(a)} \subseteq Resources
             /\ DataOf(appointments[a]) \in JobData
  <2>1. appointments[a] \in Appointment /\ appointments[a].job \in Jobs
    BY JobType, TypeParts DEF BookingsTyped
  <2>2. DataOf(appointments[a]) \in JobData
    BY <2>1, TypeParts DEF JobsTyped, DataOf
  <2>3. appointments[a].version \in Nat
    BY <2>1 DEF Appointment
  <2>4. From(appointments[a]) \in Int /\ To(appointments[a]) \in Int
    BY <2>1 DEF Appointment, From, To
  <2>5. CrewOf(a) \subseteq Drivers /\ {e.resource : e \in EquipmentOf(a)} \subseteq Resources
    BY TypeParts DEF BookingsTyped, CrewOf, EquipmentOf, RowsOf, DriverReservation,
                     ResourceReservation
  <2>6. QED
    BY <2>2, <2>3, <2>4, <2>5
<1>3. Held \subseteq Appointments
  BY DEF Held
<1>4. Inputs.drivers \subseteq Drivers \X BOOLEAN /\ Inputs.absences \subseteq Drivers \X Int
  BY <1>1 DEF Inputs
<1>5. Inputs.resources \subseteq Resources \X ResourceTypes \X BOOLEAN
  BY <1>1 DEF Inputs
<1>6. Inputs.reservations \subseteq Appointments \X Nat \X Int \X Int \X
                                   (SUBSET Drivers) \X (SUBSET Resources) \X JobData
  BY <1>2, <1>3 DEF Inputs
<1>7. QED
  BY <1>4, <1>5, <1>6 DEF Inputs, Fingerprint

\* Steps that touch no appointment keep the types of runs and routes.
LEMMA LoadTyped ==
  ASSUME TypeOK, PlansTyped, NEW g \in Runs, NEW j \in Jobs, NEW routed \in BOOLEAN,
         Load(g, j, routed)
  PROVE  PlansTyped'
<1>1. PICK chosen \in SUBSET Candidates(j, routed) :
        runs' = [runs EXCEPT ![g] =
          [step |-> "loaded", job |-> j, routed |-> routed, pending |-> chosen,
           inputs |-> Inputs, calm |-> TRUE]]
  BY DEF Load
<1>2. chosen \subseteq SuggestionType /\ Inputs \in Fingerprint
  BY CandidatesTyped, InputsTyped
<1>3. [step |-> "loaded", job |-> j, routed |-> routed, pending |-> chosen,
       inputs |-> Inputs, calm |-> TRUE] \in RunType
  BY <1>2 DEF RunType, RunRecord
<1>4. QED
  BY <1>1, <1>3 DEF PlansTyped, Load

\* What storing a run makes of it.
LEMMA SavedRun ==
  ASSUME PlansTyped, NEW g \in Runs, SaveRun(g)
  PROVE  /\ runs[g] \in RunRecord /\ runs[g].step = "loaded"
         /\ runs' = [runs EXCEPT ![g] =
              [runs[g] EXCEPT !.step = "saved", !.inputs = Inputs,
                              !.calm = runs[g].inputs = Inputs]]
         /\ UNCHANGED <<vars, routes>>
BY RunCases DEF SaveRun, PlansTyped

\* Storing a run keeps its suggestions.
LEMMA SaveRunTyped ==
  ASSUME TypeOK, PlansTyped, NEW g \in Runs, SaveRun(g)
  PROVE  PlansTyped'
<1>1. runs[g] \in RunRecord /\ Inputs \in Fingerprint
  BY SavedRun, InputsTyped
<1>2. (runs[g].inputs = Inputs) \in BOOLEAN
  OBVIOUS
<1>3. ASSUME NEW flag \in BOOLEAN
      PROVE  [runs[g] EXCEPT !.step = "saved", !.inputs = Inputs, !.calm = flag] \in RunType
  BY <1>1 DEF RunRecord, RunType
<1>4. QED
  BY <1>2, <1>3, SavedRun DEF PlansTyped

\* A planned route has well-formed stops that take time.
LEMMA PlanRouteTyped ==
  ASSUME TypeOK, PlansTyped, NEW t \in Routes, NEW d \in Drivers,
         NEW chipper \in Resources \cup {Nothing}, NEW transport \in Resources \cup {Nothing},
         NEW departure \in Departures, NEW order \in Orders, NEW endAtLastStop \in BOOLEAN,
         PlanRoute(t, d, chipper, transport, departure, order, endAtLastStop)
  PROVE  PlansTyped'
<1>1. PICK n \in 1 .. MaxStops : order \in [1 .. n -> Jobs]
  BY DEF Orders
<1>2. order \in Seq(Jobs) /\ Len(order) = n /\ n \in Nat
  BY <1>1, PlanningAssumption
<1>3. [i \in DOMAIN order |-> NewStop(order[i])] \in Seq(Stop)
  <2>1. ASSUME NEW i \in DOMAIN order PROVE NewStop(order[i]) \in Stop
    <3>1. order[i] \in Jobs
      BY <1>1
    <3>2. jobs[order[i]].data.minutes \in Nat \ {0}
      BY <3>1, WorkTakesTime, TypeParts
    <3>3. QED
      BY <3>1, <3>2 DEF NewStop, Stop
  <2>2. [i \in DOMAIN order |-> NewStop(order[i])] \in [DOMAIN order -> Stop]
    BY <2>1
  <2>3. QED
    BY <2>2, <1>2, MappedSeq
<1>4. (IF endAtLastStop THEN order[Len(order)] ELSE Nothing) \in Jobs \cup {Nothing}
  BY <1>1, <1>2
<1>5. PICK stops \in Scheduled(departure, [i \in DOMAIN order |-> NewStop(order[i])]) :
        routes' = [routes EXCEPT ![t] =
          [status |-> "draft", driver |-> d, chipper |-> chipper, transport |-> transport,
           departure |-> departure,
           end |-> IF endAtLastStop THEN order[Len(order)] ELSE Nothing,
           stops |-> stops]]
  BY DEF PlanRoute
<1>6. stops \in Seq(Stop) /\ departure \in Int
  BY <1>3, <1>5, ScheduledTyped, PlanningAssumption
<1>7. routes'[t] \in RouteType
  BY <1>4, <1>5, <1>6 DEF RouteType, RouteRecord, PlansTyped
<1>8. QED
  BY <1>5, <1>7 DEF PlansTyped, PlanRoute

\* A route that is given other stops is a route.
LEMMA WithStopsTyped ==
  ASSUME NEW route \in RouteRecord, NEW stops \in Seq(Stop), NEW after \in WithStops(route, stops)
  PROVE  after \in RouteType
<1>1. PICK timed \in Scheduled(route.departure, stops) : after = [route EXCEPT !.stops = timed]
  BY DEF WithStops
<1>2. timed \in Seq(Stop)
  BY <1>1, ScheduledTyped
<1>3. QED
  BY <1>1, <1>2 DEF RouteType, RouteRecord

\* Leaving out a stop leaves the others.
LEMMA WithoutTyped ==
  ASSUME NEW S, NEW stops \in Seq(S), NEW i \in DOMAIN stops
  PROVE  Without(stops, i) \in Seq(S) /\ Len(Without(stops, i)) = Len(stops) - 1
<1>1. /\ Len(stops) \in Nat /\ DOMAIN stops = 1 .. Len(stops)
      /\ \A k \in 1 .. Len(stops) : stops[k] \in S
  BY LenProperties, ElementOfSeq
<1>2. SubSeq(stops, 1, i - 1) \in Seq(S) /\ Len(SubSeq(stops, 1, i - 1)) = i - 1
  BY <1>1, SubSeqProperties
<1>3. /\ SubSeq(stops, i + 1, Len(stops)) \in Seq(S)
      /\ Len(SubSeq(stops, i + 1, Len(stops))) = Len(stops) - i
  BY <1>1, SubSeqProperties
<1>4. /\ Without(stops, i) \in Seq(S)
      /\ Len(Without(stops, i)) =
           Len(SubSeq(stops, 1, i - 1)) + Len(SubSeq(stops, i + 1, Len(stops)))
  BY <1>2, <1>3, ConcatProperties DEF Without
<1>5. i \in Int /\ Len(stops) \in Int /\ \A m, n \in Int : (m - 1) + (n - m) = n - 1
  BY <1>1
<1>6. Len(Without(stops, i)) = (i - 1) + (Len(stops) - i)
  BY <1>2, <1>3, <1>4
<1>7. QED
  BY <1>4, <1>5, <1>6, Zenon

\* Moving a stop between two drafts keeps their types.
LEMMA MoveDraftStopTyped ==
  ASSUME PlansTyped, NEW t \in Routes, NEW u \in Routes, NEW i \in DOMAIN routes[t].stops,
         MoveDraftStop(t, u, i)
  PROVE  PlansTyped'
<1>1. routes[t] \in RouteRecord /\ routes[u] \in RouteRecord
  BY RouteCases DEF MoveDraftStop, IsDraft, PlansTyped
<1>2. routes[t].stops \in Seq(Stop) /\ routes[u].stops \in Seq(Stop)
  BY <1>1 DEF RouteRecord
<1>3. routes[t].stops[i] \in Stop
  BY <1>2, LenProperties, ElementOfSeq
<1>4. Without(routes[t].stops, i) \in Seq(Stop)
  BY <1>2, WithoutTyped
<1>5. Append(routes[u].stops, routes[t].stops[i]) \in Seq(Stop)
  BY <1>2, <1>3
<1>6. PICK left \in WithStops(routes[t], Without(routes[t].stops, i)),
           joined \in WithStops(routes[u], Append(routes[u].stops, routes[t].stops[i])) :
        routes' = [routes EXCEPT ![t] = left, ![u] = joined]
  BY DEF MoveDraftStop
<1>7. left \in RouteType /\ joined \in RouteType
  BY <1>1, <1>4, <1>5, <1>6, WithStopsTyped
<1>8. QED
  BY <1>6, <1>7 DEF PlansTyped, MoveDraftStop

\* So does another order of the stops of an assigned route.
LEMMA ReorderOwnTyped ==
  ASSUME PlansTyped, NEW t \in Routes, NEW order \in Permuted(t), ReorderOwn(t, order)
  PROVE  PlansTyped'
<1>1. routes[t] \in RouteRecord
  BY RouteCases DEF ReorderOwn, PlansTyped
<1>2. routes[t].stops \in Seq(Stop)
  BY <1>1 DEF RouteRecord
<1>3. \A i \in DOMAIN routes[t].stops : routes[t].stops[i] \in Stop
  BY <1>2, LenProperties, ElementOfSeq
<1>4. [i \in DOMAIN routes[t].stops |-> routes[t].stops[order[i]]]
        \in [DOMAIN routes[t].stops -> Stop]
  BY <1>3 DEF Permuted
<1>5. [i \in DOMAIN routes[t].stops |-> routes[t].stops[order[i]]] \in Seq(Stop)
  BY <1>2, <1>4, MappedSeq
<1>6. [routes[t] EXCEPT !.stops =
         [i \in DOMAIN routes[t].stops |-> routes[t].stops[order[i]]]] \in RouteType
  BY <1>1, <1>5 DEF RouteType, RouteRecord
<1>7. QED
  BY <1>6 DEF ReorderOwn, PlansTyped

-----------------------------------------------------------------------------
(* Adopting a suggestion and assigning a route *)

\* What a suggestion or a stop becomes is an appointment that reserves.
LEMMA ProposalType ==
  ASSUME NEW j \in Jobs, NEW start \in Int, NEW dur \in Nat \ {0},
         NEW buffer \in [before : Nat, after : Nat]
  PROVE  /\ Proposal(j, start, dur, buffer) \in Appointment
         /\ Proposal(j, start, dur, buffer).life = "proposal"
BY DEF Proposal, NewAppointment, Appointment, Lifecycles, Confirmations

\* Adopting a suggestion creates one sound reservation.
LEMMA AdoptKeeps ==
  ASSUME TypeOK, RowsSound, PlansTyped, NEW g \in Runs, NEW s \in runs[g].pending,
         NEW a \in Appointments, Adopt(g, s, a)
  PROVE  (TypeOK /\ RowsSound /\ PlansTyped)'
<1> DEFINE ap == Proposal(runs[g].job, s.start, s.dur, [before |-> 0, after |-> 0])
<1>1. runs[g] \in RunRecord
  BY RunCases DEF Adopt, PlansTyped
<1>2. runs[g].job \in Jobs /\ s \in SuggestionType
  BY <1>1 DEF RunRecord
<1>3. s.start \in Int /\ s.dur \in Nat \ {0} /\ s.team \in Team
  BY <1>2 DEF SuggestionType
<1>4. ap \in Appointment /\ ap.life = "proposal"
  BY <1>2, <1>3, ProposalType
<1>5. /\ SaveTeam(a, ap, s.team)
      /\ SetWorkflow(runs[g].job, "planning", TRUE)
      /\ UNCHANGED <<staff, requests, calls>>
      /\ Age([runs EXCEPT ![g] = Adopted], routes)
  BY DEF Adopt
<1> HIDE DEF ap
<1>6. TypeOK'
  <2>1. BookingsTyped'
    BY <1>3, <1>4, <1>5, TypeParts, SaveTeamType
  <2>2. JobsTyped'
    BY <1>2, <1>5, TypeParts, SetWorkflowType DEF Workflows
  <2>3. DriversTyped' /\ ResourcesTyped' /\ RequestsTyped' /\ CallsTyped'
    BY <1>5, TypeParts DEF DriversTyped, ResourcesTyped, RequestsTyped, CallsTyped, staff
  <2>4. QED
    BY <2>1, <2>2, <2>3 DEF TypeOK, BookingsTyped, JobsTyped, DriversTyped, ResourcesTyped,
                            RequestsTyped, CallsTyped
<1>7. RowsSound'
  BY <1>4, <1>5, SaveTeamSound DEF staff
<1>8. PlansTyped'
  <2>1. [runs EXCEPT ![g] = Adopted] \in [Runs -> RunType]
    BY DEF PlansTyped, RunType
  <2>2. QED
    BY <1>5, <2>1, AgeTyped DEF PlansTyped
<1>9. QED
  BY <1>6, <1>7, <1>8

\* The stops of a route become appointments of the same jobs, the way there and
\* the way back included.
LEMMA StopProposalType ==
  ASSUME NEW route \in RouteRecord, NEW i \in DOMAIN route.stops
  PROVE  StopProposal(route, i) \in Appointment /\ StopProposal(route, i).life = "proposal"
<1>1. route.stops[i] \in Stop
  BY LenProperties, ElementOfSeq DEF RouteRecord
<1>2. [before |-> Travel, after |-> IF i = Len(route.stops) THEN Return(route) ELSE 0]
        \in [before : Nat, after : Nat]
  BY PlanningAssumption DEF Return
<1>3. QED
  BY <1>1, <1>2, ProposalType DEF StopProposal, Stop

\* New appointments, planned as plan says, and rows written from them.
Adds(created, plan, drows, rrows) ==
  /\ created \subseteq Appointments
  /\ \A a \in created : ~Used(a) /\ plan[a].life = "proposal"
  /\ appointments' =
       [a \in Appointments |-> IF a \in created THEN plan[a] ELSE appointments[a]]
  /\ \A row \in drows : \E a \in created, d \in Drivers : row = DriverRow(a, plan[a], d)
  /\ driverRows' = driverRows \cup drows
  /\ \A row \in rrows : \E a \in created, r \in Resources, purpose \in Purposes :
       row = ResourceRow(a, plan[a], r, purpose, Exclusive[r])
  /\ resourceRows' = resourceRows \cup rrows
  /\ DriverExclusion(driverRows') /\ ResourceExclusion(resourceRows')

\* They leave the rows sound.
LEMMA AddedSound ==
  ASSUME TypeOK, RowsSound, UNCHANGED resources, NEW created, NEW plan, NEW drows, NEW rrows,
         Adds(created, plan, drows, rrows)
  PROVE  RowsSound'
<1> USE DEF Adds
<1>1. \A a \in Appointments : Used(a) => appointments'[a] = appointments[a]
  OBVIOUS
<1>2. \A a \in created : appointments'[a] = plan[a]
  OBVIOUS
<1>3. Exclusive' = Exclusive
  BY DEF Exclusive
<1>4. DriversAgree(driverRows', appointments')
  <2> DEFINE Agrees(row) ==
        /\ row = DriverRow(row.appointment, appointments'[row.appointment], row.driver)
        /\ appointments'[row.appointment].life # "none"
  <2>1. ASSUME NEW row \in driverRows PROVE Agrees(row)
    <3>1. row.appointment \in Appointments /\ Used(row.appointment)
      BY DEF TypeOK, DriverReservation, RowsSound, DriversAgree, Used
    <3>2. QED
      BY <1>1, <3>1 DEF RowsSound, DriversAgree
  <2>2. ASSUME NEW row \in drows PROVE Agrees(row)
    <3>1. PICK a \in created, d \in Drivers : row = DriverRow(a, plan[a], d)
      OBVIOUS
    <3>2. row.appointment = a /\ row.driver = d
      BY <3>1 DEF DriverRow
    <3>3. QED
      BY <1>2, <3>1, <3>2
  <2>3. QED
    BY <2>1, <2>2 DEF DriversAgree
<1>5. ResourcesAgree(resourceRows', appointments', Exclusive)
  <2> DEFINE Agrees(row) ==
        /\ row = ResourceRow(row.appointment, appointments'[row.appointment], row.resource,
                             row.purpose, row.exclusive)
        /\ row.active => row.exclusive = Exclusive[row.resource]
        /\ appointments'[row.appointment].life # "none"
  <2>1. ASSUME NEW row \in resourceRows PROVE Agrees(row)
    <3>1. row.appointment \in Appointments /\ Used(row.appointment)
      BY DEF TypeOK, ResourceReservation, RowsSound, ResourcesAgree, Used
    <3>2. QED
      BY <1>1, <3>1 DEF RowsSound, ResourcesAgree
  <2>2. ASSUME NEW row \in rrows PROVE Agrees(row)
    <3>1. PICK a \in created, r \in Resources, purpose \in Purposes :
            row = ResourceRow(a, plan[a], r, purpose, Exclusive[r])
      OBVIOUS
    <3>2. /\ row.appointment = a /\ row.resource = r /\ row.purpose = purpose
          /\ row.exclusive = Exclusive[r]
      BY <3>1 DEF ResourceRow
    <3>3. QED
      BY <1>2, <3>1, <3>2
  <2>3. QED
    BY <2>1, <2>2 DEF ResourcesAgree
<1>6. QED
  BY <1>3, <1>4, <1>5 DEF RowsSound

\* In the calendar they are booked together.
LEMMA AddedIsBooking ==
  ASSUME Sound, Sound', UNCHANGED resources, NEW created, NEW plan, NEW drows, NEW rrows,
         Adds(created, plan, drows, rrows)
  PROVE  [Promises!Next]_Bookings
<1> USE DEF Adds
<1>1. Promises!ClashFree'
  BY SoundMeansClashFree, PTL
<1>2. ASSUME NEW b \in Appointments, b \notin created PROVE BookingOf(b)' = BookingOf(b)
  <2>1. SamePlan(appointments[b], appointments'[b])
    BY <1>2 DEF SamePlan
  <2>2. \A row \in drows : row.appointment # b
    BY <1>2 DEF DriverRow
  <2>3. \A row \in rrows : row.appointment # b
    BY <1>2 DEF ResourceRow
  <2>4. /\ RowsOf(driverRows', b) = RowsOf(driverRows, b)
        /\ RowsOf(resourceRows', b) = RowsOf(resourceRows, b)
    BY <2>2, <2>3 DEF RowsOf
  <2>5. QED
    BY <2>1, <2>4, BookingKept
<1>3. ASSUME NEW a \in created PROVE a \in Appointments /\ ~ReservingNow(a) /\ ReservingNow(a)'
  BY DEF Used, ReservingNow, Reserving
<1>4. Promises!Book(created)
  BY <1>2, <1>3 DEF Promises!Book, Promises!Taken, Promises!OthersKept, BookingOf
<1>5. created \in SUBSET Appointments
  OBVIOUS
<1>6. QED
  BY <1>1, <1>4, <1>5 DEF Promises!Next

\* Assigning a route creates as many sound reservations as it has stops.
LEMMA AssignRouteKeeps ==
  ASSUME TypeOK, RowsSound, PlansTyped, NEW t \in Routes, NEW place \in Placements(t),
         AssignRoute(t, place)
  PROVE  /\ (TypeOK /\ RowsSound /\ PlansTyped)'
         /\ UNCHANGED resources
         /\ \E created, plan, drows, rrows : Adds(created, plan, drows, rrows)
<1> DEFINE route == routes[t]
           team == TeamOfRoute(route)
           of(a) == CHOOSE i \in DOMAIN route.stops : place[i] = a
           created == {place[i] : i \in DOMAIN place}
           plan == [a \in created |-> StopProposal(route, of(a))]
           drows == {DriverRow(a, plan[a], route.driver) : a \in created}
           rrows == {ResourceRow(a, plan[a], e.resource, e.purpose, Exclusive[e.resource]) :
                       a \in created, e \in team.equipment}
<1>1. route \in RouteRecord
  BY RouteCases DEF AssignRoute, IsDraft, PlansTyped
<1>2. place \in [DOMAIN route.stops -> Appointments]
  BY DEF Placements
<1>3. created \subseteq Appointments
  BY <1>2
<1>4. ASSUME NEW a \in created PROVE of(a) \in DOMAIN route.stops /\ place[of(a)] = a
  <2>1. \E i \in DOMAIN route.stops : place[i] = a
    BY <1>2
  <2>2. QED
    BY <2>1
<1>5. \A i \in DOMAIN route.stops : ~Used(place[i])
  BY DEF AssignRoute
<1>6. \A a \in created : ~Used(a)
  BY <1>2, <1>5
<1>7. \A a \in created : plan[a] \in Appointment /\ plan[a].life = "proposal"
  BY <1>1, <1>4, StopProposalType
<1>8. /\ appointments' = [a \in Appointments |->
           IF a \in created THEN StopProposal(route, of(a)) ELSE appointments[a]]
      /\ driverRows' = driverRows \cup
           {DriverRow(a, StopProposal(route, of(a)), route.driver) : a \in created}
      /\ resourceRows' = resourceRows \cup
           {ResourceRow(a, StopProposal(route, of(a)), e.resource, e.purpose,
                        Exclusive[e.resource]) : a \in created, e \in team.equipment}
      /\ DriverExclusion(driverRows') /\ ResourceExclusion(resourceRows')
      /\ SetWorkflowOfStops(route)
      /\ UNCHANGED <<staff, requests, calls>>
      /\ Age(runs, [routes EXCEPT ![t] =
           [route EXCEPT !.status = "assigned",
                         !.stops = [i \in DOMAIN @ |-> [@[i] EXCEPT !.appointment = place[i]]]]])
  BY DEF AssignRoute, Write
<1>9. /\ appointments' = [a \in Appointments |->
           IF a \in created THEN plan[a] ELSE appointments[a]]
      /\ driverRows' = driverRows \cup drows
      /\ resourceRows' = resourceRows \cup rrows
  <2>1. \A a \in created : plan[a] = StopProposal(route, of(a))
    OBVIOUS
  <2> HIDE DEF plan, created, of, route, team
  <2>2. appointments' = [a \in Appointments |->
          IF a \in created THEN plan[a] ELSE appointments[a]]
    BY <1>8, <2>1
  <2>3. /\ {DriverRow(a, StopProposal(route, of(a)), route.driver) : a \in created} = drows
        /\ {ResourceRow(a, StopProposal(route, of(a)), e.resource, e.purpose,
                        Exclusive[e.resource]) : a \in created, e \in team.equipment} = rrows
    BY <2>1
  <2>4. QED
    BY <1>8, <2>2, <2>3
<1>10. route.driver \in Drivers /\ team.equipment \subseteq [resource : Resources, purpose : Purposes]
  BY <1>1 DEF RouteRecord, TeamOfRoute, Purposes
<1>11. \A e \in team.equipment : /\ e.resource \in Resources /\ e.purpose \in Purposes
                                 /\ Exclusive[e.resource] \in BOOLEAN
  BY <1>10 DEF TypeOK, Exclusive
<1>12. /\ \A row \in drows : \E a \in created, d \in Drivers : row = DriverRow(a, plan[a], d)
       /\ \A row \in rrows : \E a \in created, r \in Resources, purpose \in Purposes :
            row = ResourceRow(a, plan[a], r, purpose, Exclusive[r])
  <2> HIDE DEF plan, created, route, team
  <2>1. ASSUME NEW row \in rrows
        PROVE  \E a \in created, r \in Resources, purpose \in Purposes :
                 row = ResourceRow(a, plan[a], r, purpose, Exclusive[r])
    <3>1. PICK a \in created, e \in team.equipment :
            row = ResourceRow(a, plan[a], e.resource, e.purpose, Exclusive[e.resource])
      OBVIOUS
    <3>2. QED
      BY <1>11, <3>1
  <2>2. \A row \in drows : \E a \in created, d \in Drivers : row = DriverRow(a, plan[a], d)
    BY <1>10 DEF route
  <2>3. QED
    BY <2>1, <2>2
<1>13. drows \subseteq DriverReservation /\ rrows \subseteq ResourceReservation
  <2>1. \A a \in created : DriverRow(a, plan[a], route.driver) \in DriverReservation
    BY <1>3, <1>7, <1>10, DriverRowType
  <2>2. \A a \in created : \A e \in team.equipment :
          ResourceRow(a, plan[a], e.resource, e.purpose, Exclusive[e.resource])
            \in ResourceReservation
    BY <1>3, <1>7, <1>11, ResourceRowType
  <2> HIDE DEF plan, created, route, team
  <2>3. QED
    BY <2>1, <2>2
<1>14. PlansTyped'
  <2> DEFINE stops == [i \in DOMAIN route.stops |->
                         [route.stops[i] EXCEPT !.appointment = place[i]]]
  <2>1. \A i \in DOMAIN route.stops : route.stops[i] \in Stop
    BY <1>1, LenProperties, ElementOfSeq DEF RouteRecord
  <2>2. stops \in [DOMAIN route.stops -> Stop]
    BY <1>2, <2>1 DEF Stop
  <2>3. stops \in Seq(Stop)
    BY <1>1, <2>2, MappedSeq DEF RouteRecord
  <2>4. [route EXCEPT !.status = "assigned", !.stops = stops] \in RouteType
    BY <1>1, <2>3 DEF RouteRecord, RouteType
  <2>5. [routes EXCEPT ![t] = [route EXCEPT !.status = "assigned", !.stops = stops]]
          \in [Routes -> RouteType]
    BY <2>4 DEF PlansTyped
  <2>6. QED
    BY <1>1, <1>8, <2>5, AgeTyped DEF PlansTyped, RouteRecord
<1> HIDE DEF created, plan, drows, rrows, team
<1>15. Adds(created, plan, drows, rrows)
  BY <1>3, <1>6, <1>7, <1>8, <1>9, <1>12 DEF Adds
<1>a. UNCHANGED resources
  BY <1>8 DEF staff
<1>b. RowsSound'
  BY <1>15, <1>a, AddedSound
<1>16. TypeOK'
  <2>1. BookingsTyped'
    BY <1>3, <1>7, <1>9, <1>13, TypeParts DEF BookingsTyped
  <2>2. JobsTyped'
    BY <1>8, TypeParts DEF JobsTyped, SetWorkflowOfStops, Workflows
  <2>3. DriversTyped' /\ ResourcesTyped' /\ RequestsTyped' /\ CallsTyped'
    BY <1>8, TypeParts DEF DriversTyped, ResourcesTyped, RequestsTyped, CallsTyped, staff
  <2>4. QED
    BY <2>1, <2>2, <2>3 DEF TypeOK, BookingsTyped, JobsTyped, DriversTyped, ResourcesTyped,
                            RequestsTyped, CallsTyped
<1>17. \E someCreated, somePlan, someDrows, someRrows :
         Adds(someCreated, somePlan, someDrows, someRrows)
  BY <1>15
<1>18. QED
  BY <1>14, <1>16, <1>17, <1>a, <1>b

-----------------------------------------------------------------------------
(* The theorems *)

PlanInv == TypeOK /\ RowsSound /\ PlansTyped

\* Nothing is planned at first.
LEMMA PlanInitKeeps == PlanInit => PlanInv
BY InitTyped, InitSound DEF PlanInit, PlanInv, PlansTyped, RunType, RouteType

\* Steps of planning that leave the tables of scheduling alone.
LEMMA QuietKeeps == ASSUME PlanInv, UNCHANGED vars, PlansTyped' PROVE PlanInv'
BY NextTyped, NextSound DEF PlanInv

\* Every step keeps types and rows: an operation of scheduling, which may make
\* runs and routes grow old, a step of a suggestion run, a step of a route.
LEMMA PlanNextKeeps == PlanInv /\ [PlanNext]_planVars => PlanInv'
<1> SUFFICES ASSUME PlanInv, [PlanNext]_planVars PROVE PlanInv'
  OBVIOUS
<1>1. TypeOK /\ RowsSound /\ PlansTyped
  BY DEF PlanInv
<1>2. CASE Next /\ Age(runs, routes)
  BY <1>1, <1>2, NextTyped, NextSound, AgeTyped DEF PlanInv, PlansTyped
<1>3. CASE Suggest
  <2>1. ASSUME NEW g \in Runs, NEW j \in Jobs, NEW routed \in BOOLEAN, Load(g, j, routed)
        PROVE  PlanInv'
    <3>1. UNCHANGED vars
      BY <2>1 DEF Load
    <3>2. QED
      BY <1>1, <2>1, <3>1, LoadTyped, QuietKeeps
  <2>2. ASSUME NEW g \in Runs, SaveRun(g) PROVE PlanInv'
    <3>1. UNCHANGED vars
      BY <2>2 DEF SaveRun
    <3>2. QED
      BY <1>1, <2>2, <3>1, SaveRunTyped, QuietKeeps
  <2>3. ASSUME NEW g \in Runs, NEW s \in runs[g].pending, NEW a \in Appointments, Adopt(g, s, a)
        PROVE  PlanInv'
    BY <1>1, <2>3, AdoptKeeps DEF PlanInv
  <2>4. QED
    BY <1>3, <2>1, <2>2, <2>3 DEF Suggest
<1>4. CASE Drive
  <2>1. ASSUME NEW t \in Routes, NEW d \in Drivers, NEW chipper \in Resources \cup {Nothing},
               NEW transport \in Resources \cup {Nothing}, NEW departure \in Departures,
               NEW order \in Orders, NEW endAtLastStop \in BOOLEAN,
               PlanRoute(t, d, chipper, transport, departure, order, endAtLastStop)
        PROVE  PlanInv'
    <3>1. UNCHANGED vars
      BY <2>1 DEF PlanRoute
    <3>2. QED
      BY <1>1, <2>1, <3>1, PlanRouteTyped, QuietKeeps
  <2>2. ASSUME NEW t \in Routes, NEW u \in Routes, NEW i \in DOMAIN routes[t].stops,
               MoveDraftStop(t, u, i)
        PROVE  PlanInv'
    <3>1. UNCHANGED vars
      BY <2>2 DEF MoveDraftStop
    <3>2. QED
      BY <1>1, <2>2, <3>1, MoveDraftStopTyped, QuietKeeps
  <2>3. ASSUME NEW t \in Routes, NEW place \in Placements(t), AssignRoute(t, place)
        PROVE  PlanInv'
    BY <1>1, <2>3, AssignRouteKeeps DEF PlanInv
  <2>4. ASSUME NEW t \in Routes, NEW order \in Permuted(t), ReorderOwn(t, order) PROVE PlanInv'
    <3>1. UNCHANGED vars
      BY <2>4 DEF ReorderOwn
    <3>2. QED
      BY <1>1, <2>4, <3>1, ReorderOwnTyped, QuietKeeps
  <2>5. QED
    BY <1>4, <2>1, <2>2, <2>3, <2>4 DEF Drive
<1>5. CASE UNCHANGED planVars
  <2>1. UNCHANGED vars /\ PlansTyped'
    BY <1>1, <1>5 DEF planVars, PlansTyped
  <2>2. QED
    BY <2>1, QuietKeeps
<1>6. QED
  BY <1>2, <1>3, <1>4, <1>5 DEF PlanNext

\* Suggestions and routes, adopted and assigned among all other operations, leave
\* the tables of scheduling and their own with the types of their columns; the
\* stops of a route and the suggestions of a run take time.
THEOREM PlanningTypeCorrect == PlanSpec => [](TypeOK /\ PlansTyped)
<1>1. PlanInit => PlanInv
  BY PlanInitKeeps
<1>2. PlanInv /\ [PlanNext]_planVars => PlanInv'
  BY PlanNextKeeps
<1>3. PlanInv => TypeOK /\ PlansTyped
  BY DEF PlanInv
<1>4. QED
  BY <1>1, <1>2, <1>3, PTL DEF PlanSpec

\* The reservations that suggestions and routes write themselves, past the
\* operations of the appointment service, are as sound as the others.
THEOREM PlannedReservationsSound == PlanSpec => []ReservationsSound
<1>1. PlanInit => PlanInv
  BY PlanInitKeeps
<1>2. PlanInv /\ [PlanNext]_planVars => PlanInv'
  BY PlanNextKeeps
<1>3. PlanInv => ReservationsSound
  BY SoundParts DEF PlanInv
<1>4. QED
  BY <1>1, <1>2, <1>3, PTL DEF PlanSpec

\* No driver and no exclusive resource is promised twice either when suggestions
\* computed earlier are adopted and whole routes assigned, for any number of runs,
\* routes and stops.
THEOREM PlanningNeverDoublyBooks == PlanSpec => []NoDoubleBooking
<1>1. ReservationsSound => NoDoubleBooking
  BY SoundMeansDisjoint DEF NoDoubleBooking
<1>2. QED
  BY <1>1, PlannedReservationsSound, PTL

\* A step of planning is a step of the calendar or none: what is adopted and what is
\* assigned is booked, the latter all at once; computing, rearranging and ageing book
\* nothing.
LEMMA PlanStepIsBooking ==
  PlanInv /\ PlanInv' /\ [PlanNext]_planVars => [Promises!Next]_Bookings
<1> SUFFICES ASSUME PlanInv, PlanInv', [PlanNext]_planVars PROVE [Promises!Next]_Bookings
  OBVIOUS
<1>1. Sound /\ Sound' /\ TypeOK /\ RowsSound /\ PlansTyped
  BY DEF PlanInv, Sound
<1>2. ASSUME [Next]_vars PROVE [Promises!Next]_Bookings
  BY <1>1, <1>2, StepIsBooking
<1>3. ASSUME NEW g \in Runs, NEW s \in runs[g].pending, NEW a \in Appointments, Adopt(g, s, a)
      PROVE  [Promises!Next]_Bookings
  <2>1. UNCHANGED resources /\ \E ap, team : SaveTeam(a, ap, team)
    BY <1>3 DEF Adopt, staff
  <2>2. QED
    BY <1>1, <2>1, SaveElsewhere, OneBookingStep
<1>4. ASSUME NEW t \in Routes, NEW place \in Placements(t), AssignRoute(t, place)
      PROVE  [Promises!Next]_Bookings
  BY <1>1, <1>4, AssignRouteKeeps, AddedIsBooking
<1>5. CASE Suggest
  BY <1>2, <1>3, <1>5 DEF Suggest, Load, SaveRun
<1>6. CASE Drive
  BY <1>2, <1>4, <1>6 DEF Drive, PlanRoute, MoveDraftStop, ReorderOwn
<1>7. QED
  BY <1>2, <1>5, <1>6 DEF PlanNext, planVars

\* With suggestions and routes on top, the whole still implements the calendar: a
\* route books its stops in one step, and nothing ever clashes.
THEOREM PlanningImplementsCalendar == PlanSpec => CalendarKept
<1>1. PlanInit => PlanInv /\ Promises!Init
  BY PlanInitKeeps, InitIsFree DEF PlanInit
<1>2. PlanInv /\ [PlanNext]_planVars => PlanInv'
  BY PlanNextKeeps
<1>3. PlanInv /\ PlanInv' /\ [PlanNext]_planVars => [Promises!Next]_Bookings
  BY PlanStepIsBooking
<1>4. QED
  BY <1>1, <1>2, <1>3, PTL DEF PlanSpec, CalendarKept, Promises!Spec, Bookings

-----------------------------------------------------------------------------
(* What a run and a draft still know *)

\* The listed reservations leave time to travel to a suggestion and from it.
FeasibleAmong(s, inputs) ==
  \A row \in inputs.reservations :
    /\ row[4] <= s.start => s.start - row[4] >= Travel
    /\ EndOf(s) <= row[3] => row[3] - EndOf(s) >= Travel

\* A suggestion that can be adopted has the length its job demands now; when the
\* inputs at its saving were those it was computed from, it can be reached in time
\* among the reservations they list.
RunCurrent(g) ==
  runs[g].step \in {"loaded", "saved"} =>
    \A s \in runs[g].pending :
      /\ s.dur = jobs[runs[g].job].data.minutes + PlanningBuffer
      /\ runs[g].routed /\ (runs[g].step = "loaded" \/ runs[g].calm) =>
           FeasibleAmong(s, runs[g].inputs)

\* A draft has a stop, and a fresh stop has the length its job demands now.
RouteCurrent(t) ==
  IsDraft(t) =>
    /\ routes[t].stops # <<>>
    /\ \A i \in DOMAIN routes[t].stops :
         routes[t].stops[i].fresh =>
           routes[t].stops[i].dur = jobs[routes[t].stops[i].job].data.minutes

PlansCurrent == (\A g \in Runs : RunCurrent(g)) /\ (\A t \in Routes : RouteCurrent(t))

\* A fingerprint tells when every appointment that holds a reservation holds it.
LEMMA InputsTell == ASSUME NEW s PROVE TravelFeasible(s) <=> FeasibleAmong(s, Inputs)
<1> DEFINE Row(a) ==
      <<a, appointments[a].version, From(appointments[a]), To(appointments[a]), CrewOf(a),
        {e.resource : e \in EquipmentOf(a)}, DataOf(appointments[a])>>
           Listed == {Row(a) : a \in Held}
<1>1. Inputs.reservations = Listed
  BY DEF Inputs
<1>2. \A a : Row(a)[3] = From(appointments[a]) /\ Row(a)[4] = To(appointments[a])
  OBVIOUS
<1> HIDE DEF Row
<1>3. TravelFeasible(s) <=>
        \A row \in Listed : /\ row[4] <= s.start => s.start - row[4] >= Travel
                            /\ EndOf(s) <= row[3] => row[3] - EndOf(s) >= Travel
  BY <1>2 DEF TravelFeasible
<1>4. QED
  BY <1>1, <1>3 DEF FeasibleAmong

\* Ageing leaves a run that can still be adopted as it was.
LEMMA AgedRunMeans ==
  ASSUME NEW run \in RunType, AgedRun(run).step \in {"loaded", "saved"}
  PROVE  AgedRun(run) = run /\ JobUnchanged(run.job)
BY DEF AgedRun, Stale

\* A change of the tables makes the runs it concerns stale and calls the stops it
\* concerns no longer fresh; the others are as current as before.
LEMMA AgeKeepsCurrent ==
  ASSUME NEW someRuns \in [Runs -> RunType], NEW someRoutes \in [Routes -> RouteType],
         Age(someRuns, someRoutes), PlansTyped,
         \A g \in Runs : someRuns[g].step \in {"loaded", "saved"} => someRuns[g] = runs[g],
         \A t \in Routes : someRoutes[t].status = "draft" => someRoutes[t] = routes[t],
         PlansCurrent
  PROVE  PlansCurrent'
<1>1. ASSUME NEW g \in Runs, runs'[g].step \in {"loaded", "saved"}, NEW s \in runs'[g].pending
      PROVE  /\ s.dur = jobs'[runs'[g].job].data.minutes + PlanningBuffer
             /\ runs'[g].routed /\ (runs'[g].step = "loaded" \/ runs'[g].calm) =>
                  FeasibleAmong(s, runs'[g].inputs)
  <2>1. runs'[g] = AgedRun(someRuns[g])
    BY DEF Age
  <2>2. runs'[g] = someRuns[g] /\ JobUnchanged(someRuns[g].job)
    BY <1>1, <2>1, AgedRunMeans
  <2>3. runs'[g] = runs[g]
    BY <1>1, <2>2
  <2>4. QED
    BY <1>1, <2>2, <2>3 DEF PlansCurrent, RunCurrent, JobUnchanged
<1>2. ASSUME NEW t \in Routes, routes'[t].status = "draft"
      PROVE  /\ routes'[t].stops # <<>>
             /\ \A i \in DOMAIN routes'[t].stops :
                  routes'[t].stops[i].fresh =>
                    routes'[t].stops[i].dur = jobs'[routes'[t].stops[i].job].data.minutes
  <2>1. routes'[t] = AgedRoute(someRoutes[t])
    BY DEF Age
  <2>2. someRoutes[t].status = "draft" /\ someRoutes[t] \in RouteRecord
    <3>1. someRoutes[t].status # "draft" => routes'[t] = someRoutes[t]
      BY <2>1 DEF AgedRoute
    <3>2. someRoutes[t].status = "draft"
      BY <1>2, <3>1
    <3>3. QED
      BY <3>2, RouteCases
  <2>3. routes'[t].stops = AgedStops(someRoutes[t].stops)
    BY <2>1, <2>2 DEF AgedRoute, RouteRecord
  <2>4. /\ someRoutes[t].stops = routes[t].stops /\ routes[t].stops # <<>>
        /\ \A i \in DOMAIN routes[t].stops :
             routes[t].stops[i].fresh =>
               routes[t].stops[i].dur = jobs[routes[t].stops[i].job].data.minutes
    BY <2>2 DEF PlansCurrent, RouteCurrent, IsDraft
  <2>5. \A i \in DOMAIN routes[t].stops : routes[t].stops[i] \in Stop
    BY <2>2, <2>4, LenProperties, ElementOfSeq DEF RouteRecord
  <2>6. DOMAIN routes'[t].stops = DOMAIN routes[t].stops
    BY <2>3, <2>4 DEF AgedStops
  <2>7. routes'[t].stops # <<>>
    <3>1. routes[t].stops \in Seq(Stop)
      BY <2>2, <2>4 DEF RouteRecord
    <3>2. 1 \in DOMAIN routes[t].stops
      BY <2>4, <3>1, EmptySeq, LenProperties
    <3>3. QED
      BY <2>6, <3>2
  <2>8. ASSUME NEW i \in DOMAIN routes[t].stops, routes'[t].stops[i].fresh
        PROVE  routes'[t].stops[i].dur = jobs'[routes'[t].stops[i].job].data.minutes
    <3> DEFINE stop == routes[t].stops[i]
    <3>1. routes'[t].stops[i] = [stop EXCEPT !.fresh = stop.fresh /\ JobUnchanged(stop.job)]
      BY <2>3, <2>4 DEF AgedStops
    <3>2. stop \in Stop
      BY <2>5
    <3>3. /\ routes'[t].stops[i].dur = stop.dur /\ routes'[t].stops[i].job = stop.job
          /\ stop.fresh /\ JobUnchanged(stop.job)
      BY <2>8, <3>1, <3>2 DEF Stop
    <3>4. QED
      BY <2>4, <3>3 DEF JobUnchanged
  <2>9. QED
    BY <2>6, <2>7, <2>8
<1>3. QED
  BY <1>1, <1>2 DEF PlansCurrent, RunCurrent, RouteCurrent, IsDraft, FeasibleAmong, EndOf

-----------------------------------------------------------------------------
(* Adopting and assigning, seen from one appointment (View) *)

\* A new proposal of a job, as the appointments it is compared with.
LEMMA ProposalColumns ==
  ASSUME NEW j, NEW start, NEW dur, NEW buffer
  PROVE  LET ap == Proposal(j, start, dur, buffer)
         IN /\ ap.life = "proposal" /\ ap.conf = "not_requested" /\ ap.job = j
            /\ ap.start = start /\ ap.dur = dur
            /\ ap.before = buffer.before /\ ap.after = buffer.after
            /\ ~ap.override /\ ~ap.fixedOnce /\ ap.version = 1
BY DEF Proposal, NewAppointment

\* What planning creates is vetted when its team is ready and long enough reserved.
LEMMA ProposedIsCreated ==
  ASSUME NEW a \in Appointments, ~Used(a), requests'[a] = requests[a],
         NEW ap \in Appointment, appointments'[a] = ap, ap.life = "proposal",
         ap.conf = "not_requested", ~ap.fixedOnce, ~ap.override, ap.version = 1,
         NEW team, TeamOf(a)' = team, EnsureReady(team, ap, DataOf(ap), ap.override, TRUE),
         UNCHANGED staff, \A j \in Jobs : jobs'[j].data = jobs[j].data
  PROVE  Created(a)
<1>1. SamePlace(ap, ap)
  BY DEF SamePlace
<1>2. Vetted(a)
  BY <1>1, VettedNow
<1>3. QED
  BY <1>2 DEF Created

\* Adopting creates one vetted proposal, of the times that were suggested.
LEMMA AdoptView ==
  ASSUME TypeOK, PlansTyped, PlansCurrent, NEW g \in Runs, NEW s \in runs[g].pending,
         NEW a \in Appointments, Adopt(g, s, a)
  PROVE  /\ \A b \in Appointments : View(b)
         /\ ~ReservingNow(a) /\ ReservingNow(a)'
         /\ appointments'[a].start = s.start /\ CrewOf(a)' = s.team.drivers
         /\ Enters(a, runs[g].job) /\ \A b \in Appointments : b # a => Same(b)
<1> DEFINE job == runs[g].job
           ap == Proposal(job, s.start, s.dur, [before |-> 0, after |-> 0])
<1>1. runs[g] \in RunRecord /\ runs[g].step = "saved"
  BY RunCases DEF Adopt, PlansTyped
<1>2. /\ job \in Jobs /\ s.start \in Int /\ s.dur \in Nat \ {0} /\ s.team \in Team
      /\ s.dur = jobs[job].data.minutes + PlanningBuffer
  BY <1>1 DEF RunRecord, SuggestionType, PlansCurrent, RunCurrent
<1>3. /\ CrewAvailable(s.team, ap, FALSE) /\ ~Used(a) /\ SaveTeam(a, ap, s.team)
      /\ AssignmentsReady(s.team, jobs[job].data, FALSE)
      /\ SetWorkflow(job, "planning", TRUE)
      /\ UNCHANGED <<staff, requests, calls>>
  BY DEF Adopt
<1>4. ap \in Appointment
  BY <1>2, ProposalType
<1>5. /\ ap.life = "proposal" /\ ap.conf = "not_requested" /\ ap.job = job
      /\ ap.start = s.start /\ ap.dur = s.dur
      /\ ~ap.override /\ ~ap.fixedOnce /\ ap.version = 1
  BY ProposalColumns
<1>6. ap.override = FALSE
  BY <1>4, <1>5 DEF Appointment
<1> HIDE DEF ap
<1>7. /\ appointments'[a] = ap /\ TeamOf(a)' = s.team /\ CrewOf(a)' = s.team.drivers
      /\ \A b \in Appointments : b # a => RowKept(b)
      /\ OneActivePerJob(appointments')
  <2>1. /\ appointments'[a] = ap
        /\ CrewOf(a)' = s.team.drivers /\ EquipmentOf(a)' = s.team.equipment
        /\ \A b \in Appointments : b # a => RowKept(b)
        /\ OneActivePerJob(appointments')
    BY <1>2, <1>3, SaveTeamView
  <2>2. TeamOf(a)' = s.team
    BY <1>2, <2>1 DEF TeamOf, Team
  <2>3. QED
    BY <2>1, <2>2
<1>8. EnsureReady(s.team, ap, DataOf(ap), ap.override, TRUE)
  <2>1. DataOf(ap) = jobs[job].data
    BY <1>5 DEF DataOf
  <2>2. jobs[job].data.minutes \in Nat
    BY <1>2, WorkTakesTime, TypeParts
  <2>3. ap.dur >= jobs[job].data.minutes
    BY <1>2, <1>5, <2>2, PlanningAssumption
  <2>4. EnsureReady(s.team, ap, jobs[job].data, FALSE, FALSE)
    BY <1>3, <2>3 DEF EnsureReady
  <2>5. QED
    BY <1>6, <2>1, <2>4, ReadyMeansVetted
<1>9. \A j \in Jobs : jobs'[j].data = jobs[j].data
  BY <1>2, <1>3, WorkflowKeepsData, TypeParts
<1>10. Created(a)
  <2>1. requests'[a] = requests[a] /\ UNCHANGED staff /\ ~Used(a)
    BY <1>3
  <2>2. QED
    BY <1>4, <1>5, <1>7, <1>8, <1>9, <2>1, ProposedIsCreated
<1>11. \A b \in Appointments : View(b)
  <2>1. View(a)
    BY <1>10 DEF View
  <2>2. UNCHANGED requests
    BY <1>3
  <2>3. \A b \in Appointments : b # a => RowKept(b) /\ requests'[b] = requests[b]
    BY <1>7, <2>2
  <2>4. QED
    BY <2>1, <2>3, OthersKept
<1>12. ~ReservingNow(a) /\ ReservingNow(a)'
  BY <1>3, <1>5, <1>7 DEF Used, ReservingNow, Reserving
<1>13. Enters(a, job)
  <2>1. Editable(appointments'[a].life) /\ appointments'[a].job = job
    BY <1>5, <1>7 DEF Editable
  <2>2. ~Editable(appointments[a].life)
    BY <1>3 DEF Used, Editable
  <2>3. appointments'[a].life = "proposal"
    BY <1>5, <1>7
  <2>4. QED
    BY <1>3, <1>7, <2>1, <2>2, <2>3 DEF Enters
<1>14. \A b \in Appointments : b # a => Same(b)
  BY <1>7 DEF RowKept, Same
<1>15. QED
  BY <1>5, <1>7, <1>11, <1>12, <1>13, <1>14

\* The team of a route is a team, and ready for every job the route may carry.
LEMMA RouteTeamReady ==
  ASSUME NEW route \in RouteRecord, NEW data,
         Selectable(route.driver, route.chipper, route.transport),
         Transportable(data, route.transport)
  PROVE  TeamOfRoute(route) \in Team /\ AssignmentsReady(TeamOfRoute(route), data, TRUE)
<1> DEFINE team == TeamOfRoute(route)
<1>1. /\ route.driver \in Drivers
      /\ route.chipper \in Resources \cup {Nothing}
      /\ route.transport \in Resources \cup {Nothing}
  BY DEF RouteRecord
<1>2. /\ team.drivers = {route.driver}
      /\ team.equipment =
           {[resource |-> r, purpose |-> "chipping"] : r \in {route.chipper} \ {Nothing}} \cup
           {[resource |-> r, purpose |-> "transport"] : r \in {route.transport} \ {Nothing}}
  BY DEF TeamOfRoute
<1>3. team \in Team
  BY <1>1 DEF TeamOfRoute, Team, Purposes
<1>4. \A e \in team.equipment :
        \/ e.resource = route.chipper /\ route.chipper # Nothing
        \/ e.resource = route.transport /\ route.transport # Nothing
  BY <1>2
<1>5. AllActive(team)
  BY <1>2, <1>4 DEF AllActive, Selectable
<1>6. TransportPlanned(team.equipment, data)
  <2>1. CASE data.transport = "internal" /\ route.transport # Nothing
    <3>1. [resource |-> route.transport, purpose |-> "transport"] \in team.equipment
      BY <1>2, <2>1
    <3>2. resources[route.transport].type = "transport_vehicle"
      BY <2>1 DEF Selectable
    <3>3. QED
      BY <2>1, <3>1, <3>2 DEF TransportPlanned
  <2>2. QED
    BY <2>1 DEF Transportable, TransportPlanned
<1>7. QED
  BY <1>2, <1>3, <1>5, <1>6 DEF AssignmentsReady, ValidTeam

\* The indices of the stops of a draft, and the stop that an appointment is made for.
LEMMA AssignPlaces ==
  ASSUME PlansTyped, NEW t \in Routes, NEW place \in Placements(t), AssignRoute(t, place)
  PROVE  /\ routes[t] \in RouteRecord
         /\ place \in [DOMAIN routes[t].stops -> Appointments]
         /\ \A i \in DOMAIN routes[t].stops :
              /\ routes[t].stops[i] \in Stop
              /\ (CHOOSE k \in DOMAIN routes[t].stops : place[k] = place[i]) = i
              /\ ~Used(place[i]) /\ Reservable(routes[t], i)
<1>1. routes[t] \in RouteRecord
  BY RouteCases DEF AssignRoute, IsDraft, PlansTyped
<1>2. /\ place \in [DOMAIN routes[t].stops -> Appointments]
      /\ \A i, k \in DOMAIN routes[t].stops : place[i] = place[k] => i = k
  BY DEF Placements, Injective
<1>3. \A i \in DOMAIN routes[t].stops : routes[t].stops[i] \in Stop
  BY <1>1, LenProperties, ElementOfSeq DEF RouteRecord
<1>4. \A i \in DOMAIN routes[t].stops : ~Used(place[i]) /\ Reservable(routes[t], i)
  BY DEF AssignRoute
<1>5. ASSUME NEW i \in DOMAIN routes[t].stops
      PROVE  (CHOOSE k \in DOMAIN routes[t].stops : place[k] = place[i]) = i
  BY <1>2
<1>6. QED
  BY <1>1, <1>2, <1>3, <1>4, <1>5

\* What assigning a route writes: a proposal per stop, with the team of the route,
\* and nothing about other appointments.
LEMMA AssignWrites ==
  ASSUME TypeOK, RowsSound, PlansTyped, NEW t \in Routes, NEW place \in Placements(t),
         AssignRoute(t, place)
  PROVE  LET route == routes[t] IN
         /\ \A i \in DOMAIN route.stops :
              /\ appointments'[place[i]] = StopProposal(route, i)
              /\ TeamOf(place[i])' = TeamOfRoute(route)
              /\ DriverRow(place[i], StopProposal(route, i), route.driver)
                   \in driverRows' \ driverRows
              /\ \A e \in TeamOfRoute(route).equipment :
                   ResourceRow(place[i], StopProposal(route, i), e.resource, e.purpose,
                               Exclusive[e.resource]) \in resourceRows' \ resourceRows
         /\ \A b \in Appointments :
              (\A i \in DOMAIN route.stops : place[i] # b) => RowKept(b)
<1> DEFINE route == routes[t]
           team == TeamOfRoute(route)
           of(a) == CHOOSE i \in DOMAIN route.stops : place[i] = a
           created == {place[i] : i \in DOMAIN place}
           drows == {DriverRow(a, StopProposal(route, of(a)), route.driver) : a \in created}
           rrows == {ResourceRow(a, StopProposal(route, of(a)), e.resource, e.purpose,
                                 Exclusive[e.resource]) : a \in created, e \in team.equipment}
<1>1. /\ route \in RouteRecord
      /\ place \in [DOMAIN route.stops -> Appointments]
      /\ \A i \in DOMAIN route.stops :
           route.stops[i] \in Stop /\ of(place[i]) = i /\ ~Used(place[i])
  BY AssignPlaces
<1>2. /\ appointments' = [a \in Appointments |->
           IF a \in created THEN StopProposal(route, of(a)) ELSE appointments[a]]
      /\ driverRows' = driverRows \cup drows
      /\ resourceRows' = resourceRows \cup rrows
  BY DEF AssignRoute, Write
<1>3. /\ \A i \in DOMAIN route.stops : place[i] \in created
      /\ \A b : (\A i \in DOMAIN route.stops : place[i] # b) => b \notin created
  BY <1>1
<1>4. ASSUME NEW b, ~Used(b)
      PROVE  RowsOf(driverRows, b) = {} /\ RowsOf(resourceRows, b) = {}
  BY <1>4 DEF RowsOf, RowsSound, DriversAgree, ResourcesAgree, Used
<1>5. /\ \A row \in drows : row.appointment \in created
      /\ \A row \in rrows : row.appointment \in created
  BY DEF DriverRow, ResourceRow
<1>6. ASSUME NEW i \in DOMAIN route.stops
      PROVE  /\ RowsOf(drows, place[i]) =
                  {DriverRow(place[i], StopProposal(route, i), route.driver)}
             /\ RowsOf(rrows, place[i]) =
                  {ResourceRow(place[i], StopProposal(route, i), e.resource, e.purpose,
                               Exclusive[e.resource]) : e \in team.equipment}
  <2> DEFINE ap == StopProposal(route, i)
             b == place[i]
  <2>1. b \in created /\ of(b) = i
    BY <1>1, <1>3
  <2>2. \A a, aq, d : DriverRow(a, aq, d).appointment = a
    BY DEF DriverRow
  <2>3. \A a, aq, r, p, x : ResourceRow(a, aq, r, p, x).appointment = a
    BY DEF ResourceRow
  <2> HIDE DEF created, of, team, ap, b
  <2>4. RowsOf(drows, b) = {DriverRow(b, ap, route.driver)}
    BY <2>1, <2>2 DEF RowsOf, ap
  <2>5. RowsOf(rrows, b) = {ResourceRow(b, ap, e.resource, e.purpose, Exclusive[e.resource]) :
                              e \in team.equipment}
    BY <2>1, <2>3 DEF RowsOf, ap
  <2>6. QED
    BY <2>4, <2>5 DEF b, ap
<1>7. ASSUME NEW i \in DOMAIN route.stops
      PROVE  /\ appointments'[place[i]] = StopProposal(route, i)
             /\ TeamOf(place[i])' = team
             /\ DriverRow(place[i], StopProposal(route, i), route.driver)
                  \in driverRows' \ driverRows
             /\ \A e \in team.equipment :
                  ResourceRow(place[i], StopProposal(route, i), e.resource, e.purpose,
                              Exclusive[e.resource]) \in resourceRows' \ resourceRows
  <2> DEFINE ap == StopProposal(route, i)
             b == place[i]
  <2>1. b \in Appointments /\ b \in created /\ of(b) = i /\ ~Used(b)
    BY <1>1, <1>3
  <2>2. appointments'[b] = ap
    BY <1>2, <2>1
  <2>3. /\ RowsOf(driverRows', b) = {DriverRow(b, ap, route.driver)}
        /\ RowsOf(resourceRows', b) =
             {ResourceRow(b, ap, e.resource, e.purpose, Exclusive[e.resource]) :
                e \in team.equipment}
    <3>1. /\ RowsOf(driverRows', b) = RowsOf(driverRows, b) \cup RowsOf(drows, b)
          /\ RowsOf(resourceRows', b) = RowsOf(resourceRows, b) \cup RowsOf(rrows, b)
      <4> HIDE DEF drows, rrows
      <4>1. QED
        BY <1>2 DEF RowsOf
    <3>2. RowsOf(driverRows, b) = {} /\ RowsOf(resourceRows, b) = {}
      BY <1>4, <2>1
    <3> HIDE DEF drows, rrows, created, team, of
    <3>3. /\ RowsOf(drows, b) = {DriverRow(b, ap, route.driver)}
          /\ RowsOf(rrows, b) =
               {ResourceRow(b, ap, e.resource, e.purpose, Exclusive[e.resource]) :
                  e \in team.equipment}
      BY <1>6
    <3> HIDE DEF ap, b
    <3>4. QED
      BY <3>1, <3>2, <3>3
  <2> HIDE DEF ap, b, created, drows, rrows
  <2>4. DriverRow(b, ap, route.driver).driver = route.driver
    BY DEF DriverRow
  <2>5. CrewOf(b)' = {route.driver}
    BY <2>3, <2>4 DEF CrewOf
  <2>6. EquipmentOf(b)' = team.equipment
    <3>1. \A e \in team.equipment :
            LET row == ResourceRow(b, ap, e.resource, e.purpose, Exclusive[e.resource])
            IN [resource |-> row.resource, purpose |-> row.purpose] = e
      BY DEF ResourceRow, TeamOfRoute
    <3> HIDE DEF team
    <3>2. QED
      BY <2>3, <3>1 DEF EquipmentOf
  <2>7. TeamOf(b)' = team
    BY <2>5, <2>6 DEF TeamOf, TeamOfRoute
  <2>8. DriverRow(b, ap, route.driver) \in driverRows' \ driverRows
    <3>1. DriverRow(b, ap, route.driver) \in RowsOf(driverRows', b)
      BY <2>3
    <3>2. DriverRow(b, ap, route.driver) \notin RowsOf(driverRows, b)
      BY <1>4, <2>1
    <3>3. DriverRow(b, ap, route.driver).appointment = b
      BY DEF DriverRow
    <3>4. QED
      BY <3>1, <3>2, <3>3 DEF RowsOf
  <2>9. ASSUME NEW e \in team.equipment
        PROVE  ResourceRow(b, ap, e.resource, e.purpose, Exclusive[e.resource])
                 \in resourceRows' \ resourceRows
    <3> DEFINE row == ResourceRow(b, ap, e.resource, e.purpose, Exclusive[e.resource])
    <3>1. row \in RowsOf(resourceRows', b)
      BY <2>3
    <3>2. row \notin RowsOf(resourceRows, b)
      BY <1>4, <2>1
    <3>3. row.appointment = b
      BY DEF ResourceRow
    <3>4. QED
      BY <3>1, <3>2, <3>3 DEF RowsOf
  <2>10. QED
    BY <2>2, <2>7, <2>8, <2>9 DEF ap, b
<1>8. ASSUME NEW b \in Appointments, \A i \in DOMAIN route.stops : place[i] # b
      PROVE  RowKept(b)
  <2>1. b \notin created
    BY <1>3, <1>8
  <2>2. appointments'[b] = appointments[b]
    BY <1>2, <2>1
  <2> HIDE DEF created, drows, rrows
  <2>3. /\ RowsOf(driverRows', b) = RowsOf(driverRows, b)
        /\ RowsOf(resourceRows', b) = RowsOf(resourceRows, b)
    BY <1>2, <1>5, <2>1 DEF RowsOf
  <2>4. QED
    BY <2>2, <2>3 DEF RowKept, TeamKept, CrewOf, EquipmentOf
<1>9. QED
  BY <1>7, <1>8

\* Assigning creates vetted proposals: the team of the route is ready, a fresh stop
\* is as long as its job demands, and the drivers are there from the way to the
\* stop to the end of the way back.
LEMMA AssignRouteView ==
  ASSUME TypeOK, RowsSound, PlansTyped, PlansCurrent, NEW t \in Routes,
         NEW place \in Placements(t), AssignRoute(t, place)
  PROVE  \A b \in Appointments : View(b)
<1> DEFINE route == routes[t]
<1>1. /\ route \in RouteRecord
      /\ place \in [DOMAIN route.stops -> Appointments]
      /\ \A i \in DOMAIN route.stops :
           route.stops[i] \in Stop /\ ~Used(place[i]) /\ Reservable(route, i)
  BY AssignPlaces
<1>2. /\ \A i \in DOMAIN route.stops :
           /\ appointments'[place[i]] = StopProposal(route, i)
           /\ TeamOf(place[i])' = TeamOfRoute(route)
      /\ \A b \in Appointments : (\A i \in DOMAIN route.stops : place[i] # b) => RowKept(b)
  BY AssignWrites
<1>3. /\ IsDraft(t) /\ Selectable(route.driver, route.chipper, route.transport)
      /\ SetWorkflowOfStops(route) /\ UNCHANGED <<staff, requests, calls>>
  BY DEF AssignRoute
<1>4. \A j \in Jobs : jobs'[j].data = jobs[j].data
  BY <1>3, TypeParts DEF SetWorkflowOfStops, JobsTyped
<1>5. ASSUME NEW i \in DOMAIN route.stops PROVE Created(place[i])
  <2> DEFINE stop == route.stops[i]
             ap == StopProposal(route, i)
             team == TeamOfRoute(route)
             data == jobs[stop.job].data
  <2>1. ap \in Appointment /\ ap.life = "proposal"
    BY <1>1, StopProposalType
  <2>2. /\ ap.conf = "not_requested" /\ ap.job = stop.job /\ ap.dur = stop.dur
        /\ ~ap.override /\ ~ap.fixedOnce /\ ap.version = 1
    BY ProposalColumns DEF StopProposal
  <2>3. ap.override = FALSE
    BY <2>1, <2>2 DEF Appointment
  <2>4. /\ stop \in Stop /\ stop.fresh /\ Transportable(data, route.transport)
        /\ CrewAvailable(team, ap, FALSE)
    BY <1>1 DEF Reservable, Assignable, ReservedTimesAvailable
  <2>5. stop.job \in Jobs /\ stop.dur = data.minutes
    BY <1>3, <2>4 DEF Stop, PlansCurrent, RouteCurrent
  <2>6. data.minutes \in Nat
    BY <2>5, WorkTakesTime, TypeParts
  <2>7. AssignmentsReady(team, data, TRUE)
    BY <1>1, <1>3, <2>4, RouteTeamReady
  <2>8. DataOf(ap) = data
    BY <2>2 DEF DataOf
  <2> HIDE DEF ap, team, data
  <2>9. EnsureReady(team, ap, DataOf(ap), ap.override, TRUE)
    <3>1. ap.dur >= data.minutes
      BY <2>2, <2>5, <2>6
    <3>2. CrewAvailable(team, ap, ap.override)
      BY <2>3, <2>4
    <3>3. QED
      BY <2>7, <2>8, <3>1, <3>2 DEF EnsureReady
  <2>10. /\ appointments'[place[i]] = ap /\ TeamOf(place[i])' = team
         /\ place[i] \in Appointments /\ ~Used(place[i])
         /\ requests'[place[i]] = requests[place[i]] /\ UNCHANGED staff
    BY <1>1, <1>2, <1>3 DEF ap, team
  <2>11. QED
    BY <1>4, <2>1, <2>2, <2>9, <2>10, ProposedIsCreated
<1>6. ASSUME NEW b \in Appointments PROVE View(b)
  <2>1. CASE \E i \in DOMAIN route.stops : place[i] = b
    BY <1>5, <2>1 DEF View
  <2>2. CASE \A i \in DOMAIN route.stops : place[i] # b
    BY <1>2, <1>3, <2>2 DEF View, Kept
  <2>3. QED
    BY <2>1, <2>2
<1>7. QED
  BY <1>6

\* The jobs of a route are planned, each by the one appointment of its stop; the
\* unique index refuses a route if one of them has a draft.
LEMMA AssignedAgrees ==
  ASSUME TypeOK, RowsSound, PlansTyped, NEW t \in Routes, NEW place \in Placements(t),
         AssignRoute(t, place), NEW k \in Jobs, JobAgrees(k)
  PROVE  JobAgrees(k)'
<1> DEFINE route == routes[t]
<1>1. /\ route \in RouteRecord
      /\ place \in [DOMAIN route.stops -> Appointments]
      /\ \A i \in DOMAIN route.stops : ~Used(place[i])
  BY AssignPlaces
<1>2. /\ \A i \in DOMAIN route.stops : appointments'[place[i]] = StopProposal(route, i)
      /\ \A b \in Appointments : (\A i \in DOMAIN route.stops : place[i] # b) => RowKept(b)
  BY AssignWrites
<1>3. \A i \in DOMAIN route.stops : /\ appointments'[place[i]].life = "proposal"
                                    /\ appointments'[place[i]].job = route.stops[i].job
  <2>1. ASSUME NEW i \in DOMAIN route.stops
        PROVE  /\ StopProposal(route, i).life = "proposal"
               /\ StopProposal(route, i).job = route.stops[i].job
    BY ProposalColumns DEF StopProposal
  <2> HIDE DEF route
  <2>2. QED
    BY <1>2, <2>1
<1>4. SetWorkflowOfStops(route) /\ OneActivePerJob(appointments')
  BY DEF AssignRoute, Write
<1>5. CASE \E i \in DOMAIN route.stops : route.stops[i].job = k
  <2>1. PICK i \in DOMAIN route.stops : route.stops[i].job = k
    BY <1>5
  <2>2. place[i] \in Appointments
    BY <1>1
  <2>3. appointments'[place[i]].life = "proposal" /\ appointments'[place[i]].job = k
    BY <1>3, <2>1
  <2>4. OpenOf(k)' = {place[i]}
    <3>1. place[i] \in OpenOf(k)'
      BY <2>2, <2>3 DEF OpenOf, Editable
    <3>2. ASSUME NEW b \in OpenOf(k)' PROVE b = place[i]
      <4>1. b \in Appointments /\ appointments'[b].job = k /\ Editable(appointments'[b].life)
        BY DEF OpenOf
      <4>2. Editable(appointments'[place[i]].life)
        BY <2>3 DEF Editable
      <4>3. QED
        BY <1>4, <2>2, <2>3, <4>1, <4>2 DEF OneActivePerJob
    <3>3. QED
      BY <3>1, <3>2
  <2>5. \A life : HasOpen(k, life)' <=> life = "proposal"
    BY <2>3, <2>4 DEF HasOpen
  <2>6. jobs'[k].workflow = "planning"
    BY <1>4, <2>1, TypeParts DEF SetWorkflowOfStops, JobsTyped
  <2>7. QED
    BY <2>4, <2>5, <2>6 DEF JobAgrees
<1>6. CASE \A i \in DOMAIN route.stops : route.stops[i].job # k
  <2>1. SameJob(k)
    BY <1>4, <1>6 DEF SetWorkflowOfStops, SameJob
  <2>2. ASSUME NEW b \in Appointments
        PROVE  /\ b \in OpenOf(k)' <=> b \in OpenOf(k)
               /\ b \in OpenOf(k) => appointments'[b].life = appointments[b].life
    <3>1. CASE \E i \in DOMAIN route.stops : place[i] = b
      BY <1>1, <1>3, <1>6, <3>1 DEF OpenOf, Used, Editable
    <3>2. CASE \A i \in DOMAIN route.stops : place[i] # b
      BY <1>2, <3>2 DEF OpenOf, RowKept
    <3>3. QED
      BY <3>1, <3>2
  <2>3. OpenOf(k)' = OpenOf(k) /\ \A b \in OpenOf(k) : appointments'[b].life = appointments[b].life
    BY <2>2 DEF OpenOf
  <2>4. QED
    BY <2>1, <2>3, AgreesQuietly
<1>7. QED
  BY <1>5, <1>6

-----------------------------------------------------------------------------
(* Runs and drafts stay current *)

\* What depends on runs and routes alone, or on tables that stay as they are.
LEMMA QuietCurrent ==
  ASSUME PlansCurrent, UNCHANGED vars,
         \A g \in Runs : runs'[g] = runs[g] \/ RunCurrent(g)',
         \A t \in Routes : routes'[t] = routes[t] \/ RouteCurrent(t)'
  PROVE  PlansCurrent'
<1>1. UNCHANGED jobs
  BY DEF vars
<1>2. ASSUME NEW g \in Runs PROVE RunCurrent(g)'
  <2>1. ASSUME runs'[g] = runs[g] PROVE RunCurrent(g)'
    BY <1>1, <2>1 DEF PlansCurrent, RunCurrent, FeasibleAmong, EndOf
  <2>2. QED
    BY <2>1
<1>3. ASSUME NEW t \in Routes PROVE RouteCurrent(t)'
  <2>1. ASSUME routes'[t] = routes[t] PROVE RouteCurrent(t)'
    BY <1>1, <2>1 DEF PlansCurrent, RouteCurrent, IsDraft
  <2>2. QED
    BY <2>1
<1>4. QED
  BY <1>2, <1>3 DEF PlansCurrent

\* A run loads candidates for the job as it is now.
LEMMA LoadCurrent ==
  ASSUME PlansTyped, PlansCurrent, NEW g \in Runs, NEW j \in Jobs, NEW routed \in BOOLEAN,
         Load(g, j, routed)
  PROVE  PlansCurrent'
<1>1. PICK chosen \in SUBSET Candidates(j, routed) :
        runs' = [runs EXCEPT ![g] =
          [step |-> "loaded", job |-> j, routed |-> routed, pending |-> chosen,
           inputs |-> Inputs, calm |-> TRUE]]
  BY DEF Load
<1>2. UNCHANGED <<vars, routes>>
  BY DEF Load
<1>3. UNCHANGED jobs
  BY <1>2 DEF vars
<1>4. ASSUME NEW s \in chosen
      PROVE  /\ s.dur = jobs[j].data.minutes + PlanningBuffer
             /\ routed => FeasibleAmong(s, Inputs)
  <2>1. s.dur = jobs[j].data.minutes + PlanningBuffer /\ (routed => TravelFeasible(s))
    BY DEF Candidates, Suggestion
  <2>2. QED
    BY <2>1, InputsTell
<1>5. RunCurrent(g)'
  <2>1. /\ runs'[g].job = j /\ runs'[g].routed = routed
        /\ runs'[g].pending = chosen /\ runs'[g].inputs = Inputs
    BY <1>1 DEF PlansTyped
  <2>2. QED
    BY <1>3, <1>4, <2>1 DEF RunCurrent, FeasibleAmong, EndOf
<1>6. \A h \in Runs : h # g => runs'[h] = runs[h]
  BY <1>1 DEF PlansTyped
<1>7. QED
  BY <1>2, <1>5, <1>6, QuietCurrent

\* Storing it changes nothing about that: the inputs listed now count as those it
\* was computed from only when they are the same.
LEMMA SaveRunCurrent ==
  ASSUME PlansTyped, PlansCurrent, NEW g \in Runs, SaveRun(g)
  PROVE  PlansCurrent'
<1>1. runs[g] \in RunRecord /\ runs[g].step = "loaded"
  BY SavedRun
<1>2. /\ runs' = [runs EXCEPT ![g] =
           [runs[g] EXCEPT !.step = "saved", !.inputs = Inputs,
                           !.calm = runs[g].inputs = Inputs]]
      /\ UNCHANGED <<vars, routes>>
  BY SavedRun
<1>3. UNCHANGED jobs
  BY <1>2 DEF vars
<1>4. RunCurrent(g)'
  <2>1. /\ runs'[g].job = runs[g].job /\ runs'[g].routed = runs[g].routed
        /\ runs'[g].pending = runs[g].pending
        /\ runs'[g].step = "saved"
        /\ runs'[g].calm => runs'[g].inputs = runs[g].inputs
    BY <1>1, <1>2 DEF PlansTyped, RunRecord
  <2>2. RunCurrent(g)
    BY DEF PlansCurrent
  <2>3. QED
    BY <1>1, <1>3, <2>1, <2>2 DEF RunCurrent, FeasibleAmong, EndOf
<1>5. \A h \in Runs : h # g => runs'[h] = runs[h]
  BY <1>2 DEF PlansTyped
<1>6. QED
  BY <1>2, <1>4, <1>5, QuietCurrent

\* The stops of a route, with their times, are the stops it was given.
LEMMA ScheduledStops ==
  ASSUME NEW stops \in Seq(Stop), NEW departure, NEW timed \in Scheduled(departure, stops)
  PROVE  /\ DOMAIN timed = DOMAIN stops
         /\ \A i \in DOMAIN stops : /\ timed[i].job = stops[i].job /\ timed[i].dur = stops[i].dur
                                    /\ timed[i].fresh = stops[i].fresh
<1>1. PICK starts \in [DOMAIN stops -> Times] : timed = At(stops, starts)
  BY DEF Scheduled
<1>2. \A i \in DOMAIN stops : stops[i] \in Stop
  BY LenProperties, ElementOfSeq
<1>3. QED
  BY <1>1, <1>2 DEF At, Stop

\* What RouteCurrent says of the stops of a draft.
StopsCurrent(stops) ==
  /\ stops # <<>>
  /\ \A i \in DOMAIN stops : stops[i].fresh => stops[i].dur = jobs[stops[i].job].data.minutes

\* Giving the stops their times keeps that.
LEMMA ScheduledCurrent ==
  ASSUME NEW stops \in Seq(Stop), NEW departure, NEW timed \in Scheduled(departure, stops),
         StopsCurrent(stops)
  PROVE  StopsCurrent(timed)
<1>1. /\ DOMAIN timed = DOMAIN stops
      /\ \A i \in DOMAIN stops : /\ timed[i].job = stops[i].job /\ timed[i].dur = stops[i].dur
                                 /\ timed[i].fresh = stops[i].fresh
  BY ScheduledStops
<1>2. 1 \in DOMAIN stops
  BY EmptySeq, LenProperties DEF StopsCurrent
<1>3. QED
  BY <1>1, <1>2 DEF StopsCurrent

\* A planned route starts from the jobs as they are now.
LEMMA PlanRouteCurrent ==
  ASSUME TypeOK, PlansTyped, PlansCurrent, NEW t \in Routes, NEW d \in Drivers,
         NEW chipper \in Resources \cup {Nothing}, NEW transport \in Resources \cup {Nothing},
         NEW departure \in Departures, NEW order \in Orders, NEW endAtLastStop \in BOOLEAN,
         PlanRoute(t, d, chipper, transport, departure, order, endAtLastStop)
  PROVE  PlansCurrent'
<1> DEFINE new == [i \in DOMAIN order |-> NewStop(order[i])]
<1>1. PICK n \in 1 .. MaxStops : order \in [1 .. n -> Jobs]
  BY DEF Orders
<1>2. order \in Seq(Jobs) /\ n \in Nat \ {0}
  BY <1>1, PlanningAssumption
<1>3. new \in Seq(Stop) /\ StopsCurrent(new)
  <2>1. ASSUME NEW i \in DOMAIN order PROVE NewStop(order[i]) \in Stop
    <3>1. order[i] \in Jobs
      BY <1>1
    <3>2. jobs[order[i]].data.minutes \in Nat \ {0}
      BY <3>1, WorkTakesTime, TypeParts
    <3>3. QED
      BY <3>1, <3>2 DEF NewStop, Stop
  <2>2. new \in Seq(Stop)
    <3>1. new \in [DOMAIN order -> Stop]
      BY <2>1
    <3>2. QED
      BY <1>2, <3>1, MappedSeq
  <2>3. 1 \in DOMAIN new
    BY <1>1, <1>2
  <2>4. \A i \in DOMAIN new : new[i].dur = jobs[new[i].job].data.minutes
    BY DEF NewStop
  <2>5. QED
    BY <2>2, <2>3, <2>4 DEF StopsCurrent
<1>4. PICK stops \in Scheduled(departure, new) :
        routes' = [routes EXCEPT ![t] =
          [status |-> "draft", driver |-> d, chipper |-> chipper, transport |-> transport,
           departure |-> departure,
           end |-> IF endAtLastStop THEN order[Len(order)] ELSE Nothing,
           stops |-> stops]]
  BY DEF PlanRoute
<1>5. UNCHANGED <<vars, runs>>
  BY DEF PlanRoute
<1> HIDE DEF new
<1>6. StopsCurrent(stops)
  BY <1>3, <1>4, ScheduledCurrent
<1>7. routes'[t].stops = stops /\ UNCHANGED jobs
  BY <1>4, <1>5 DEF PlansTyped, vars
<1>8. RouteCurrent(t)'
  BY <1>6, <1>7 DEF RouteCurrent, StopsCurrent
<1>9. \A u \in Routes : u # t => routes'[u] = routes[u]
  BY <1>4 DEF PlansTyped
<1>10. QED
  BY <1>5, <1>8, <1>9, QuietCurrent

\* A stop that still has the length of its job, if it is fresh.
CurrentStop == {stop \in Stop : stop.fresh => stop.dur = jobs[stop.job].data.minutes}

\* Stops that are current are a sequence of such stops.
LEMMA CurrentStops ==
  ASSUME NEW stops \in Seq(Stop), stops # <<>>
  PROVE  StopsCurrent(stops) <=> stops \in Seq(CurrentStop)
<1>1. \A i \in DOMAIN stops : stops[i] \in Stop
  BY LenProperties, ElementOfSeq
<1>2. ASSUME stops \in Seq(CurrentStop) PROVE StopsCurrent(stops)
  <2>1. \A i \in DOMAIN stops : stops[i] \in CurrentStop
    BY <1>2, LenProperties, ElementOfSeq
  <2>2. QED
    BY <2>1 DEF StopsCurrent, CurrentStop
<1>3. ASSUME StopsCurrent(stops) PROVE stops \in Seq(CurrentStop)
  <2>1. \A i \in DOMAIN stops : stops[i] \in CurrentStop
    BY <1>1, <1>3 DEF StopsCurrent, CurrentStop
  <2>2. stops = [i \in DOMAIN stops |-> stops[i]]
    OBVIOUS
  <2>3. stops \in [DOMAIN stops -> CurrentStop]
    BY <2>1, <2>2
  <2>4. QED
    BY <2>3, MappedSeq
<1>4. QED
  BY <1>2, <1>3

\* A stop carries its length and its freshness from one draft to the other.
LEMMA MoveDraftStopCurrent ==
  ASSUME PlansTyped, PlansCurrent, NEW t \in Routes, NEW u \in Routes,
         NEW i \in DOMAIN routes[t].stops, MoveDraftStop(t, u, i)
  PROVE  PlansCurrent'
<1> DEFINE source == routes[t].stops
           target == routes[u].stops
           rest == Without(source, i)
           more == Append(target, source[i])
<1>1. /\ IsDraft(t) /\ IsDraft(u) /\ t # u /\ Len(source) >= 2
      /\ UNCHANGED <<vars, runs>>
  BY DEF MoveDraftStop
<1>2. routes[t] \in RouteRecord /\ routes[u] \in RouteRecord
  BY <1>1, RouteCases DEF IsDraft, PlansTyped
<1>3. source \in Seq(Stop) /\ target \in Seq(Stop)
  BY <1>2 DEF RouteRecord
<1>4. StopsCurrent(source) /\ StopsCurrent(target)
  BY <1>1 DEF PlansCurrent, RouteCurrent, StopsCurrent
<1>5. source \in Seq(CurrentStop) /\ target \in Seq(CurrentStop)
  BY <1>3, <1>4, CurrentStops DEF StopsCurrent
<1>6. source[i] \in CurrentStop
  BY <1>5, LenProperties, ElementOfSeq
<1>7. /\ rest \in Seq(CurrentStop) /\ Len(rest) = Len(source) - 1
      /\ more \in Seq(CurrentStop) /\ Len(more) = Len(target) + 1
  BY <1>5, <1>6, WithoutTyped, AppendProperties
<1>8. CurrentStop \subseteq Stop
  BY DEF CurrentStop
<1>9. rest \in Seq(Stop) /\ rest # <<>> /\ more \in Seq(Stop) /\ more # <<>>
  <2>1. Len(source) \in Nat /\ Len(target) \in Nat
    BY <1>3, LenProperties
  <2>2. rest \in Seq(Stop) /\ more \in Seq(Stop)
    BY <1>3, <1>6, <1>8, WithoutTyped, AppendProperties
  <2> HIDE DEF source, target, rest, more
  <2>3. Len(rest) # 0 /\ Len(more) # 0
    BY <1>1, <1>7, <2>1
  <2>4. QED
    BY <2>2, <2>3, EmptySeq
<1>10. PICK left \in WithStops(routes[t], rest), joined \in WithStops(routes[u], more) :
         routes' = [routes EXCEPT ![t] = left, ![u] = joined]
  BY DEF MoveDraftStop
<1> HIDE DEF source, target, rest, more
<1>11. ASSUME NEW route \in RouteRecord, NEW stops \in Seq(Stop), stops # <<>>,
              stops \in Seq(CurrentStop), NEW after \in WithStops(route, stops)
       PROVE  StopsCurrent(after.stops)
  <2>1. PICK timed \in Scheduled(route.departure, stops) : after = [route EXCEPT !.stops = timed]
    BY DEF WithStops
  <2>2. StopsCurrent(timed)
    BY <1>11, CurrentStops, ScheduledCurrent
  <2>3. after.stops = timed
    BY <2>1 DEF RouteRecord
  <2>4. QED
    BY <2>2, <2>3
<1>12. StopsCurrent(left.stops) /\ StopsCurrent(joined.stops)
  BY <1>2, <1>7, <1>9, <1>10, <1>11
<1>13. /\ routes'[t] = left /\ routes'[u] = joined
       /\ \A r \in Routes : r # t /\ r # u => routes'[r] = routes[r]
  BY <1>1, <1>10 DEF PlansTyped
<1>14. RouteCurrent(t)' /\ RouteCurrent(u)'
  BY <1>1, <1>12, <1>13 DEF RouteCurrent, StopsCurrent, vars
<1>15. QED
  BY <1>1, <1>13, <1>14, QuietCurrent

\* An assigned route is no draft.
LEMMA ReorderOwnCurrent ==
  ASSUME PlansTyped, PlansCurrent, NEW t \in Routes, NEW order \in Permuted(t),
         ReorderOwn(t, order)
  PROVE  PlansCurrent'
<1>1. routes[t] \in RouteRecord /\ routes[t].status = "assigned"
  BY RouteCases DEF ReorderOwn, PlansTyped
<1>2. /\ routes'[t].status = "assigned"
      /\ \A u \in Routes : u # t => routes'[u] = routes[u]
      /\ UNCHANGED <<vars, runs>>
  BY <1>1 DEF ReorderOwn, PlansTyped, RouteRecord
<1>3. RouteCurrent(t)'
  BY <1>2 DEF RouteCurrent, IsDraft
<1>4. QED
  BY <1>2, <1>3, QuietCurrent

\* Whatever is adopted makes the other runs and drafts age.
LEMMA AdoptCurrent ==
  ASSUME PlansTyped, PlansCurrent, NEW g \in Runs, NEW s, NEW a, Adopt(g, s, a)
  PROVE  PlansCurrent'
<1>1. Age([runs EXCEPT ![g] = Adopted], routes)
  BY DEF Adopt
<1>2. /\ [runs EXCEPT ![g] = Adopted] \in [Runs -> RunType]
      /\ \A h \in Runs : [runs EXCEPT ![g] = Adopted][h].step \in {"loaded", "saved"} =>
           [runs EXCEPT ![g] = Adopted][h] = runs[h]
  BY DEF PlansTyped, RunType, Adopted
<1>3. routes \in [Routes -> RouteType]
  BY DEF PlansTyped
<1>4. QED
  BY <1>1, <1>2, <1>3, AgeKeepsCurrent

\* So does an assigned route.
LEMMA AssignCurrent ==
  ASSUME PlansTyped, PlansCurrent, NEW t \in Routes, NEW place \in Placements(t),
         AssignRoute(t, place)
  PROVE  PlansCurrent'
<1> DEFINE route == routes[t]
           stops == [i \in DOMAIN route.stops |-> [route.stops[i] EXCEPT !.appointment = place[i]]]
           assigned == [route EXCEPT !.status = "assigned", !.stops = stops]
<1>1. /\ route \in RouteRecord
      /\ place \in [DOMAIN route.stops -> Appointments]
      /\ \A i \in DOMAIN route.stops : route.stops[i] \in Stop
  BY AssignPlaces
<1>2. stops \in Seq(Stop)
  <2>1. stops \in [DOMAIN route.stops -> Stop]
    BY <1>1 DEF Stop
  <2>2. QED
    BY <1>1, <2>1, MappedSeq DEF RouteRecord
<1>3. assigned \in RouteType /\ assigned.status = "assigned"
  BY <1>1, <1>2 DEF RouteRecord, RouteType
<1>4. Age(runs, [routes EXCEPT ![t] = assigned])
  BY <1>1 DEF AssignRoute, RouteRecord
<1> HIDE DEF assigned
<1>5. /\ [routes EXCEPT ![t] = assigned] \in [Routes -> RouteType]
      /\ \A u \in Routes : [routes EXCEPT ![t] = assigned][u].status = "draft" =>
           [routes EXCEPT ![t] = assigned][u] = routes[u]
  BY <1>3 DEF PlansTyped
<1>6. runs \in [Runs -> RunType]
  BY DEF PlansTyped
<1>7. QED
  BY <1>4, <1>5, <1>6, AgeKeepsCurrent

-----------------------------------------------------------------------------
(* The inductive invariant and its steps *)

PlanSound == FixedSound /\ PlansTyped /\ PlansCurrent

\* It holds when nothing has been planned.
LEMMA InitPlanSound == PlanInit => PlanSound
<1> SUFFICES ASSUME PlanInit PROVE PlanSound
  OBVIOUS
<1>1. FixedSound
  BY InitFixed DEF PlanInit
<1>2. PlansTyped /\ PlansCurrent
  BY DEF PlanInit, PlansTyped, RunType, RouteType, PlansCurrent, RunCurrent, RouteCurrent,
         IsDraft, NoRun, NoRoute
<1>3. QED
  BY <1>1, <1>2 DEF PlanSound

\* Planning adds appointments in two ways.
Added ==
  \/ \E g \in Runs :
       runs[g].step = "saved" /\ \E s \in runs[g].pending, a \in Appointments : Adopt(g, s, a)
  \/ \E t \in Routes : IsDraft(t) /\ \E place \in Placements(t) : AssignRoute(t, place)

\* A step is one of scheduling, or none, for the tables of scheduling, or it adopts
\* or assigns.
LEMMA PlanSteps ==
  ASSUME PlanSound, [PlanNext]_planVars
  PROVE  ([Next]_vars /\ PlansCurrent') \/ Added
<1>0. TypeOK /\ PlansTyped /\ PlansCurrent
  BY DEF PlanSound, FixedSound, Sound
<1>1. CASE Next /\ Age(runs, routes)
  <2>1. runs \in [Runs -> RunType] /\ routes \in [Routes -> RouteType]
    BY <1>0 DEF PlansTyped
  <2>2. PlansCurrent'
    BY <1>0, <1>1, <2>1, AgeKeepsCurrent
  <2>3. QED
    BY <1>1, <2>2
<1>2. CASE UNCHANGED planVars
  BY <1>0, <1>2, QuietCurrent DEF planVars
<1>3. CASE Suggest
  <2>1. ASSUME NEW g \in Runs, NEW j \in Jobs, NEW routed \in BOOLEAN, Load(g, j, routed)
        PROVE  UNCHANGED vars /\ PlansCurrent'
    BY <1>0, <2>1, LoadCurrent DEF Load
  <2>2. ASSUME NEW g \in Runs, SaveRun(g) PROVE UNCHANGED vars /\ PlansCurrent'
    BY <1>0, <2>2, SaveRunCurrent DEF SaveRun
  <2>3. QED
    BY <1>3, <2>1, <2>2 DEF Suggest, Added
<1>4. CASE Drive
  <2>1. ASSUME NEW t \in Routes, NEW d \in Drivers, NEW chipper \in Resources \cup {Nothing},
               NEW transport \in Resources \cup {Nothing}, NEW departure \in Departures,
               NEW order \in Orders, NEW endAtLastStop \in BOOLEAN,
               PlanRoute(t, d, chipper, transport, departure, order, endAtLastStop)
        PROVE  UNCHANGED vars /\ PlansCurrent'
    <3>1. PlansCurrent'
      BY <1>0, <2>1, PlanRouteCurrent
    <3>2. UNCHANGED vars
      BY <2>1 DEF PlanRoute
    <3>3. QED
      BY <3>1, <3>2
  <2>2. ASSUME NEW t \in Routes, NEW u \in Routes, NEW i \in DOMAIN routes[t].stops,
               MoveDraftStop(t, u, i)
        PROVE  UNCHANGED vars /\ PlansCurrent'
    BY <1>0, <2>2, MoveDraftStopCurrent DEF MoveDraftStop
  <2>3. ASSUME NEW t \in Routes, NEW order \in Permuted(t), ReorderOwn(t, order)
        PROVE  UNCHANGED vars /\ PlansCurrent'
    BY <1>0, <2>3, ReorderOwnCurrent DEF ReorderOwn
  <2>4. QED
    BY <1>4, <2>1, <2>2, <2>3 DEF Drive, Added
<1>5. QED
  BY <1>1, <1>2, <1>3, <1>4 DEF PlanNext

\* Every step of planning is one of the known things to every appointment.
LEMMA PlanStepView == ASSUME PlanSound, [PlanNext]_planVars PROVE \A a \in Appointments : View(a)
<1>1. TypeOK /\ RowsSound /\ PlansTyped /\ PlansCurrent
  BY DEF PlanSound, FixedSound, Sound
<1>2. QED
  BY <1>1, PlanSteps, StepView, AdoptView, AssignRouteView DEF Added

\* What adopting and assigning leave as it is.
LEMMA AddedLeaves ==
  ASSUME TypeOK, PlansTyped,
         Added
  PROVE  UNCHANGED <<staff, requests, calls>> /\ \A j \in Jobs : jobs'[j].data = jobs[j].data
<1>1. ASSUME NEW g \in Runs, NEW s, NEW a, Adopt(g, s, a)
      PROVE  UNCHANGED <<staff, requests, calls>> /\ \A j \in Jobs : jobs'[j].data = jobs[j].data
  BY <1>1, WorkflowKeepsData, TypeParts DEF Adopt
<1>2. ASSUME NEW t \in Routes, NEW place, AssignRoute(t, place)
      PROVE  UNCHANGED <<staff, requests, calls>> /\ \A j \in Jobs : jobs'[j].data = jobs[j].data
  BY <1>2, TypeParts DEF AssignRoute, SetWorkflowOfStops, JobsTyped
<1>3. QED
  BY <1>1, <1>2 DEF Added

\* Adopting and assigning keep every job in agreement with its appointments.
LEMMA AddedAgrees ==
  ASSUME PlanSound, NEW k \in Jobs,
         Added
  PROVE  JobAgrees(k)'
<1>1. /\ TypeOK /\ RowsSound /\ PlansTyped /\ PlansCurrent /\ JobsTyped
      /\ \A j \in Jobs : JobAgrees(j)
  BY TypeParts DEF PlanSound, FixedSound, Sound, JobsSound
<1>2. ASSUME NEW g \in Runs, runs[g].step = "saved", NEW s \in runs[g].pending,
             NEW a \in Appointments, Adopt(g, s, a)
      PROVE  JobAgrees(k)'
  <2>1. Enters(a, runs[g].job) /\ \A b \in Appointments : b # a => Same(b)
    BY <1>1, <1>2, AdoptView
  <2>2. runs[g] \in RunRecord
    BY <1>1, <1>2, RunCases DEF PlansTyped
  <2>3. runs[g].job \in Jobs
    BY <2>2 DEF RunRecord
  <2>4. JobStep
    BY <2>1, <2>3 DEF JobStep
  <2>5. QED
    BY <1>1, <2>4, AgreesKept
<1>3. QED
  BY <1>1, <1>2, AssignedAgrees DEF Added

\* Every step keeps the invariant.
LEMMA NextPlanSound == PlanSound /\ [PlanNext]_planVars => PlanSound'
<1> SUFFICES ASSUME PlanSound, [PlanNext]_planVars PROVE PlanSound'
  OBVIOUS
<1>1. /\ FixedSound /\ Sound /\ JobsSound /\ AnswersSound
      /\ TypeOK /\ JobsTyped /\ RowsSound /\ PlansTyped /\ PlansCurrent
  BY TypeParts DEF PlanSound, FixedSound, Sound
<1>2. (TypeOK /\ RowsSound /\ PlansTyped)'
  BY <1>1, PlanNextKeeps DEF PlanInv
<1>3. CASE [Next]_vars /\ PlansCurrent'
  <2>1. FixedSound'
    BY <1>1, <1>3, NextFixed
  <2>2. QED
    BY <1>2, <1>3, <2>1 DEF PlanSound
<1>4. CASE Added
  <2>1. UNCHANGED <<staff, requests, calls>> /\ \A j \in Jobs : jobs'[j].data = jobs[j].data
    BY <1>1, <1>4, AddedLeaves
  <2>2. \A k \in Jobs : JobAgrees(k)'
    BY <1>4, AddedAgrees
  <2>3. ASSUME NEW a \in Appointments
        PROVE  /\ Fresh(a)' /\ ConfirmationAgrees(a)'
               /\ Executable(a)' /\ AskedAboutThePlan(a)'
    <3>1. /\ appointments[a] \in Appointment /\ requests[a] \in Seq(Request)
          /\ appointments[a].job \in Jobs
      BY <1>1, JobType DEF TypeOK
    <3>2. /\ View(a) /\ Fresh(a) /\ ConfirmationAgrees(a)
          /\ Executable(a) /\ AskedAboutThePlan(a)
      BY <1>1, PlanStepView DEF FixedSound, AnswersSound
    <3>3. ServiceKept(a)
      BY <2>1 DEF ServiceKept, staff
    <3>4. jobs'[appointments[a].job].data = jobs[appointments[a].job].data
      BY <2>1, <3>1
    <3>5. Fresh(a)' /\ ConfirmationAgrees(a)'
      BY <3>1, <3>2, FreshKept, ConfirmationKept
    <3>6. Executable(a)' /\ AskedAboutThePlan(a)'
      BY <1>1, <3>1, <3>2, <3>3, <3>4, ExecutableKept, AskedKept
    <3>7. QED
      BY <3>5, <3>6
  <2>4. PlansCurrent'
    BY <1>1, <1>4, AdoptCurrent, AssignCurrent DEF Added
  <2>5. FixedSound'
    BY <1>2, <2>2, <2>3 DEF FixedSound, Sound, JobsSound, AnswersSound
  <2>6. QED
    BY <1>2, <2>4, <2>5 DEF PlanSound
<1>5. QED
  BY <1>3, <1>4, PlanSteps

-----------------------------------------------------------------------------
(* What scheduling promises holds with suggestions and routes as well *)

\* The answer of a customer and the status shown of it agree when proposals also
\* come from suggestions and routes.
THEOREM PlanningConfirmationConsistent == PlanSpec => []ConfirmationConsistent
<1>1. PlanInit => PlanSound
  BY InitPlanSound
<1>2. PlanSound /\ [PlanNext]_planVars => PlanSound'
  BY NextPlanSound
<1>3. PlanSound => ConfirmationConsistent
  BY DEF PlanSound, FixedSound, AnswersSound, ConfirmationAgrees, NewestOnly,
         ConfirmationConsistent
<1>4. QED
  BY <1>1, <1>2, <1>3, PTL DEF PlanSpec

\* A job has one open appointment at most and the workflow that belongs to it,
\* although adopting and assigning set the workflow past the appointment service,
\* a whole route of jobs at once.
THEOREM PlanningWorkflowAgrees == PlanSpec => []WorkflowAgrees
<1>1. PlanInit => PlanSound
  BY InitPlanSound
<1>2. PlanSound /\ [PlanNext]_planVars => PlanSound'
  BY NextPlanSound
<1>3. PlanSound => WorkflowAgrees
  BY DEF PlanSound, FixedSound, JobsSound, JobAgrees, WorkflowAgrees
<1>4. QED
  BY <1>1, <1>2, <1>3, PTL DEF PlanSpec

\* What planning created and someone fixed can be carried out.
THEOREM PlanningFixedExecutable == PlanSpec => []FixedIsExecutable
<1>1. PlanInit => PlanSound
  BY InitPlanSound
<1>2. PlanSound /\ [PlanNext]_planVars => PlanSound'
  BY NextPlanSound
<1>3. PlanSound => FixedIsExecutable
  BY DEF PlanSound, FixedSound, Executable, FixedIsExecutable
<1>4. QED
  BY <1>1, <1>2, <1>3, PTL DEF PlanSpec

\* And a customer who answers about it answers about the present plan.
THEOREM PlanningAnswersConcernPlan == PlanSpec => []AnswersConcernPresentPlan
<1>1. PlanInit => PlanSound
  BY InitPlanSound
<1>2. PlanSound /\ [PlanNext]_planVars => PlanSound'
  BY NextPlanSound
<1>3. PlanSound => AnswersConcernPresentPlan
  BY DEF PlanSound, FixedSound, AskedAboutThePlan, AnswersConcernPresentPlan
<1>4. QED
  BY <1>1, <1>2, <1>3, PTL DEF PlanSpec

\* The drivers and resources of adopted suggestions and assigned routes stay in
\* service: both look for them under the locks of their transaction.
THEOREM PlanningTeamsInService == PlanSpec => []ReservedTeamInService
<1> DEFINE Inv == PlanSound /\ \A a \in Appointments : InService(a)
<1>1. PlanInit => Inv
  <2> SUFFICES ASSUME PlanInit, NEW a \in Appointments PROVE InService(a)
    BY InitPlanSound
  <2>1. ~ReservingNow(a)
    BY DEF PlanInit, Init, NoAppointment, ReservingNow, Reserving
  <2>2. QED
    BY <2>1 DEF InService
<1>2. Inv /\ [PlanNext]_planVars => Inv'
  <2> SUFFICES ASSUME Inv, [PlanNext]_planVars PROVE Inv'
    OBVIOUS
  <2>1. PlanSound'
    BY NextPlanSound
  <2>2. Sound /\ TypeOK /\ PlansTyped
    BY DEF PlanSound, FixedSound, Sound
  <2>3. ASSUME NEW a \in Appointments PROVE InService(a)'
    <3>1. InService(a) /\ View(a) /\ appointments[a] \in Appointment
      BY <2>2, PlanStepView DEF TypeOK
    <3>2. UNCHANGED staff => ServiceKept(a)
      BY DEF ServiceKept, staff
    <3>3. ServiceKept(a)
      BY <2>2, <3>2, PlanSteps, StaffStep, AddedLeaves
    <3>4. QED
      BY <3>1, <3>3, InServiceKept
  <2>4. QED
    BY <2>1, <2>3
<1>3. Inv => ReservedTeamInService
  BY DEF InService, ReservedTeamInService
<1>4. QED
  BY <1>1, <1>2, <1>3, PTL DEF PlanSpec

\* A confirmation link that stopped working stays so when planning goes on.
THEOREM PlanningLinksNeverRevive == PlanSpec => LinkNeverRevives
<1> DEFINE Dead == \A a \in Appointments : \A i \in DOMAIN requests[a] : ~Live(a, i) => ~Live(a, i)'
<1>1. PlanInit => PlanSound
  BY InitPlanSound
<1>2. PlanSound /\ [PlanNext]_planVars => PlanSound'
  BY NextPlanSound
<1>3. PlanSound /\ [PlanNext]_planVars => [Dead]_vars
  <2> SUFFICES ASSUME PlanSound, [PlanNext]_planVars, NEW a \in Appointments,
                      NEW i \in DOMAIN requests[a], ~Live(a, i)
               PROVE  ~Live(a, i)'
    OBVIOUS
  <2>1. View(a) /\ appointments[a] \in Appointment /\ requests[a] \in Seq(Request)
    BY PlanStepView DEF PlanSound, FixedSound, Sound, TypeOK
  <2>2. QED
    BY <2>1, LinkKept
<1>4. QED
  BY <1>1, <1>2, <1>3, PTL DEF PlanSpec, LinkNeverRevives

\* Optimistic locking is complete with planning: adopting and assigning write no
\* appointment that a client could have seen.
THEOREM PlanningVersionsCoverState == PlanSpec => VersionCoversState
<1> DEFINE Covered == \A a \in Appointments :
                        Visible(a)' # Visible(a) => appointments[a]'.version > appointments[a].version
<1>1. PlanInit => PlanSound
  BY InitPlanSound
<1>2. PlanSound /\ [PlanNext]_planVars => PlanSound'
  BY NextPlanSound
<1>3. PlanSound /\ [PlanNext]_planVars => [Covered]_vars
  <2> SUFFICES ASSUME PlanSound, [PlanNext]_planVars, NEW a \in Appointments
               PROVE  Later(a) \/ Visible(a)' = Visible(a)
    BY DEF Later
  <2>1. /\ View(a) /\ Fresh(a)
        /\ appointments[a] \in Appointment /\ requests[a] \in Seq(Request)
    BY PlanStepView DEF PlanSound, FixedSound, AnswersSound, TypeOK
  <2>2. QED
    BY <2>1, VisibleKept
<1>4. QED
  BY <1>1, <1>2, <1>3, PTL DEF PlanSpec, VersionCoversState

\* A fixed appointment is called off with a reason only, planning or not.
THEOREM PlanningCancelledWithReason ==
  ASSUME Foresight = 0 PROVE PlanSpec => []CancelledFixedHasReason
<1>1. PlanInit => PlanSound /\ ReasonsSound
  BY InitPlanSound, InitReasons DEF PlanInit
<1>2. PlanSound /\ ReasonsSound /\ [PlanNext]_planVars => PlanSound' /\ ReasonsSound'
  <2> SUFFICES ASSUME PlanSound, ReasonsSound, [PlanNext]_planVars
               PROVE  PlanSound' /\ ReasonsSound'
    OBVIOUS
  <2>1. PlanSound' /\ AnswersSound' /\ TypeOK'
    BY NextPlanSound DEF PlanSound, FixedSound, Sound
  <2>2. \A a \in Appointments : View(a) /\ FixedOrOver(a)' /\ WithReason(a)'
    BY PlanStepView, ReasonKept
  <2>3. ASSUME UNCHANGED calls PROVE ReasonsSound'
    BY <2>1, <2>2, <2>3, CallKept DEF ReasonsSound
  <2>4. TypeOK /\ PlansTyped
    BY DEF PlanSound, FixedSound, Sound
  <2>5. ReasonsSound'
    BY <2>3, <2>4, PlanSteps, NextReasons, AddedLeaves
  <2>6. QED
    BY <2>1, <2>5
<1>3. ReasonsSound => CancelledFixedHasReason
  BY DEF ReasonsSound, WithReason, CancelledFixedHasReason
<1>4. QED
  BY <1>1, <1>2, <1>3, PTL DEF PlanSpec

-----------------------------------------------------------------------------
(* What a step of planning may never do *)

\* The checks of the service are repeated where suggestions and routes write
\* reservations past it: the crew is available at the reserved time, buffers and
\* travel included.
THEOREM PlanningReservationsVetted == PlanSpec => ReservationIsVetted
<1> DEFINE Repeated ==
      ~Swapping =>
        \A a \in Appointments :
          (Booking(a)' # Booking(a) /\ ReservingNow(a)') =>
            CrewAvailable(TeamOf(a), appointments[a], appointments[a].override)'
<1>1. PlanInit => PlanSound
  BY InitPlanSound
<1>2. PlanSound /\ [PlanNext]_planVars => PlanSound'
  BY NextPlanSound
<1>3. PlanSound /\ [PlanNext]_planVars => [Repeated]_vars
  <2> SUFFICES ASSUME PlanSound, [PlanNext]_planVars, ~Swapping, NEW a \in Appointments,
                      Booking(a)' # Booking(a), ReservingNow(a)'
               PROVE  CrewAvailable(TeamOf(a), appointments[a], appointments[a].override)'
    OBVIOUS
  <2>1. View(a) /\ appointments[a] \in Appointment
    BY PlanStepView DEF PlanSound, FixedSound, Sound, TypeOK
  <2>2. QED
    BY <2>1, VettedOrSwapped
<1>4. QED
  BY <1>1, <1>2, <1>3, PTL DEF PlanSpec, ReservationIsVetted

\* An appointment begins to reserve only in a transaction that has vetted it.
LEMMA BeginsVetted ==
  ASSUME NEW a \in Appointments, appointments[a] \in Appointment, View(a),
         ~ReservingNow(a), ReservingNow(a)'
  PROVE  Vetted(a)
<1> USE DEF ReservingNow, Reserving
<1>1. CASE Kept(a) \/ Expired(a)
  BY <1>1 DEF Kept, Expired, RowKept
<1>2. CASE Created(a) \/ Planned(a) \/ Restored(a)
  BY <1>2 DEF Created, Planned, Restored
<1>3. CASE Swapped(a) \/ Reassigned(a) \/ Shifted(a) \/ Fixed(a) \/ Ended(a) \/ Reissued(a)
  BY <1>3 DEF Swapped, Reassigned, Shifted, Fixed, Ended, Reissued, LifeKept
<1>4. CASE Outdated(a) \/ Answered(a)
  BY <1>4 DEF Outdated, Answered
<1>5. QED
  BY <1>1, <1>2, <1>3, <1>4, View(a) DEF View

\* Whatever path a reservation comes from (a plan, a proposal, a reopened
\* appointment, an adopted suggestion, an assigned route), when it is made the job
\* is given enough time, its transport is arranged and the team is in service.
THEOREM PlanningReservationsFit == PlanSpec => NewReservationFits
<1> DEFINE Fits == \A a \in Appointments :
              (~ReservingNow(a) /\ ReservingNow(a)') =>
                (/\ appointments[a].dur >= DataOf(appointments[a]).minutes
                 /\ TransportPlanned(EquipmentOf(a), DataOf(appointments[a]))
                 /\ AllActive(TeamOf(a)))'
<1>1. PlanInit => PlanSound
  BY InitPlanSound
<1>2. PlanSound /\ [PlanNext]_planVars => PlanSound'
  BY NextPlanSound
<1>3. PlanSound /\ PlanSound' /\ [PlanNext]_planVars => [Fits]_planVars
  <2> SUFFICES ASSUME PlanSound, PlanSound', [PlanNext]_planVars, NEW a \in Appointments,
                      ~ReservingNow(a), ReservingNow(a)'
               PROVE  /\ appointments'[a].dur >= DataOf(appointments[a])'.minutes
                      /\ TransportPlanned(EquipmentOf(a), DataOf(appointments[a]))'
                      /\ AllActive(TeamOf(a))'
    OBVIOUS
  <2>1. /\ View(a) /\ appointments[a] \in Appointment
        /\ appointments'[a] \in Appointment /\ appointments'[a].job \in Jobs
    BY PlanStepView, JobType DEF PlanSound, FixedSound, Sound, TypeOK
  <2>2. Vetted(a)
    BY <2>1, BeginsVetted
  <2>3. DataOf(appointments[a])' = DataOf(appointments'[a])
    BY <2>1, <2>2 DEF Vetted, DataOf
  <2>4. /\ appointments'[a].dur >= DataOf(appointments'[a]).minutes
        /\ TransportPlanned(EquipmentOf(a)', DataOf(appointments'[a]))
        /\ AllActive(TeamOf(a)')
    BY <2>2 DEF Vetted, EnsureReady, AssignmentsReady, ValidTeam, TeamOf
  <2>5. UNCHANGED <<drivers, resources>>
    BY <2>2 DEF Vetted, staff
  <2>6. AllActive(TeamOf(a))'
    BY <2>4, <2>5 DEF AllActive
  <2>7. TransportPlanned(EquipmentOf(a), DataOf(appointments[a]))'
    BY <2>3, <2>4, <2>5 DEF TransportPlanned
  <2>8. QED
    BY <2>3, <2>4, <2>6, <2>7
<1>4. QED
  BY <1>1, <1>2, <1>3, PTL DEF PlanSpec, NewReservationFits

\* A step that adopts a run is Adopt: ageing makes a run stale, never adopted.
LEMMA OnlyAdopting ==
  ASSUME PlansTyped, [PlanNext]_planVars, NEW g \in Runs, Adopting(g)
  PROVE  \E s \in runs[g].pending, a \in Appointments : Adopt(g, s, a)
<1>1. runs[g] \in RunRecord /\ runs[g].step = "saved" /\ runs'[g] = Adopted
  BY RunCases DEF Adopting, PlansTyped
<1>2. AgedRun(runs[g]) # Adopted
  BY <1>1 DEF AgedRun, Stale, Adopted, RunRecord
<1>3. runs'[g] # runs[g] /\ runs'[g] # AgedRun(runs[g]) /\ runs'[g].step = "adopted"
  BY <1>1, <1>2 DEF Adopted
<1>4. ~(Next /\ Age(runs, routes))
  BY <1>3 DEF Age
<1>5. ASSUME Drive PROVE FALSE
  <2>1. runs' # runs /\ ~(\E someRoutes : Age(runs, someRoutes))
    BY <1>3 DEF Age
  <2>2. ASSUME NEW t, NEW d, NEW chipper, NEW transport, NEW departure, NEW order,
               NEW endAtLastStop,
               PlanRoute(t, d, chipper, transport, departure, order, endAtLastStop)
        PROVE  FALSE
    BY <2>1, <2>2 DEF PlanRoute
  <2>3. ASSUME NEW t, NEW u, NEW i, MoveDraftStop(t, u, i) PROVE FALSE
    BY <2>1, <2>3 DEF MoveDraftStop
  <2>4. ASSUME NEW t, NEW place, AssignRoute(t, place) PROVE FALSE
    BY <2>1, <2>4 DEF AssignRoute
  <2>5. ASSUME NEW t, NEW order, ReorderOwn(t, order) PROVE FALSE
    BY <2>1, <2>5 DEF ReorderOwn
  <2>6. QED
    BY <1>5, <2>2, <2>3, <2>4, <2>5 DEF Drive
<1>6. ASSUME NEW h \in Runs, NEW j, NEW routed, Load(h, j, routed) PROVE FALSE
  <2>1. runs[h] = NoRun
    BY <1>6 DEF Load
  <2>2. h # g
    BY <1>1, <2>1 DEF NoRun
  <2>3. runs'[g] = runs[g]
    BY <1>6, <2>2 DEF Load, PlansTyped
  <2>4. QED
    BY <1>3, <2>3
<1>7. ASSUME NEW h \in Runs, SaveRun(h) PROVE FALSE
  BY <1>1, <1>3, <1>7 DEF SaveRun, PlansTyped
<1>8. ASSUME NEW h \in Runs, NEW s, NEW a, Adopt(h, s, a), h # g PROVE FALSE
  <2>1. runs'[g] = AgedRun([runs EXCEPT ![h] = Adopted][g])
    BY <1>8 DEF Adopt, Age
  <2>2. [runs EXCEPT ![h] = Adopted][g] = runs[g]
    BY <1>8 DEF PlansTyped
  <2>3. QED
    BY <1>3, <2>1, <2>2
<1>9. ~UNCHANGED planVars
  BY <1>3 DEF planVars
<1>10. Suggest
  BY <1>4, <1>5, <1>9 DEF PlanNext
<1>11. QED
  BY <1>6, <1>7, <1>8, <1>10 DEF Suggest

\* A suggestion computed with the travel times, and stored while the inputs were
\* those it was computed from, can be reached in time from its neighbours, and in
\* time for them, when it is adopted, however much later and whatever was planned
\* and called off in between: the fingerprint lists every reservation.
THEOREM SuggestionsAdoptedAsComputed == PlanSpec => AdoptedAsSuggested
<1> DEFINE Reached == \A g \in Runs :
              (Adopting(g) /\ runs[g].routed /\ runs[g].calm) => ReachedInTime(g)
<1>1. PlanInit => PlanSound
  BY InitPlanSound
<1>2. PlanSound /\ [PlanNext]_planVars => PlanSound'
  BY NextPlanSound
<1>3. PlanSound /\ [PlanNext]_planVars => [Reached]_planVars
  <2> SUFFICES ASSUME PlanSound, [PlanNext]_planVars, NEW g \in Runs, Adopting(g),
                      runs[g].routed, runs[g].calm
               PROVE  ReachedInTime(g)
    OBVIOUS
  <2>1. TypeOK /\ PlansTyped /\ PlansCurrent
    BY DEF PlanSound, FixedSound, Sound
  <2>2. PICK s \in runs[g].pending, a \in Appointments : Adopt(g, s, a)
    BY <2>1, OnlyAdopting
  <2>3. /\ ~ReservingNow(a) /\ ReservingNow(a)'
        /\ appointments'[a].start = s.start /\ CrewOf(a)' = s.team.drivers
    BY <2>1, <2>2, AdoptView
  <2>4. TravelFeasible(s)
    <3>1. FeasibleAmong(s, runs[g].inputs)
      BY <2>1 DEF Adopting, PlansCurrent, RunCurrent
    <3>2. runs[g].inputs = Inputs
      BY <2>2 DEF Adopt
    <3>3. QED
      BY <3>1, <3>2, InputsTell
  <2>5. QED
    BY <2>3, <2>4 DEF ReachedInTime
<1>4. QED
  BY <1>1, <1>2, <1>3, PTL DEF PlanSpec, AdoptedAsSuggested

\* So does a route: a step after which a draft is assigned is AssignRoute.
LEMMA OnlyAssigning ==
  ASSUME PlansTyped, [PlanNext]_planVars, NEW t \in Routes, Assigning(t)
  PROVE  \E place \in Placements(t) : AssignRoute(t, place)
<1>1. routes[t] \in RouteRecord /\ routes[t].status = "draft" /\ routes'[t].status = "assigned"
  BY RouteCases DEF Assigning, IsDraft, PlansTyped
<1>2. AgedRoute(routes[t]).status = "draft"
  BY <1>1 DEF AgedRoute, RouteRecord
<1>3. routes'[t] # routes[t] /\ routes'[t] # AgedRoute(routes[t])
  BY <1>1, <1>2
<1>4. ~(Next /\ Age(runs, routes))
  BY <1>3 DEF Age
<1>5. ~Suggest
  BY <1>3 DEF Suggest, Load, SaveRun, Adopt, Age
<1>6. ~UNCHANGED planVars
  BY <1>3 DEF planVars
<1>7. ASSUME NEW u \in Routes, NEW d, NEW chipper, NEW transport, NEW departure, NEW order,
             NEW endAtLastStop,
             PlanRoute(u, d, chipper, transport, departure, order, endAtLastStop)
      PROVE  FALSE
  <2>1. \A r \in Routes : routes'[r] = routes[r] \/ routes'[r].status = "draft"
    BY <1>7 DEF PlanRoute, PlansTyped
  <2>2. QED
    BY <1>1, <1>3, <2>1
<1>8. ASSUME NEW u \in Routes, NEW v \in Routes, NEW i, MoveDraftStop(u, v, i) PROVE FALSE
  <2>1. PICK left \in WithStops(routes[u], Without(routes[u].stops, i)),
             joined \in WithStops(routes[v], Append(routes[v].stops, routes[u].stops[i])) :
          routes' = [routes EXCEPT ![u] = left, ![v] = joined]
    BY <1>8 DEF MoveDraftStop
  <2>2. routes[u] \in RouteRecord /\ routes[v] \in RouteRecord
    BY <1>8, RouteCases DEF MoveDraftStop, IsDraft, PlansTyped
  <2>3. left.status = routes[u].status /\ joined.status = routes[v].status
    BY <2>1, <2>2 DEF WithStops, RouteRecord
  <2>4. \A r \in Routes : routes'[r] = routes[r] \/ routes'[r].status = "draft"
    BY <1>8, <2>1, <2>3 DEF MoveDraftStop, IsDraft, PlansTyped
  <2>5. QED
    BY <1>1, <1>3, <2>4
<1>9. ASSUME NEW u \in Routes, NEW order, ReorderOwn(u, order) PROVE FALSE
  BY <1>1, <1>3, <1>9 DEF ReorderOwn, PlansTyped
<1>10. ASSUME NEW u \in Routes, NEW place, AssignRoute(u, place), u # t PROVE FALSE
  <2>1. \A new : [routes EXCEPT ![u] = new][t] = routes[t]
    BY <1>10 DEF PlansTyped
  <2>2. routes'[t] = AgedRoute(routes[t])
    BY <1>10, <2>1 DEF AssignRoute, Age
  <2>3. QED
    BY <1>3, <2>2
<1>11. Drive
  BY <1>4, <1>5, <1>6 DEF PlanNext
<1>12. QED
  BY <1>7, <1>8, <1>9, <1>10, <1>11 DEF Drive

\* Among the indices with a property there is a first.
LEMMA First ==
  ASSUME NEW S \in SUBSET Nat, S # {}
  PROVE  \E n \in S : \A m \in S : n <= m
<1> DEFINE R == OpToRel(<, Nat)
<1>1. IsWellFoundedOn(R, Nat)
  BY NatLessThanWellFounded
<1>2. \A m, n \in Nat : m < n => <<m, n>> \in R
  BY DEF OpToRel
<1> HIDE DEF R
<1>3. PICK n \in S : \A m \in S : ~(<<m, n>> \in R)
  BY <1>1, WFMin
<1>4. ASSUME NEW m \in S PROVE n <= m
  <2>1. m \in Nat /\ n \in Nat
    OBVIOUS
  <2>2. ~(m < n)
    BY <2>1, <1>2, <1>3
  <2>3. QED
    BY <2>1, <2>2
<1>5. QED
  BY <1>4

\* The stops of an assigned route leave no gap between departure and return: the
\* way to each stop is reserved from where the one before it ends.
LEMMA NoGap ==
  ASSUME NEW route \in RouteRecord, route.stops # <<>>,
         \A i \in DOMAIN route.stops : Chained(route, i),
         NEW slot \in Int, route.departure <= slot,
         slot < Ends(route.stops[Len(route.stops)]) +
                  (IF route.end = route.stops[Len(route.stops)].job THEN 0 ELSE Travel)
  PROVE  \E i \in DOMAIN route.stops :
           From(StopProposal(route, i)) <= slot /\ slot < To(StopProposal(route, i))
<1> DEFINE stops == route.stops
           last == Len(stops)
           begin(i) == From(StopProposal(route, i))
           end(i) == To(StopProposal(route, i))
           S == {i \in DOMAIN stops : slot < end(i)}
<1>1. stops \in Seq(Stop) /\ route.departure \in Int
  BY DEF RouteRecord
<1>2. last \in Nat \ {0} /\ DOMAIN stops = 1 .. last
  BY <1>1, LenProperties, EmptySeq
<1>3. \A i \in 1 .. last : stops[i] \in Stop
  BY <1>1, <1>2, LenProperties, ElementOfSeq
<1>4. ASSUME NEW i \in 1 .. last
      PROVE  /\ Ends(stops[i]) \in Int
             /\ end(i) = Ends(stops[i]) + (IF i = last THEN Return(route) ELSE 0)
             /\ begin(i) = IF i = 1 THEN route.departure ELSE Ends(stops[i - 1])
  <2>1. /\ StopProposal(route, i).start = stops[i].start
        /\ StopProposal(route, i).dur = stops[i].dur
        /\ StopProposal(route, i).after = IF i = last THEN Return(route) ELSE 0
    BY ProposalColumns DEF StopProposal
  <2>2. stops[i].start \in Int /\ stops[i].dur \in Int
    BY <1>3 DEF Stop
  <2>3. Chained(route, i)
    BY <1>2
  <2>4. Return(route) \in Int
    BY PlanningAssumption DEF Return
  <2>5. QED
    BY <2>1, <2>2, <2>3, <2>4 DEF To, Ends, Chained
<1>5. Return(route) = IF route.end = stops[last].job THEN 0 ELSE Travel
  BY DEF Return
<1> HIDE DEF begin, end
<1>6. slot < end(last)
  BY <1>2, <1>4, <1>5
<1>7. S \in SUBSET Nat /\ S # {}
  BY <1>2, <1>6
<1>8. PICK i \in S : \A m \in S : i <= m
  BY <1>7, First
<1>9. i \in 1 .. last /\ slot < end(i)
  BY <1>2, <1>8
<1>10. begin(i) <= slot
  <2>1. CASE i = 1
    BY <1>4, <1>9, <2>1
  <2>2. CASE i # 1
    <3>1. i - 1 \in 1 .. last /\ i - 1 # last /\ ~(i <= i - 1)
      BY <1>2, <1>9, <2>2
    <3>2. i - 1 \notin S
      BY <1>8, <3>1
    <3>3. ~(slot < end(i - 1))
      BY <1>2, <3>1, <3>2
    <3>4. end(i - 1) = Ends(stops[i - 1]) + 0 /\ Ends(stops[i - 1]) \in Int
      BY <1>4, <3>1
    <3>5. begin(i) = Ends(stops[i - 1])
      BY <1>4, <1>9, <2>2
    <3>6. QED
      BY <3>3, <3>4, <3>5
  <2>3. QED
    BY <2>1, <2>2
<1>11. QED
  BY <1>2, <1>9, <1>10 DEF begin, end

\* From the departure to the return, on the way between the stops as well, a route
\* that was assigned has reserved its driver and its machines, whatever was
\* rearranged before and whatever the length of its stops.
THEOREM RoutesReservedThroughout == PlanSpec => RouteReservedThroughout
<1> DEFINE back(route) ==
             Ends(route.stops[Len(route.stops)]) +
               (IF route.end = route.stops[Len(route.stops)].job THEN 0 ELSE Travel)
           DriverAt(route, slot) ==
             \E row \in driverRows' \ driverRows :
               /\ row.driver = route.driver /\ row.active
               /\ row.from <= slot /\ slot < row.to
           MachineAt(r, slot) ==
             \E row \in resourceRows' \ resourceRows :
               /\ row.resource = r /\ row.active
               /\ row.from <= slot /\ slot < row.to
           Covered ==
             \A t \in Routes :
               Assigning(t) =>
                 \A slot \in routes[t].departure .. back(routes[t]) - 1 :
                   /\ DriverAt(routes[t], slot)
                   /\ \A r \in {routes[t].chipper, routes[t].transport} \ {Nothing} :
                        MachineAt(r, slot)
<1>1. PlanInit => PlanSound
  BY InitPlanSound
<1>2. PlanSound /\ [PlanNext]_planVars => PlanSound'
  BY NextPlanSound
<1>3. PlanSound /\ [PlanNext]_planVars => [Covered]_planVars
  <2> SUFFICES ASSUME PlanSound, [PlanNext]_planVars, NEW t \in Routes, Assigning(t),
                      NEW slot \in routes[t].departure .. back(routes[t]) - 1
               PROVE  /\ DriverAt(routes[t], slot)
                      /\ \A r \in {routes[t].chipper, routes[t].transport} \ {Nothing} :
                           MachineAt(r, slot)
    OBVIOUS
  <2> DEFINE route == routes[t]
  <2>1. TypeOK /\ RowsSound /\ PlansTyped /\ PlansCurrent
    BY DEF PlanSound, FixedSound, Sound
  <2>2. PICK place \in Placements(t) : AssignRoute(t, place)
    BY <2>1, OnlyAssigning
  <2>3. /\ route \in RouteRecord
        /\ \A i \in DOMAIN route.stops : Reservable(route, i) /\ route.stops[i] \in Stop
    BY <2>1, <2>2, AssignPlaces
  <2>4. \A i \in DOMAIN route.stops :
          /\ DriverRow(place[i], StopProposal(route, i), route.driver)
               \in driverRows' \ driverRows
          /\ \A e \in TeamOfRoute(route).equipment :
               ResourceRow(place[i], StopProposal(route, i), e.resource, e.purpose,
                           Exclusive[e.resource]) \in resourceRows' \ resourceRows
    BY <2>1, <2>2, AssignWrites
  <2>5. route.stops # <<>> /\ \A i \in DOMAIN route.stops : Chained(route, i)
    BY <2>1, <2>3 DEF Assigning, PlansCurrent, RouteCurrent, Reservable
  <2>6. route.departure \in Int /\ back(route) \in Int
    <3>1. route.stops \in Seq(Stop) /\ route.departure \in Int
      BY <2>3 DEF RouteRecord
    <3>2. Len(route.stops) \in DOMAIN route.stops
      BY <2>5, <3>1, LenProperties, EmptySeq
    <3>3. route.stops[Len(route.stops)] \in Stop
      BY <2>3, <3>2
    <3>4. Ends(route.stops[Len(route.stops)]) \in Int
      BY <3>3 DEF Stop, Ends
    <3>5. QED
      BY <3>1, <3>4, PlanningAssumption
  <2>7. slot \in Int /\ route.departure <= slot /\ slot < back(route)
    BY <2>6
  <2>8. PICK i \in DOMAIN route.stops :
          From(StopProposal(route, i)) <= slot /\ slot < To(StopProposal(route, i))
    BY <2>3, <2>5, <2>7, NoGap
  <2> DEFINE ap == StopProposal(route, i)
  <2>9. Reserving(ap.life)
    BY <2>3, StopProposalType DEF Reserving
  <2>10. DriverAt(route, slot)
    <3> DEFINE row == DriverRow(place[i], ap, route.driver)
    <3>1. /\ row.driver = route.driver /\ row.active = Reserving(ap.life)
          /\ row.from = From(ap) /\ row.to = To(ap)
      BY DEF DriverRow
    <3>2. QED
      BY <2>4, <2>8, <2>9, <3>1
  <2>11. ASSUME NEW r \in {route.chipper, route.transport} \ {Nothing}
         PROVE  MachineAt(r, slot)
    <3>1. PICK e \in TeamOfRoute(route).equipment : e.resource = r
      <4>1. \A purpose : [resource |-> r, purpose |-> purpose].resource = r
        OBVIOUS
      <4>2. \/ [resource |-> r, purpose |-> "chipping"] \in TeamOfRoute(route).equipment
            \/ [resource |-> r, purpose |-> "transport"] \in TeamOfRoute(route).equipment
        BY DEF TeamOfRoute
      <4>3. QED
        BY <4>1, <4>2
    <3> DEFINE row == ResourceRow(place[i], ap, e.resource, e.purpose, Exclusive[e.resource])
    <3>2. /\ row.resource = r /\ row.active = Reserving(ap.life)
          /\ row.from = From(ap) /\ row.to = To(ap)
      BY <3>1 DEF ResourceRow
    <3>3. QED
      BY <2>4, <2>8, <2>9, <3>2
  <2>12. QED
    BY <2>10, <2>11
<1>4. QED
  BY <1>1, <1>2, <1>3, PTL DEF PlanSpec, RouteReservedThroughout
=============================================================================
