------------------------------ MODULE Planning ------------------------------
(***************************************************************************)
(* Suggestions and routes (planning.go, route.go and their stores): two    *)
(* more ways to create proposals, composed with the operations of module   *)
(* Scheduling.                                                             *)
(*                                                                         *)
(* A suggestion run reads a snapshot (Load), computes and stores its best  *)
(* suggestions with a fingerprint of the inputs (SaveRun), and much later  *)
(* one of them is adopted, if the fingerprint of that moment is equal to   *)
(* it (Adopt).                                                             *)
(* A route is drafted for a driver and a day, rearranged, and turned into  *)
(* proposals one behind the other (AssignRoute).                           *)
(*                                                                         *)
(* A fingerprint lists rows with their versions, which every update counts *)
(* up.  A listed row that changes or goes is never listed again as it was, *)
(* and the run becomes stale; a row that is added and goes again, as an    *)
(* appointment that is planned and cancelled, leaves the fingerprint as it *)
(* was.  Instead of comparing the version of its job, a run becomes stale  *)
(* and a stop is no longer fresh when the job changes.                     *)
(***************************************************************************)
EXTENDS SchedulingSafety

CONSTANTS
  Runs,            \* identities of suggestion runs
  Routes,          \* identities of routes
  Nothing,         \* no resource, no appointment; a route that ends where it began
  Travel,          \* slots of travel between any two different places
  PlanningBuffer,  \* Config.BufferMinutes, in slots
  MaxSuggestions,  \* suggestions kept by a run
  Departures,      \* times at which a route may begin
  Times,           \* bound: times at which the work at a stop may begin
  MaxStops,        \* RouteConfig.MaxStops
  MaxBegun         \* bound: runs and routes begun

ASSUME PlanningAssumption ==
  /\ {Travel, PlanningBuffer} \subseteq Nat
  /\ Departures \subseteq Int /\ Times \subseteq Int
  /\ {MaxSuggestions, MaxStops, MaxBegun} \subseteq Nat \ {0}
  /\ Nothing \notin Resources \cup Appointments \cup Jobs
  /\ \A data \in JobData : data.minutes > 0

VARIABLES
  runs,    \* tables planning_runs and planning_suggestions; the snapshot in flight
  routes   \* tables route_drafts and route_stops

planVars == <<vars, runs, routes>>

Held == {a \in Appointments : ReservingNow(a)}

-----------------------------------------------------------------------------
(* What a run and a stop depend on *)

\* Seeded fault: the fingerprint does not cover the reservations.
InputsUnreserved ==
  [drivers |-> {<<d, drivers[d].canComplete>> : d \in {d \in Drivers : drivers[d].active}},
   resources |-> {<<r, resources[r].type>> : r \in {r \in Resources : resources[r].active}}]

\* CurrentPlanningInputFingerprint, without the job itself.
Inputs ==
  [drivers |-> {<<d, drivers[d].canComplete>> : d \in {d \in Drivers : drivers[d].active}},
   absences |-> UNION {{<<d, slot>> : slot \in drivers[d].absent} :
                         d \in {d \in Drivers : drivers[d].active}},
   resources |-> {<<r, resources[r].type, resources[r].exclusive>> :
                    r \in {r \in Resources : resources[r].active}},
   reservations |->
     {<<a, appointments[a].version, From(appointments[a]), To(appointments[a]), CrewOf(a),
        {e.resource : e \in EquipmentOf(a)}, DataOf(appointments[a])>> : a \in Held}]

\* Every row listed then is still there, unchanged.
StillListed(inputs) == \A table \in DOMAIN inputs : inputs[table] \subseteq Inputs'[table]

IsDraft(t) == routes[t].status = "draft"
NoRoute == [status |-> "none"]
NoRun == [step |-> "none"]
Stale == [step |-> "stale"]
Adopted == [step |-> "adopted"]

RoomForMore ==
  Cardinality({g \in Runs : runs[g] # NoRun})
    + Cardinality({t \in Routes : routes[t] # NoRoute}) < MaxBegun

JobUnchanged(j) == jobs'[j] = jobs[j]

\* A run whose job or one of whose listed rows has changed is never adopted; while
\* it is computed only its job matters, as the fingerprint is taken later.
AgedRun(run) ==
  CASE run.step \notin {"loaded", "saved"} -> run
    [] run.step = "loaded" -> IF JobUnchanged(run.job) THEN run ELSE Stale
    [] run.step = "saved" ->
         IF JobUnchanged(run.job) /\ StillListed(run.inputs) THEN run ELSE Stale

AgedStops(stops) ==
  [i \in DOMAIN stops |-> [stops[i] EXCEPT !.fresh = @ /\ JobUnchanged(stops[i].job)]]

AgedRoute(route) ==
  IF route.status # "draft" THEN route ELSE [route EXCEPT !.stops = AgedStops(route.stops)]

Age(someRuns, someRoutes) ==
  /\ runs' = [g \in Runs |-> AgedRun(someRuns[g])]
  /\ routes' = [t \in Routes |-> AgedRoute(someRoutes[t])]

-----------------------------------------------------------------------------
(* Suggestions *)

\* selectResourceChoices
Choices(data) ==
  LET active(type) == {r \in Resources : resources[r].active /\ resources[r].type = type}
      chipping == {[resource |-> r, purpose |-> "chipping"] : r \in active("chipper")}
      transport == {[resource |-> r, purpose |-> "transport"] : r \in active("transport_vehicle")}
  IN CASE data.transport = "internal" -> {{c, v} : c \in chipping, v \in transport}
       [] data.transport = "unplanned" -> {}
       [] OTHER -> {{c} : c \in chipping}

Suggestion(start, data, d, equipment) ==
  [start |-> start, dur |-> data.minutes + PlanningBuffer,
   team |-> [drivers |-> {d}, equipment |-> equipment]]

EndOf(s) == s.start + s.dur

Conflicts(s) ==
  \E a \in Held :
    /\ s.start < To(appointments[a]) /\ From(appointments[a]) < EndOf(s)
    /\ \/ s.team.drivers \cap CrewOf(a) # {}
       \/ {e.resource : e \in s.team.equipment} \cap {e.resource : e \in EquipmentOf(a)} # {}

\* The reservations before and after leave time to travel, whoever drives there;
\* only the nearest ones are looked at, and the others are farther away.
TravelFeasible(s) ==
  \A a \in Held :
    /\ To(appointments[a]) <= s.start => s.start - To(appointments[a]) >= Travel
    /\ EndOf(s) <= From(appointments[a]) => From(appointments[a]) - EndOf(s) >= Travel

\* routed: the travel times were available, otherwise they are not looked at.
Candidates(j, routed) ==
  {s \in {Suggestion(start, jobs[j].data, d, equipment) :
            start \in Starts, d \in {d \in Drivers : drivers[d].active},
            equipment \in Choices(jobs[j].data)} :
     /\ \A d \in s.team.drivers : \A t \in s.start .. EndOf(s) - 1 : t \notin drivers[d].absent
     /\ ~Conflicts(s)
     /\ routed => TravelFeasible(s)}

\* LoadSnapshot and generate: which candidates score best is left open.
Load(g, j, routed) ==
  /\ runs[g] = NoRun /\ RoomForMore
  /\ jobs[j].waiting /\ ~jobs[j].archived /\ jobs[j].workflow = "waitlist"
  /\ \E chosen \in SUBSET Candidates(j, routed) :
       /\ chosen # {} /\ Cardinality(chosen) <= MaxSuggestions
       /\ runs' = [runs EXCEPT ![g] =
            [step |-> "loaded", job |-> j, routed |-> routed, pending |-> chosen,
             inputs |-> Inputs, calm |-> TRUE]]
  /\ UNCHANGED <<vars, routes>>

\* The fingerprint is taken now, the versions of job and waiting list were loaded.
\* History: calm says that the inputs are those that were loaded.
SaveRun(g) ==
  /\ runs[g].step = "loaded"
  /\ runs' = [runs EXCEPT ![g] =
       [@ EXCEPT !.step = "saved", !.inputs = Inputs, !.calm = runs[g].inputs = Inputs]]
  /\ UNCHANGED <<vars, routes>>

Proposal(j, start, dur, buffer) ==
  [NewAppointment(j, start, dur, buffer) EXCEPT !.life = "proposal"]

Adopt(g, s, a) ==
  LET run == runs[g]
      ap == Proposal(run.job, s.start, s.dur, [before |-> 0, after |-> 0])
  IN /\ run.step = "saved"
     /\ s \in run.pending
     /\ jobs[run.job].workflow = "waitlist"
     /\ AllActive(s.team)
     /\ run.inputs = Inputs
     /\ CrewAvailable(s.team, ap, FALSE)
     /\ ~Used(a)
     /\ SaveTeam(a, ap, s.team)
     /\ AssignmentsReady(s.team, jobs[run.job].data, FALSE)
     /\ SetWorkflow(run.job, "planning", TRUE)
     /\ UNCHANGED <<staff, requests, calls>>
     /\ Age([runs EXCEPT ![g] = Adopted], routes)

-----------------------------------------------------------------------------
(* Routes *)

Ends(stop) == stop.start + stop.dur

At(stops, starts) == [i \in DOMAIN stops |-> [stops[i] EXCEPT !.start = starts[i]]]

\* calculateDirections: the stops follow each other, with travel before each.
FollowOn(departure, stops) ==
  \A i \in DOMAIN stops :
    stops[i].start = Travel + IF i = 1 THEN departure ELSE Ends(stops[i - 1])

\* The stops with their times; there is one such sequence, or none within Times.
Scheduled(departure, stops) ==
  {timed \in {At(stops, starts) : starts \in [DOMAIN stops -> Times]} : FollowOn(departure, timed)}

\* Seeded fault: the way back is forgotten.
NoReturn(route) == 0

\* A route that ends at its last stop has no way back.
Return(route) == IF route.end = route.stops[Len(route.stops)].job THEN 0 ELSE Travel

\* lockRouteSelections
Selectable(d, chipper, transport) ==
  /\ drivers[d].active /\ drivers[d].canComplete
  /\ chipper # Nothing => resources[chipper].active /\ resources[chipper].type = "chipper"
  /\ transport # Nothing =>
       resources[transport].active /\ resources[transport].type = "transport_vehicle"

Transportable(data, transport) ==
  \/ data.transport \in {"none", "external"}
  \/ data.transport = "internal" /\ transport # Nothing

Routable(j) ==
  /\ jobs[j].waiting /\ ~jobs[j].archived
  /\ jobs[j].workflow \in {"waitlist", "planning"}
  /\ OpenOf(j) = {}

Orders ==
  UNION {{order \in [1 .. n -> Jobs] : \A i, k \in 1 .. n : order[i] = order[k] => i = k} :
           n \in 1 .. MaxStops}

NewStop(j) ==
  [job |-> j, start |-> 0, dur |-> jobs[j].data.minutes, fresh |-> TRUE, appointment |-> Nothing]

\* Plan and SaveRouteDraft, for a new route and for a draft.  The order is the one
\* asked for or the optimised one.
PlanRoute(t, d, chipper, transport, departure, order, endAtLastStop) ==
  /\ IsDraft(t) \/ (routes[t] = NoRoute /\ RoomForMore)
  /\ \A i \in DOMAIN order :
       Routable(order[i]) /\ Transportable(jobs[order[i]].data, transport)
  /\ Selectable(d, chipper, transport)
  /\ \E stops \in Scheduled(departure, [i \in DOMAIN order |-> NewStop(order[i])]) :
       routes' = [routes EXCEPT ![t] =
         [status |-> "draft", driver |-> d, chipper |-> chipper, transport |-> transport,
          departure |-> departure,
          end |-> IF endAtLastStop THEN order[Len(order)] ELSE Nothing,
          stops |-> stops]]
  /\ UNCHANGED <<vars, runs>>

Without(stops, i) == SubSeq(stops, 1, i - 1) \o SubSeq(stops, i + 1, Len(stops))

WithStops(route, stops) ==
  {[route EXCEPT !.stops = timed] : timed \in Scheduled(route.departure, stops)}

\* Neither the job nor the transport is looked at again here.
MoveDraftStop(t, u, i) ==
  LET source == routes[t]
      target == routes[u]
      moved == source.stops[i]
  IN /\ t # u /\ IsDraft(t) /\ IsDraft(u)
     /\ Len(source.stops) >= 2 /\ Len(target.stops) < MaxStops
     /\ \A k \in DOMAIN target.stops : target.stops[k].job # moved.job
     /\ \A route \in {source, target} : Selectable(route.driver, route.chipper, route.transport)
     /\ \E left \in WithStops(source, Without(source.stops, i)),
           joined \in WithStops(target, Append(target.stops, moved)) :
          routes' = [routes EXCEPT ![t] = left, ![u] = joined]
     /\ UNCHANGED <<vars, runs>>

TeamOfRoute(route) ==
  [drivers |-> {route.driver},
   equipment |->
     {[resource |-> r, purpose |-> "chipping"] : r \in {route.chipper} \ {Nothing}} \cup
     {[resource |-> r, purpose |-> "transport"] : r \in {route.transport} \ {Nothing}}]

\* The buffers of a stop reserve the way to it, those of the last one the way back.
StopProposal(route, i) ==
  LET stop == route.stops[i] IN
  Proposal(stop.job, stop.start, stop.dur,
           [before |-> Travel, after |-> IF i = Len(route.stops) THEN Return(route) ELSE 0])

\* Seeded fault: the version of the job is not compared.
AssignableAtAnyVersion(route, i) ==
  LET job == jobs[route.stops[i].job] IN
  /\ job.waiting /\ ~job.archived /\ job.workflow \in {"waitlist", "planning"}
  /\ Transportable(job.data, route.transport)

\* validateRouteStopForAssignment
Assignable(route, i) ==
  LET job == jobs[route.stops[i].job] IN
  /\ route.stops[i].fresh
  /\ job.waiting /\ ~job.archived /\ job.workflow \in {"waitlist", "planning"}
  /\ Transportable(job.data, route.transport)

\* Each stop is reserved from where the one before it ends.
Chained(route, i) ==
  From(StopProposal(route, i)) = IF i = 1 THEN route.departure ELSE Ends(route.stops[i - 1])

\* Seeded faults: availability without the buffers; jobs that keep their workflow.
PlannedTimesAvailable(team, ap) ==
  CrewAvailable(team, [ap EXCEPT !.before = 0, !.after = 0], FALSE)
LeaveWorkflow(route) == jobs' = jobs

ReservedTimesAvailable(team, ap) == CrewAvailable(team, ap, FALSE)

SetWorkflowOfStops(route) ==
  jobs' = [j \in Jobs |->
    IF \E i \in DOMAIN route.stops : route.stops[i].job = j
    THEN [jobs[j] EXCEPT !.workflow = "planning"] ELSE jobs[j]]

\* A route without chipper skips the readiness query.
Reservable(route, i) ==
  LET team == TeamOfRoute(route) IN
  /\ Assignable(route, i)
  /\ Chained(route, i)
  /\ ReservedTimesAvailable(team, StopProposal(route, i))
  /\ route.chipper # Nothing =>
       AssignmentsReady(team, jobs[route.stops[i].job].data, FALSE)

\* place gives every stop its new appointment.
AssignRoute(t, place) ==
  LET route == routes[t]
      team == TeamOfRoute(route)
      of(a) == CHOOSE i \in DOMAIN route.stops : place[i] = a
      created == {place[i] : i \in DOMAIN place}
  IN /\ IsDraft(t)
     /\ Selectable(route.driver, route.chipper, route.transport)
     /\ \A i \in DOMAIN route.stops : ~Used(place[i]) /\ Reservable(route, i)
     /\ Write([a \in Appointments |->
                 IF a \in created THEN StopProposal(route, of(a)) ELSE appointments[a]],
              driverRows \cup {DriverRow(a, StopProposal(route, of(a)), route.driver) : a \in created},
              resourceRows \cup
                {ResourceRow(a, StopProposal(route, of(a)), e.resource, e.purpose,
                             Exclusive[e.resource]) : a \in created, e \in team.equipment})
     /\ SetWorkflowOfStops(route)
     /\ UNCHANGED <<staff, requests, calls>>
     /\ Age(runs, [routes EXCEPT ![t] =
          [route EXCEPT !.status = "assigned",
                        !.stops = [i \in DOMAIN @ |-> [@[i] EXCEPT !.appointment = place[i]]]]])

\* ReorderOwn and SaveRouteOrder: the driver changes the order of the stops of an
\* assigned route; the appointments keep their times.
ReorderOwn(t, order) ==
  /\ routes[t].status = "assigned"
  /\ routes' = [routes EXCEPT ![t].stops = [i \in DOMAIN @ |-> @[order[i]]]]
  /\ UNCHANGED <<vars, runs>>

-----------------------------------------------------------------------------
(* The specification *)

PlanInit ==
  /\ Init
  /\ runs = [g \in Runs |-> NoRun]
  /\ routes = [t \in Routes |-> NoRoute]

Suggest ==
  \E g \in Runs :
    \/ \E j \in Jobs, routed \in BOOLEAN : Load(g, j, routed)
    \/ SaveRun(g)
    \/ runs[g].step = "saved" /\ \E s \in runs[g].pending, a \in Appointments : Adopt(g, s, a)

Injective(f) == \A i, k \in DOMAIN f : f[i] = f[k] => i = k
Placements(t) == {place \in [DOMAIN routes[t].stops -> Appointments] : Injective(place)}
Permuted(t) == {order \in [DOMAIN routes[t].stops -> DOMAIN routes[t].stops] : Injective(order)}

Drive ==
  \E t \in Routes :
    \/ \E d \in Drivers, chipper, transport \in Resources \cup {Nothing}, departure \in Departures,
          order \in Orders, endAtLastStop \in BOOLEAN :
         PlanRoute(t, d, chipper, transport, departure, order, endAtLastStop)
    \/ \E u \in Routes : IsDraft(t) /\ \E i \in DOMAIN routes[t].stops : MoveDraftStop(t, u, i)
    \/ IsDraft(t) /\ \E place \in Placements(t) : AssignRoute(t, place)
    \/ routes[t].status = "assigned" /\ \E order \in Permuted(t) : ReorderOwn(t, order)

PlanNext ==
  \/ Next /\ Age(runs, routes)
  \/ Suggest
  \/ Drive

PlanSpec == PlanInit /\ [][PlanNext]_planVars

-----------------------------------------------------------------------------
(* Properties *)

\* Whatever path a reservation comes from, when it is made the job is given enough
\* time, its transport is arranged and the team is in service.
NewReservationFits ==
  [][\A a \in Appointments :
       (~ReservingNow(a) /\ ReservingNow(a)') =>
         (/\ appointments[a].dur >= DataOf(appointments[a]).minutes
          /\ TransportPlanned(EquipmentOf(a), DataOf(appointments[a]))
          /\ AllActive(TeamOf(a)))']_planVars

\* A suggestion is adopted as it was computed: when the inputs at its saving were
\* those it was computed from, it can be reached in time from its neighbours when it
\* is adopted, even if other reservations came and went in between.
Adopting(g) == runs[g].step = "saved" /\ runs'[g] = Adopted

ReachedInTime(g) ==
  \E s \in runs[g].pending, a \in Appointments :
    /\ ReservingNow(a)' /\ ~ReservingNow(a)
    /\ appointments'[a].start = s.start
    /\ CrewOf(a)' = s.team.drivers
    /\ TravelFeasible(s)

AdoptedAsSuggested ==
  [][\A g \in Runs :
       (Adopting(g) /\ runs[g].routed /\ runs[g].calm) => ReachedInTime(g)]_planVars

\* An assigned route keeps its driver and its machines reserved from the departure
\* to the return, on the way between the stops as well.
Assigning(t) == IsDraft(t) /\ routes'[t].status = "assigned"

RouteReservedThroughout ==
  [][\A t \in Routes :
       Assigning(t) =>
         LET route == routes[t]
             back == Ends(route.stops[Len(route.stops)]) +
                       (IF route.end = route.stops[Len(route.stops)].job THEN 0 ELSE Travel)
         IN \A slot \in route.departure .. back - 1 :
              /\ \E row \in driverRows' \ driverRows :
                   /\ row.driver = route.driver /\ row.active
                   /\ row.from <= slot /\ slot < row.to
              /\ \A r \in {route.chipper, route.transport} \ {Nothing} :
                   \E row \in resourceRows' \ resourceRows :
                     /\ row.resource = r /\ row.active
                     /\ row.from <= slot /\ slot < row.to]_planVars

-----------------------------------------------------------------------------
(* What the tests say and the code does not keep *)

\* Travel time is a hard gate: nothing is adopted that cannot be reached in time.
TravelRespected ==
  [][\A g \in Runs : (Adopting(g) /\ runs[g].routed) => ReachedInTime(g)]_planVars
=============================================================================
