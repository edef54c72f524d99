SPECIFICATION PlanSpec
CONSTANTS
  a1 = a1
  a2 = a2
  j1 = j1
  j2 = j2
  d1 = d1
  r1 = r1
  c1 = c1
  g1 = g1
  t1 = t1
  t2 = t2
  Appointments = {a1, a2}
  Jobs = {j1, j2}
  Drivers = {d1}
  Resources = {r1}
  Admin = admin
  Clients = {}
  CallsOf <- NoCalls
  Ambient <- PlanningAmbient
  Starts = {0, 2}
  Durations = {1}
  Buffers <- NoBuffers
  JobData <- PlanningData
  Teams <- OneTeam
  Fleet <- OneChipper
  Edits = {}
  Absences <- PlanningAbsences
  Reasons = {FALSE}
  Foresight = 0
  MaxVersion = 3
  MaxRequests = 1
  Runs = {g1}
  Routes = {t1, t2}
  Nothing = nothing
  Travel = 1
  PlanningBuffer = 0
  MaxSuggestions = 2
  MaxStops = 2
  MaxBegun = 2
  Departures = {0}
  Times = {1, 3, 4}
SYMMETRY Same
INVARIANTS
  NoDoubleBooking
  WorkflowAgrees
PROPERTIES
  ReservationIsVetted
  NewReservationFits
  AdoptedAsSuggested
  RouteReservedThroughout
CHECK_DEADLOCK FALSE
