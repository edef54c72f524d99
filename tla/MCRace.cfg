SPECIFICATION Spec
CONSTANTS
  a1 = a1
  a2 = a2
  j1 = j1
  j2 = j2
  d1 = d1
  d2 = d2
  r1 = r1
  r2 = r2
  c1 = c1
  c2 = c2
  Appointments = {a1, a2}
  Jobs = {j1, j2}
  Drivers = {d1}
  Resources = {r1}
  Admin = admin
  Clients = {c1, c2}
  CallsOf <- RaceCalls
  Ambient <- RaceAmbient
  Starts = {0, 1, 2}
  Durations = {1}
  Buffers <- TravelBuffers
  JobData <- PlainData
  Teams <- OneTeam
  Fleet <- OneChipper
  Edits <- RaceEdits
  Absences = {}
  Reasons = {FALSE}
  Foresight = 0
  MaxVersion = 5
  MaxRequests = 1
SYMMETRY SameAppointments
INVARIANTS
  TypeOK
  ReservationsSound
  CancelledFixedHasReason
PROPERTIES
  VersionCoversState
  CalendarKept
CHECK_DEADLOCK FALSE
