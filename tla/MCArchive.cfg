SPECIFICATION Spec
CONSTANTS
  a1 = a1
  a2 = a2
  j1 = j1
  j2 = j2
  d1 = d1
  d2 = d2
  r1 = r1
  r2 = r2
  c1 = c1
  c2 = c2
  Appointments = {a1}
  Jobs = {j1}
  Drivers = {d1}
  Resources = {r1}
  Admin = admin
  Clients = {c1}
  CallsOf <- ArchiveCalls
  Ambient <- ArchiveAmbient
  Starts = {0}
  Durations = {1}
  Buffers <- NoBuffers
  JobData <- PlainData
  Teams <- OneTeam
  Fleet <- OneChipper
  Edits = {}
  Absences = {}
  Reasons = {TRUE}
  Foresight = 0
  MaxVersion = 5
  MaxRequests = 1
SYMMETRY SameAppointments
INVARIANTS
  ArchivedJobHoldsNothing
CHECK_DEADLOCK FALSE
