SPECIFICATION Spec
CONSTANTS
  a1 = a1
  a2 = a2
  j1 = j1
  j2 = j2
  d1 = d1
  d2 = d2
  r1 = r1
  r2 = r2
  c1 = c1
  c2 = c2
  Appointments = {a1, a2}
  Jobs = {j1}
  Drivers = {d1}
  Resources = {r1}
  Admin = admin
  Clients = {c1}
  CallsOf <- JobCalls
  Ambient <- JobAmbient
  Starts = {0}
  Durations = {1, 2}
  Buffers <- NoBuffers
  JobData <- JobKinds
  Teams <- OneTeam
  Fleet <- OneChipper
  Edits = {}
  Absences = {}
  Reasons = {TRUE}
  Foresight = 0
  MaxVersion = 6
  MaxRequests = 1
SYMMETRY SameAppointments
INVARIANTS
  WorkflowAgrees
  FixedIsExecutable
CHECK_DEADLOCK FALSE
