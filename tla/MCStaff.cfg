SPECIFICATION Spec
CONSTANTS
  a1 = a1
  a2 = a2
  j1 = j1
  j2 = j2
  d1 = d1
  d2 = d2
  r1 = r1
  r2 = r2
  c1 = c1
  c2 = c2
  Appointments = {a1}
  Jobs = {j1}
  Drivers = {d1, d2}
  Resources = {r1, r2}
  Admin = admin
  Clients = {c1}
  CallsOf <- StaffCalls
  Ambient <- StaffAmbient
  Starts = {0, 1}
  Durations = {1}
  Buffers <- NoBuffers
  JobData <- HauledData
  Teams <- StaffTeams
  Fleet <- ChipperAndTruck
  Edits <- StaffEdits
  Absences <- OneAbsence
  Reasons = {TRUE, FALSE}
  Foresight = 0
  MaxVersion = 6
  MaxRequests = 1
INVARIANTS
  ReservedTeamInService
PROPERTIES
  ReservationIsVetted
CHECK_DEADLOCK FALSE
