SPECIFICATION Spec
CONSTANTS
  u1 = u1
  u2 = u2
  e1 = e1
  e2 = e2
  Users = {u1, u2}
  Members = {u1}
  Sessions = {s1, s2}
  Challenges = {k1, k2}
  Logins = {l1, l2}
  Edits = {e1, e2}
  None = None
  MaxVersion = 2
  MaxIssued = 2
  MaxStep = 1
  MaxFailures = 1
  Accesses <- DeactivateOrDemote
INVARIANTS
  TypeOK
  AdminRemains
  SessionsAreEntitled
  OneSessionPerProof
PROPERTY
  MustChangeStays
CHECK_DEADLOCK FALSE
SYMMETRY Symmetry
