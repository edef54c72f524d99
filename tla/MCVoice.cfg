SPECIFICATION Spec
CONSTANTS
  Drafts = {v1}
  Keys = {k1}
  Uploads = {u1, u2, u3}
  Pages = {p1}
  Workers = {w1, w2}
  None = None
  MaxAttempts = 3
  MaxRetries = 1
  Rate = 3
  Concurrent = 2
  MaxFaults = 2
INVARIANTS
  TypeOK
  TextIsOfLatestClaim
  OneIntakePerDraft
  TranscriptionsBounded
  LimiterExact
PROPERTIES
  EventuallyDecided
CHECK_DEADLOCK FALSE
