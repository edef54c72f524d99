SPECIFICATION Spec
CONSTANTS
  Notifications = {n1}
  Mails = {}
  Workers = {w1, w2}
  None = None
  MaxAttempts = 3
  Faults = {"crash", "load"}
  MaxFaults = 4
INVARIANTS
  DeliveredOnce
CHECK_DEADLOCK FALSE
