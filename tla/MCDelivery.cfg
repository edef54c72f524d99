SPECIFICATION FairSpec
CONSTANTS
  Notifications = {n1}
  Mails = {m1}
  Workers = {w1, w2}
  None = None
  MaxAttempts = 2
  Faults = {"crash", "stall", "load", "settle", "requeue"}
  MaxFaults = 2
INVARIANTS
  TypeOK
  StatusesAgree
  SendsBounded
  DeliveredOnceUnlessSlipped
  MailsBounded
PROPERTIES
  SentStaysSent
  EventuallySettled
CHECK_DEADLOCK FALSE
