------------------------------ MODULE Delivery ------------------------------
(***************************************************************************)
(* Delivery of messages: every notification and every e-mail that verifies *)
(* an address has an event in the transactional outbox; workers claim due  *)
(* events under a lease, hand the message to a provider and record the     *)
(* outcome.  A notification is marked as being sent before it is sent; a   *)
(* mail has no such mark.  Workers crash, stall beyond their lease and     *)
(* lose their database; an administrator may requeue a notification that   *)
(* failed.                                                                 *)
(*                                                                         *)
(* A worker handles one event at a time.  Each of its steps is one         *)
(* transaction or the call of the provider; workers[w].step names the next *)
(* one.  live[n] says that the confirmation request of a notification can  *)
(* be answered (active, not expired, its appointment fixed); module        *)
(* Scheduling shows that it never becomes true again (LinkNeverRevives).   *)
(* Whether the verification behind a mail is still pending is left open.   *)
(***************************************************************************)
EXTENDS Integers

CONSTANTS
  Notifications,
  Mails,        \* e-mails that verify an address
  Workers,
  None,         \* neither a worker nor an event
  MaxAttempts,  \* max_attempts of every event
  Faults,       \* what may interfere with the workers, out of FaultKinds
  MaxFaults     \* bound: how often something interferes

FaultKinds == {"crash", "stall", "load", "settle", "requeue"}

Events == Notifications \cup Mails

ASSUME WorkerAssumption == None \notin Workers \cup Events
ASSUME MailAssumption == Notifications \cap Mails = {}
ASSUME AttemptAssumption == MaxAttempts \in Nat \ {0}
ASSUME FaultAssumption == Faults \subseteq FaultKinds /\ MaxFaults \in Nat

VARIABLES
  notifications,  \* notifications.status
  outbox,         \* outbox_events; leased: lease_until, due: available_at has come
  live,
  workers,
  tally,          \* history: messages sent and accepted, requeues, slips before the mark
  faults          \* history: number of faults and requeues

vars == <<notifications, outbox, live, workers, tally, faults>>
tables == <<notifications, outbox>>

Idle == [step |-> "idle", event |-> None, attempt |-> 0]

Goto(w, step) == workers' = [workers EXCEPT ![w].step = step]
Finish(w) == workers' = [workers EXCEPT ![w] = Idle]

Owns(w, n) == outbox[n].status = "claimed" /\ outbox[n].owner = w
Works(w, n) == workers[w].event = n

\* Seeded fault: the status of the notification is taken for that of its event.
FailingWrongly(w) == IF workers[w].attempt >= MaxAttempts THEN "failed" ELSE "retry"

\* Seeded fault: what failed is always repeated.
FailingForever(w) == "retry"

\* fail: the last attempt is given up, an earlier one repeated.
Failing(w) == IF workers[w].attempt >= MaxAttempts THEN "dead" ELSE "retry"

Fault(kind) ==
  /\ kind \in Faults
  /\ faults < MaxFaults
  /\ faults' = faults + 1

-----------------------------------------------------------------------------
(* The worker *)

\* Seeded fault: the lease of a crashed worker is never taken over.
Waiting(n) == outbox[n].status \in {"queued", "retry_wait"} /\ outbox[n].due

Claimable(n) ==
  \/ outbox[n].status \in {"queued", "retry_wait"} /\ outbox[n].due
  \/ outbox[n].status = "claimed" /\ ~outbox[n].leased

Claim(w, n) ==
  /\ workers[w] = Idle
  /\ Claimable(n)
  /\ outbox' = [outbox EXCEPT ![n] =
       [status |-> "claimed", owner |-> w, leased |-> TRUE, due |-> @.due,
        attempts |-> @.attempts + 1]]
  /\ workers' = [workers EXCEPT ![w] =
       [step |-> "load", event |-> n, attempt |-> outbox[n].attempts + 1]]
  /\ UNCHANGED <<notifications, live, tally, faults>>

\* A request that cannot be answered any more is not sent, nor one whose key
\* or template is missing.
Load(w) ==
  /\ workers[w].step = "load"
  /\ \/ /\ workers[w].event \in Notifications => live[workers[w].event]
        /\ Goto(w, "mark")
     \/ Goto(w, "dead")
  /\ UNCHANGED <<tables, live, tally, faults>>

\* History: the worker fails before the mark although the message may have left.
Uncertain(n) == n \in Notifications /\ notifications[n] = "sending"
Slip(n) == tally' = [tally EXCEPT ![n].slips = @ + IF Uncertain(n) THEN 1 ELSE 0]

\* The delivery cannot be read or marked, or its provider is switched off.
LoadFails(w) ==
  /\ workers[w].step \in {"load", "mark"}
  /\ Fault("load")
  /\ Slip(workers[w].event)
  /\ Goto(w, Failing(w))
  /\ UNCHANGED <<tables, live>>

\* Seeded fault: a notification that is being sent may be sent again.
Unsettled(status) == status \in {"queued", "retry_wait", "sending"}

Sendable(status) == status \in {"queued", "retry_wait"}

\* Seeded fault: nobody looks whether the lease could be renewed.
LeaseIgnored(w, n) == TRUE

\* RenewNotificationLease: no row is renewed once the lease is over.
LeaseRenewed(w, n) == Owns(w, n) /\ outbox[n].leased

\* A notification that is being sent already is uncertain: its event is buried.
\* For a mail, nothing but the lease is looked at.
MarkSending(w) ==
  LET n == workers[w].event
      leased == LeaseRenewed(w, n)
  IN /\ workers[w].step = "mark"
     /\ \/ /\ leased /\ n \in Notifications /\ Sendable(notifications[n])
           /\ notifications' = [notifications EXCEPT ![n] = "sending"]
           /\ Goto(w, "send")
           /\ UNCHANGED tally
        \/ /\ leased /\ n \in Notifications /\ ~Sendable(notifications[n])
           /\ Goto(w, "dead")
           /\ UNCHANGED <<notifications, tally>>
        \/ /\ leased /\ n \in Mails
           /\ Goto(w, "send")
           /\ UNCHANGED <<notifications, tally>>
        \/ /\ ~leased
           /\ Slip(n)
           /\ Goto(w, Failing(w))
           /\ UNCHANGED notifications
     /\ UNCHANGED <<outbox, live, faults>>

Send(w) ==
  LET n == workers[w].event IN
  /\ workers[w].step = "send"
  /\ \/ /\ Goto(w, "complete")
        /\ tally' = [tally EXCEPT ![n].sent = @ + 1, ![n].accepted = @ + 1]
     \/ /\ \/ Goto(w, Failing(w))  \* temporary failure of the provider
           \/ Goto(w, "dead")      \* permanent failure
        /\ tally' = [tally EXCEPT ![n].sent = @ + 1]
  /\ UNCHANGED <<tables, live, faults>>

Released(status, attempts) ==
  [status |-> status, owner |-> None, leased |-> FALSE, due |-> status = "queued",
   attempts |-> attempts]

Note(n, outcome) ==
  IF n \in Notifications THEN notifications' = [notifications EXCEPT ![n] = outcome]
                         ELSE UNCHANGED notifications

\* Seeded fault: a worker records its outcome though it lost the event.
RecordAnyway(w, status, outcome) ==
  LET n == workers[w].event IN
  /\ outbox' = [outbox EXCEPT ![n] = Released(status, @.attempts)]
  /\ Note(n, outcome)

\* One transaction over event and notification, without effect unless the
\* worker still owns the event.
Record(w, status, outcome) ==
  LET n == workers[w].event IN
  \/ /\ Owns(w, n)
     /\ outbox' = [outbox EXCEPT ![n] = Released(status, @.attempts)]
     /\ Note(n, outcome)
  \/ /\ ~Owns(w, n)
     /\ UNCHANGED tables

Complete(w) ==
  /\ workers[w].step = "complete"
  /\ Record(w, "processed", "sent")
  /\ Finish(w)
  /\ UNCHANGED <<live, tally, faults>>

Retry(w) ==
  /\ workers[w].step = "retry"
  /\ Record(w, "retry_wait", "retry_wait")
  /\ Finish(w)
  /\ UNCHANGED <<live, tally, faults>>

Dead(w) ==
  /\ workers[w].step = "dead"
  /\ Record(w, "dead", "failed")
  /\ Finish(w)
  /\ UNCHANGED <<live, tally, faults>>

\* The outcome cannot be written: it is logged, and the worker goes on.
SettleFails(w) ==
  /\ workers[w].step \in {"complete", "retry", "dead"}
  /\ Fault("settle")
  /\ Finish(w)
  /\ UNCHANGED <<tables, live, tally>>

\* The process ends; another takes its place.
Crash(w) ==
  /\ workers[w] # Idle
  /\ Fault("crash")
  /\ Finish(w)
  /\ UNCHANGED <<tables, live, tally>>

-----------------------------------------------------------------------------
(* Time, the administrator and the customer's appointment *)

Expire(n) == outbox' = [outbox EXCEPT ![n].leased = FALSE]

\* lease_until passes, after its owner gave up ...
LeaseExpires(n) ==
  /\ outbox[n].status = "claimed" /\ outbox[n].leased
  /\ ~Works(outbox[n].owner, n)
  /\ Expire(n)
  /\ UNCHANGED <<notifications, live, workers, tally, faults>>

\* ... or while it is still at work.
LeaseOverrun(n) ==
  /\ outbox[n].status = "claimed" /\ outbox[n].leased
  /\ Works(outbox[n].owner, n)
  /\ Fault("stall")
  /\ Expire(n)
  /\ UNCHANGED <<notifications, live, workers, tally>>

BackoffEnds(n) ==
  /\ outbox[n].status = "retry_wait" /\ ~outbox[n].due
  /\ outbox' = [outbox EXCEPT ![n].due = TRUE]
  /\ UNCHANGED <<notifications, live, workers, tally, faults>>

Requeueable(n) ==
  notifications[n] \in {"retry_wait", "failed"} /\ outbox[n].status \in {"retry_wait", "dead"}

\* NotificationStore.Retry
Requeue(n) ==
  /\ live[n]
  /\ Requeueable(n)
  /\ Fault("requeue")
  /\ notifications' = [notifications EXCEPT ![n] = "queued"]
  /\ outbox' = [outbox EXCEPT ![n] = Released("queued", 0)]
  /\ tally' = [tally EXCEPT ![n].requeues = @ + 1]
  /\ UNCHANGED <<live, workers>>

\* The appointment is moved, cancelled or completed, or the request expires.
Lapse(n) ==
  /\ live[n]
  /\ live' = [live EXCEPT ![n] = FALSE]
  /\ UNCHANGED <<tables, workers, tally, faults>>

-----------------------------------------------------------------------------
(* The specification *)

\* Confirmations and verifications have been planned, each together with its event.
Init ==
  /\ notifications = [n \in Notifications |-> "queued"]
  /\ outbox = [n \in Events |-> Released("queued", 0)]
  /\ live = [n \in Notifications |-> TRUE]
  /\ workers = [w \in Workers |-> Idle]
  /\ tally = [n \in Events |-> [sent |-> 0, accepted |-> 0, requeues |-> 0, slips |-> 0]]
  /\ faults = 0

Work(w) ==
  Load(w) \/ MarkSending(w) \/ Send(w) \/ Complete(w) \/ Retry(w) \/ Dead(w)

Next ==
  \/ \E w \in Workers :
       \/ \E n \in Events : Claim(w, n)
       \/ Work(w)
       \/ LoadFails(w) \/ SettleFails(w) \/ Crash(w)
  \/ \E n \in Events : LeaseExpires(n) \/ LeaseOverrun(n) \/ BackoffEnds(n)
  \/ \E n \in Notifications : Requeue(n) \/ Lapse(n)

Spec == Init /\ [][Next]_vars

\* A worker that does not crash goes on, time passes, and every event is claimed
\* in the end, for workers poll, take mails and notifications in turn and claim the
\* event that is due longest.
Fairness ==
  /\ \A w \in Workers : WF_vars(Work(w))
  /\ \A n \in Events :
       /\ SF_vars(\E w \in Workers : Claim(w, n))
       /\ WF_vars(LeaseExpires(n))
       /\ WF_vars(BackoffEnds(n))

FairSpec == Spec /\ Fairness

-----------------------------------------------------------------------------
(* Properties *)

Steps == {"idle", "load", "mark", "send", "complete", "retry", "dead"}

\* Every variable has its type: the columns of the tables and where each worker is.
TypeOK ==
  /\ notifications \in [Notifications -> {"queued", "sending", "retry_wait", "sent", "failed"}]
  /\ outbox \in [Events ->
       [status : {"queued", "claimed", "retry_wait", "processed", "dead"},
        owner : Workers \cup {None}, leased : BOOLEAN, due : BOOLEAN, attempts : Nat]]
  /\ live \in [Notifications -> BOOLEAN]
  /\ workers \in [Workers -> [step : Steps, event : Events \cup {None}, attempt : Nat]]
  /\ tally \in [Events -> [sent : Nat, accepted : Nat, requeues : Nat, slips : Nat]]
  /\ faults \in Nat

\* The two tables tell the same story after every transaction, whoever wrote
\* last: an event is processed exactly when its notification was sent, and dead
\* exactly when it failed, so that the list of failures and the button that
\* requeues one are about the same notifications.
Stories ==
  {<<"queued", "queued">>,
   <<"claimed", "queued">>, <<"claimed", "retry_wait">>, <<"claimed", "sending">>,
   <<"retry_wait", "retry_wait">>, <<"processed", "sent">>, <<"dead", "failed">>}

StatusesAgree ==
  \A n \in Notifications : <<outbox[n].status, notifications[n]>> \in Stories

\* The providers are not called without end: crashes and stalls notwithstanding,
\* there are at most max_attempts calls each time a notification is queued.
SendsBounded ==
  \A n \in Notifications : tally[n].sent <= MaxAttempts * (1 + tally[n].requeues)

\* What was sent stays sent: no late outcome of a slow worker, no requeueing and
\* no retry takes it back.
SentStaysSent ==
  [][\A n \in Notifications : notifications[n] = "sent" => notifications'[n] = "sent"]_vars

\* A customer gets a message once unless an administrator asked for it again: a
\* notification that may have left is never sent again on its own.
DeliveredOnce ==
  \A n \in Notifications : tally[n].accepted <= 1 + tally[n].requeues

\* What the code keeps of it: only a worker that fails before its mark, while the
\* notification of a lost worker is uncertain, makes it sendable again.
DeliveredOnceUnlessSlipped ==
  \A n \in Notifications : tally[n].accepted <= 1 + tally[n].requeues + tally[n].slips

\* A mail, which has no mark, is sent more often than max_attempts, or again after
\* it was accepted, only as often as a worker crashed, stalled or lost its outcome.
MailsBounded ==
  \A n \in Mails : tally[n].sent <= MaxAttempts + faults /\ tally[n].accepted <= 1 + faults

\* Every event comes to an end, sent or given up for an administrator to see.
Settled(n) == outbox[n].status \in {"processed", "dead"}
EventuallySettled == \A n \in Events : ~Settled(n) ~> Settled(n)
=============================================================================
