--------------------------- MODULE DeliveryProofs ---------------------------
(***************************************************************************)
(* Theorems about Delivery for any number of notifications and workers and *)
(* any number of faults and requeues.                                      *)
(*                                                                         *)
(* The second half bounds what is sent: how often the provider is called   *)
(* for a notification, how often one reaches the customer, and what a      *)
(* mail, which is sent without a mark, adds to that.  These bounds are     *)
(* counted by event: ViewStep says what any step may make of the counters  *)
(* of one event; the three invariants follow from it by arithmetic.        *)
(***************************************************************************)
EXTENDS Delivery, FiniteSets, FiniteSetTheorems, TLAPS

Event ==
  [status : {"queued", "claimed", "retry_wait", "processed", "dead"},
   owner : Workers \cup {None}, leased : BOOLEAN, due : BOOLEAN, attempts : Nat]
OutboxTyped == outbox \in [Events -> Event]
NotificationsTyped ==
  notifications \in [Notifications -> {"queued", "sending", "retry_wait", "sent", "failed"}]
WorkersTyped ==
  workers \in [Workers -> [step : Steps, event : Events \cup {None}, attempt : Nat]]
TallyTyped ==
  tally \in [Events -> [sent : Nat, accepted : Nat, requeues : Nat, slips : Nat]]
RestTyped == live \in [Notifications -> BOOLEAN] /\ faults \in Nat

\* A worker that is not idle has an event.
Occupied == \A w \in Workers : workers[w].step # "idle" => workers[w].event \in Events

Sound == TypeOK /\ Occupied

\* TypeOK, split into the parts that single steps change.
LEMMA TypeParts ==
  TypeOK <=> OutboxTyped /\ NotificationsTyped /\ WorkersTyped /\ TallyTyped /\ RestTyped
BY DEF TypeOK, OutboxTyped, NotificationsTyped, WorkersTyped, TallyTyped, RestTyped, Event

-----------------------------------------------------------------------------
(* The helpers *)

\* A worker that goes on keeps its event.
LEMMA GotoSound ==
  ASSUME WorkersTyped, Occupied, NEW w \in Workers, workers[w].step # "idle",
         NEW step \in Steps \ {"idle"}, Goto(w, step)
  PROVE  WorkersTyped' /\ Occupied'
BY DEF WorkersTyped, Occupied, Goto, Steps

\* A worker that finishes has none.
LEMMA FinishSound ==
  ASSUME WorkersTyped, Occupied, NEW w \in Workers, Finish(w)
  PROVE  WorkersTyped' /\ Occupied'
BY DEF WorkersTyped, Occupied, Finish, Idle, Steps

\* Counting a fault keeps the type of the history.
LEMMA FaultTyped ==
  ASSUME RestTyped, NEW kind, Fault(kind), UNCHANGED live
  PROVE  RestTyped'
BY DEF RestTyped, Fault

\* An event that is released, processed or buried is an event.
LEMMA ReleasedType ==
  ASSUME NEW status \in {"queued", "retry_wait", "processed", "dead"}, NEW attempts \in Nat
  PROVE  Released(status, attempts) \in Event
BY DEF Released, Event

\* What recording an outcome may do to the tables: nothing, or, for the event
\* the worker owns, exactly that outcome.
LEMMA RecordTyped ==
  ASSUME OutboxTyped, NotificationsTyped, NEW w \in Workers, workers[w].event \in Events,
         NEW status \in {"retry_wait", "processed", "dead"},
         NEW outcome \in {"retry_wait", "sent", "failed"}, Record(w, status, outcome)
  PROVE  OutboxTyped' /\ NotificationsTyped'
<1>1. CASE UNCHANGED tables
  BY <1>1 DEF tables, OutboxTyped, NotificationsTyped
<1>2. CASE ~ UNCHANGED tables
  <2> DEFINE n == workers[w].event
  <2>1. /\ outbox' = [outbox EXCEPT ![n] = Released(status, outbox[n].attempts)]
        /\ Note(n, outcome)
    BY <1>2 DEF Record
  <2>2. Released(status, outbox[n].attempts) \in Event
    BY ReleasedType DEF OutboxTyped, Event
  <2> HIDE DEF n
  <2>3. QED
    BY <2>1, <2>2 DEF OutboxTyped, NotificationsTyped, Note, Events
<1>3. QED
  BY <1>1, <1>2

\* Counting a slip keeps the type of the history.
LEMMA SlipTyped ==
  ASSUME TallyTyped, NEW n \in Events, Slip(n)
  PROVE  TallyTyped'
<1>1. (tally[n].slips + IF Uncertain(n) THEN 1 ELSE 0) \in Nat
  BY DEF TallyTyped
<1>2. QED
  BY <1>1 DEF TallyTyped, Slip

\* Every step of a worker keeps types, and workers at work have an event.
LEMMA WorkSound == ASSUME Sound, NEW w \in Workers, Work(w) PROVE Sound'
<1>0. OutboxTyped /\ NotificationsTyped /\ WorkersTyped /\ TallyTyped /\ RestTyped /\ Occupied
  BY TypeParts DEF Sound
<1>a. SUFFICES OutboxTyped' /\ NotificationsTyped' /\ WorkersTyped' /\ TallyTyped' /\ RestTyped'
               /\ Occupied'
  BY TypeParts DEF Sound, TypeOK, OutboxTyped, NotificationsTyped, WorkersTyped, TallyTyped,
                   RestTyped, Event
<1>b. Failing(w) \in Steps \ {"idle"}
  BY DEF Failing, Steps
<1>c. UNCHANGED tables => OutboxTyped' /\ NotificationsTyped'
  BY <1>0 DEF tables, OutboxTyped, NotificationsTyped
<1>d. (UNCHANGED tally => TallyTyped') /\ (UNCHANGED <<live, faults>> => RestTyped')
  BY <1>0 DEF TallyTyped, RestTyped
<1>e. workers[w].step # "idle" => workers[w].event \in Events
  BY <1>0 DEF Occupied
<1>1. CASE Load(w)
  <2>1. /\ workers[w].step # "idle"
        /\ Goto(w, "mark") \/ Goto(w, "dead")
        /\ UNCHANGED <<tables, live, tally, faults>>
    BY <1>1 DEF Load
  <2>2. QED
    BY <2>1, <1>0, <1>c, <1>d, GotoSound DEF Steps
<1>2. CASE MarkSending(w)
  <2>1. /\ workers[w].step # "idle"
        /\ Goto(w, "send") \/ Goto(w, "dead") \/ Goto(w, Failing(w))
        /\ UNCHANGED tally \/ Slip(workers[w].event)
        /\ UNCHANGED <<outbox, live, faults>>
    BY <1>2 DEF MarkSending
  <2>2. \/ notifications' = [notifications EXCEPT ![workers[w].event] = "sending"]
        \/ UNCHANGED notifications
    BY <1>2 DEF MarkSending
  <2>3. NotificationsTyped'
    BY <2>2, <1>0 DEF NotificationsTyped
  <2>4. OutboxTyped'
    BY <2>1, <1>0 DEF OutboxTyped
  <2>5. TallyTyped'
    BY <2>1, <1>0, <1>d, <1>e, SlipTyped
  <2>6. QED
    BY <2>1, <2>3, <2>4, <2>5, <1>0, <1>b, <1>d, GotoSound DEF Steps
<1>3. CASE Send(w)
  <2>1. /\ workers[w].step # "idle"
        /\ Goto(w, "complete") \/ Goto(w, "dead") \/ Goto(w, Failing(w))
        /\ UNCHANGED <<tables, live, faults>>
    BY <1>3 DEF Send
  <2>2. TallyTyped'
    BY <1>3, <1>0 DEF Send, TallyTyped
  <2>3. QED
    BY <2>1, <2>2, <1>0, <1>b, <1>c, <1>d, GotoSound DEF Steps
<1>4. CASE Complete(w) \/ Retry(w) \/ Dead(w)
  <2>1. /\ workers[w].event \in Events /\ Finish(w) /\ UNCHANGED <<live, tally, faults>>
        /\ \/ Record(w, "processed", "sent")
           \/ Record(w, "retry_wait", "retry_wait")
           \/ Record(w, "dead", "failed")
    BY <1>4, <1>e DEF Complete, Retry, Dead
  <2>2. QED
    BY <2>1, <1>0, <1>d, RecordTyped, FinishSound
<1>5. QED
  BY <1>1, <1>2, <1>3, <1>4, Work(w) DEF Work

\* The initial state is sound.
LEMMA InitSound == Init => Sound
BY ReleasedType DEF Init, Sound, TypeOK, Occupied, Idle, Steps, Event, Events

\* Every step keeps the state sound.
LEMMA NextSound == Sound /\ [Next]_vars => Sound'
<1> SUFFICES ASSUME Sound, [Next]_vars PROVE Sound'
  OBVIOUS
<1>0. OutboxTyped /\ NotificationsTyped /\ WorkersTyped /\ TallyTyped /\ RestTyped /\ Occupied
  BY TypeParts DEF Sound
<1>a. OutboxTyped' /\ NotificationsTyped' /\ WorkersTyped' /\ TallyTyped' /\ RestTyped' /\ Occupied'
        => Sound'
  BY TypeParts DEF Sound, TypeOK, OutboxTyped, NotificationsTyped, WorkersTyped, TallyTyped,
                   RestTyped, Event
<1>b. UNCHANGED tables => OutboxTyped' /\ NotificationsTyped'
  BY <1>0 DEF tables, OutboxTyped, NotificationsTyped
<1>c. /\ UNCHANGED notifications => NotificationsTyped'
      /\ UNCHANGED workers => WorkersTyped' /\ Occupied'
      /\ UNCHANGED tally => TallyTyped'
      /\ UNCHANGED <<live, faults>> => RestTyped'
  BY <1>0 DEF NotificationsTyped, WorkersTyped, Occupied, TallyTyped, RestTyped
<1>1. ASSUME NEW w \in Workers, NEW n \in Events, Claim(w, n) PROVE Sound'
  <2>1. outbox[n].attempts + 1 \in Nat
    BY <1>0 DEF OutboxTyped, Event
  <2>2. OutboxTyped'
    <3> DEFINE event == [status |-> "claimed", owner |-> w, leased |-> TRUE,
                         due |-> outbox[n].due, attempts |-> outbox[n].attempts + 1]
    <3>1. outbox' = [outbox EXCEPT ![n] = event]
      BY <1>1 DEF Claim
    <3>2. event \in Event
      BY <1>0, <2>1 DEF OutboxTyped, Event
    <3> HIDE DEF event
    <3>3. QED
      BY <3>1, <3>2, <1>0 DEF OutboxTyped
  <2>3. workers' = [workers EXCEPT ![w] = [step |-> "load", event |-> n,
                                           attempt |-> outbox[n].attempts + 1]]
    BY <1>1 DEF Claim
  <2>4. WorkersTyped' /\ Occupied'
    BY <2>1, <2>3, <1>0 DEF WorkersTyped, Occupied, Steps
  <2>5. UNCHANGED <<notifications, live, tally, faults>>
    BY <1>1 DEF Claim
  <2>6. QED
    BY <2>2, <2>4, <2>5, <1>a, <1>c
<1>2. ASSUME NEW w \in Workers, LoadFails(w) PROVE Sound'
  <2>1. /\ workers[w].step # "idle" /\ Goto(w, Failing(w)) /\ Fault("load")
        /\ Slip(workers[w].event) /\ UNCHANGED <<tables, live>>
    BY <1>2 DEF LoadFails
  <2>2. Failing(w) \in Steps \ {"idle"}
    BY DEF Failing, Steps
  <2>3. TallyTyped'
    BY <2>1, <1>0, SlipTyped DEF Occupied
  <2>4. QED
    BY <2>1, <2>2, <2>3, <1>0, <1>a, <1>b, <1>c, GotoSound, FaultTyped
<1>3. ASSUME NEW w \in Workers, SettleFails(w) \/ Crash(w) PROVE Sound'
  <2>1. /\ Finish(w)
        /\ Fault("settle") \/ Fault("crash")
        /\ UNCHANGED <<tables, live, tally>>
    BY <1>3 DEF SettleFails, Crash
  <2>2. QED
    BY <2>1, <1>0, <1>a, <1>b, <1>c, FinishSound, FaultTyped
<1>4. ASSUME NEW n \in Events, LeaseExpires(n) \/ LeaseOverrun(n) PROVE Sound'
  <2>1. /\ Expire(n) /\ UNCHANGED <<notifications, live, workers, tally>>
        /\ UNCHANGED faults \/ Fault("stall")
    BY <1>4 DEF LeaseExpires, LeaseOverrun
  <2>2. OutboxTyped'
    BY <2>1, <1>0 DEF Expire, OutboxTyped, Event
  <2>3. QED
    BY <2>1, <2>2, <1>0, <1>a, <1>c, FaultTyped
<1>5. ASSUME NEW n \in Events, BackoffEnds(n) PROVE Sound'
  <2>1. UNCHANGED <<notifications, live, workers, tally, faults>>
    BY <1>5 DEF BackoffEnds
  <2>2. OutboxTyped'
    BY <1>5, <1>0 DEF BackoffEnds, OutboxTyped, Event
  <2>3. QED
    BY <2>1, <2>2, <1>a, <1>c
<1>6. ASSUME NEW n \in Notifications, Requeue(n) PROVE Sound'
  <2>1. Fault("requeue") /\ UNCHANGED <<live, workers>>
    BY <1>6 DEF Requeue
  <2>2. OutboxTyped' /\ NotificationsTyped' /\ TallyTyped'
    BY <1>6, <1>0, ReleasedType DEF Requeue, OutboxTyped, NotificationsTyped, TallyTyped, Events
  <2>3. QED
    BY <2>1, <2>2, <1>0, <1>a, <1>c, FaultTyped
<1>7. ASSUME NEW n \in Notifications, Lapse(n) PROVE Sound'
  <2>1. UNCHANGED <<tables, workers, tally, faults>>
    BY <1>7 DEF Lapse
  <2>2. RestTyped'
    BY <1>7, <1>0 DEF Lapse, RestTyped
  <2>3. QED
    BY <2>1, <2>2, <1>a, <1>b, <1>c
<1>8. CASE UNCHANGED vars
  BY <1>8, <1>a, <1>b, <1>c DEF vars, tables
<1>9. QED
  BY <1>1, <1>2, <1>3, <1>4, <1>5, <1>6, <1>7, <1>8, WorkSound DEF Next

\* For any number of workers and faults, the tables keep the types of their columns.
THEOREM TypeCorrect == Spec => []TypeOK
<1>1. Init => Sound
  BY InitSound
<1>2. Sound /\ [Next]_vars => Sound'
  BY NextSound
<1>3. Sound => TypeOK
  BY DEF Sound
<1>4. QED
  BY <1>1, <1>2, <1>3, PTL DEF Spec

-----------------------------------------------------------------------------
(* The tables agree *)

\* What a step may make of one notification and its event.
LEMMA TablesStep ==
  ASSUME Sound, [Next]_vars, NEW n \in Notifications
  PROVE  \/ notifications'[n] = notifications[n] /\ outbox'[n].status = outbox[n].status
         \/ /\ outbox[n].status \in {"queued", "retry_wait", "claimed"}
            /\ outbox'[n].status = "claimed" /\ notifications'[n] = notifications[n]
         \/ /\ outbox[n].status = "claimed" /\ outbox'[n].status = "claimed"
            /\ notifications'[n] = "sending"
         \/ /\ outbox[n].status = "claimed"
            /\ <<outbox'[n].status, notifications'[n]>> \in
                 {<<"processed", "sent">>, <<"retry_wait", "retry_wait">>, <<"dead", "failed">>}
         \/ /\ outbox[n].status \in {"retry_wait", "dead"}
            /\ notifications[n] \in {"retry_wait", "failed"}
            /\ outbox'[n].status = "queued" /\ notifications'[n] = "queued"
<1> DEFINE Same == notifications'[n] = notifications[n] /\ outbox'[n].status = outbox[n].status
<1> DEFINE Claimed == /\ outbox[n].status \in {"queued", "retry_wait", "claimed"}
                      /\ outbox'[n].status = "claimed" /\ notifications'[n] = notifications[n]
<1> DEFINE Sending == /\ outbox[n].status = "claimed" /\ outbox'[n].status = "claimed"
                      /\ notifications'[n] = "sending"
<1> DEFINE Recorded ==
      /\ outbox[n].status = "claimed"
      /\ <<outbox'[n].status, notifications'[n]>> \in
           {<<"processed", "sent">>, <<"retry_wait", "retry_wait">>, <<"dead", "failed">>}
<1> DEFINE Requeued == /\ outbox[n].status \in {"retry_wait", "dead"}
                       /\ notifications[n] \in {"retry_wait", "failed"}
                       /\ outbox'[n].status = "queued" /\ notifications'[n] = "queued"
<1>0. OutboxTyped /\ NotificationsTyped
  BY TypeParts DEF Sound
<1>a. UNCHANGED tables => Same
  BY DEF tables
<1>b. ASSUME NEW w \in Workers, NEW status, NEW outcome, Record(w, status, outcome)
      PROVE  \/ Same
             \/ /\ outbox[n].status = "claimed"
                /\ outbox'[n].status = status /\ notifications'[n] = outcome
  BY <1>0, <1>b DEF Record, Note, Owns, Released, tables, OutboxTyped, NotificationsTyped, Event,
                    Events
<1>1. ASSUME NEW w \in Workers, NEW m \in Events, Claim(w, m) PROVE Same \/ Claimed
  BY <1>0, <1>1 DEF Claim, Claimable, OutboxTyped, Event, Events
<1>2. ASSUME NEW w \in Workers, MarkSending(w) PROVE Same \/ Sending
  BY <1>0, <1>2 DEF MarkSending, LeaseRenewed, Owns, OutboxTyped, NotificationsTyped, Events
<1>3. ASSUME NEW w \in Workers, Complete(w) \/ Retry(w) \/ Dead(w) PROVE Same \/ Recorded
  <2>1. \/ Record(w, "processed", "sent") \/ Record(w, "retry_wait", "retry_wait")
        \/ Record(w, "dead", "failed")
    BY <1>3 DEF Complete, Retry, Dead
  <2>2. QED
    BY <2>1, <1>b
<1>4. ASSUME NEW m \in Notifications, Requeue(m) PROVE Same \/ Requeued
  BY <1>0, <1>4 DEF Requeue, Requeueable, Released, OutboxTyped, NotificationsTyped, Events
<1>5. ASSUME NEW m \in Events, LeaseExpires(m) \/ LeaseOverrun(m) \/ BackoffEnds(m)
      PROVE  Same
  BY <1>0, <1>5 DEF LeaseExpires, LeaseOverrun, BackoffEnds, Expire, OutboxTyped, Event, Events
<1>6. ASSUME NEW w \in Workers,
             Load(w) \/ Send(w) \/ LoadFails(w) \/ SettleFails(w) \/ Crash(w)
      PROVE  Same
  BY <1>6, <1>a DEF Load, Send, LoadFails, SettleFails, Crash
<1>7. ASSUME NEW m \in Notifications, Lapse(m) PROVE Same
  BY <1>7, <1>a DEF Lapse
<1>8. ASSUME UNCHANGED vars PROVE Same
  BY <1>8, <1>a DEF vars, tables
<1> DEFINE Step == Same \/ Claimed \/ Sending \/ Recorded \/ Requeued
<1> HIDE DEF Same, Claimed, Sending, Recorded, Requeued
<1>9. ASSUME NEW w \in Workers,
             \/ \E m \in Events : Claim(w, m)
             \/ Work(w) \/ LoadFails(w) \/ SettleFails(w) \/ Crash(w)
      PROVE  Step
  <2>1. CASE \E m \in Events : Claim(w, m)
    BY <2>1, <1>1
  <2>2. CASE Work(w)
    BY <2>2, <1>2, <1>3, <1>6 DEF Work
  <2>3. CASE LoadFails(w) \/ SettleFails(w) \/ Crash(w)
    BY <2>3, <1>6
  <2>4. QED
    BY <1>9, <2>1, <2>2, <2>3
<1>10. ASSUME \/ \E m \in Events : LeaseExpires(m) \/ LeaseOverrun(m) \/ BackoffEnds(m)
              \/ \E m \in Notifications : Requeue(m) \/ Lapse(m)
       PROVE  Step
  BY <1>4, <1>5, <1>7, <1>10
<1> HIDE DEF Step
<1>11. ASSUME Next PROVE Step
  BY <1>9, <1>10, <1>11 DEF Next
<1>12. Step
  BY <1>8, <1>11, [Next]_vars DEF Step
<1>13. QED
  BY <1>12 DEF Step, Same, Claimed, Sending, Recorded, Requeued

\* Planned notifications and their events agree.
LEMMA InitAgrees == Init => StatusesAgree
<1> SUFFICES ASSUME Init, NEW n \in Notifications
             PROVE  <<outbox[n].status, notifications[n]>> \in Stories
  BY DEF StatusesAgree
<1>1. outbox[n].status = "queued" /\ notifications[n] = "queued"
  BY DEF Init, Released, Events
<1>2. QED
  BY <1>1 DEF Stories

\* Every step keeps event and notification in agreement.
LEMMA NextAgrees == Sound /\ StatusesAgree /\ [Next]_vars => StatusesAgree'
<1> SUFFICES ASSUME Sound, StatusesAgree, [Next]_vars, NEW n \in Notifications
             PROVE  <<outbox'[n].status, notifications'[n]>> \in Stories
  BY DEF StatusesAgree
<1>1. <<outbox[n].status, notifications[n]>> \in Stories
  BY DEF StatusesAgree
<1>2. QED
  BY <1>1, TablesStep DEF Stories

\* Event and notification tell the same story after every transaction, whichever
\* workers wrote last and however many crashed or lost their lease.
THEOREM StatusesAlwaysAgree == Spec => []StatusesAgree
<1>1. Init => Sound /\ StatusesAgree
  BY InitSound, InitAgrees
<1>2. (Sound /\ StatusesAgree) /\ [Next]_vars => (Sound /\ StatusesAgree)'
  BY NextSound, NextAgrees
<1>3. QED
  BY <1>1, <1>2, PTL DEF Spec

\* No step takes a sent notification back.
LEMMA SentIsFinal ==
  Sound /\ StatusesAgree /\ [Next]_vars =>
    [\A n \in Notifications : notifications[n] = "sent" => notifications'[n] = "sent"]_vars
<1> SUFFICES ASSUME Sound, StatusesAgree, [Next]_vars, NEW n \in Notifications,
                    notifications[n] = "sent"
             PROVE  notifications'[n] = "sent"
  OBVIOUS
<1>1. outbox[n].status = "processed"
  BY DEF StatusesAgree, Stories
<1>2. QED
  BY <1>1, TablesStep

\* A notification that was sent is never taken back by the late outcome of a
\* slow worker, by a retry or by an administrator.
THEOREM SentAlwaysStaysSent == Spec => SentStaysSent
<1>1. Init => Sound /\ StatusesAgree
  BY InitSound, InitAgrees
<1>2. (Sound /\ StatusesAgree) /\ [Next]_vars => (Sound /\ StatusesAgree)'
  BY NextSound, NextAgrees
<1>3. Sound /\ StatusesAgree /\ [Next]_vars =>
        [\A n \in Notifications : notifications[n] = "sent" => notifications'[n] = "sent"]_vars
  BY SentIsFinal
<1>4. QED
  BY <1>1, <1>2, <1>3, PTL DEF Spec, SentStaysSent

-----------------------------------------------------------------------------
(* The bounds, counted by event *)

\* The workers that have an event, and those of them at certain steps.
Busy(n) == {w \in Workers : Works(w, n)}
At(n, steps) == {w \in Busy(n) : workers[w].step \in steps}
Senders(n) == At(n, {"send"})
Heading(n) == At(n, {"load", "mark", "send"})

\* The step of the worker that owns the event, if it is still at work on it.
Attended(n) ==
  /\ outbox[n].status = "claimed"
  /\ outbox[n].owner \in Workers
  /\ Works(outbox[n].owner, n)
OwnerStep(n) == IF Attended(n) THEN workers[outbox[n].owner].step ELSE "none"

\* Only finitely many workers have an event, for they take it one by one.
Finite == \A n \in Events : IsFiniteSet(Busy(n))

\* The owner of an event counts its attempts as the outbox does, and repeats
\* none but an attempt before the last.
Current ==
  \A w \in Workers :
    /\ \A n \in Events : Owns(w, n) /\ Works(w, n) => workers[w].attempt = outbox[n].attempts
    /\ workers[w].step = "retry" => workers[w].attempt < MaxAttempts

Base == Sound /\ StatusesAgree /\ Current /\ Finite

-----------------------------------------------------------------------------
(* Workers and their events *)

\* Going on moves a worker between the steps of its event.
LEMMA GotoAt ==
  ASSUME WorkersTyped, NEW w \in Workers, NEW step, Goto(w, step), NEW n, NEW steps
  PROVE  /\ Busy(n)' = Busy(n)
         /\ ~Works(w, n) => At(n, steps)' = At(n, steps)
         /\ Works(w, n) /\ step \in steps => At(n, steps)' = At(n, steps) \cup {w}
         /\ Works(w, n) /\ step \notin steps => At(n, steps)' = At(n, steps) \ {w}
<1>1. /\ workers'[w].event = workers[w].event /\ workers'[w].step = step
      /\ \A v \in Workers \ {w} : workers'[v] = workers[v]
  BY DEF WorkersTyped, Goto
<1>2. Busy(n)' = Busy(n)
  BY <1>1 DEF Busy, Works
<1>3. ~Works(w, n) => At(n, steps)' = At(n, steps)
  BY <1>1 DEF Busy, Works, At
<1>4. Works(w, n) /\ step \in steps => At(n, steps)' = At(n, steps) \cup {w}
  BY <1>1 DEF Busy, Works, At
<1>5. Works(w, n) /\ step \notin steps => At(n, steps)' = At(n, steps) \ {w}
  BY <1>1 DEF Busy, Works, At
<1>6. QED
  BY <1>2, <1>3, <1>4, <1>5

\* Finishing takes a worker away from its event.
LEMMA FinishAt ==
  ASSUME WorkersTyped, NEW w \in Workers, Finish(w), NEW n \in Events, NEW steps
  PROVE  Busy(n)' = Busy(n) \ {w} /\ At(n, steps)' = At(n, steps) \ {w}
<1>1. workers'[w].event # n /\ \A v \in Workers \ {w} : workers'[v] = workers[v]
  BY WorkerAssumption DEF WorkersTyped, Finish, Idle
<1>2. Busy(n)' = Busy(n) \ {w}
  BY <1>1 DEF Busy, Works
<1>3. At(n, steps)' = At(n, steps) \ {w}
  BY <1>1 DEF Busy, Works, At
<1>4. QED
  BY <1>2, <1>3

\* A worker that claims an event had none.
LEMMA ClaimAt ==
  ASSUME WorkersTyped, NEW w \in Workers, NEW m \in Events, Claim(w, m),
         NEW n \in Events, NEW steps
  PROVE  /\ w \notin Busy(n)
         /\ m # n => Busy(n)' = Busy(n) /\ At(n, steps)' = At(n, steps)
         /\ m = n => Busy(n)' = Busy(n) \cup {w}
         /\ m = n /\ "load" \in steps => At(n, steps)' = At(n, steps) \cup {w}
         /\ m = n /\ "load" \notin steps => At(n, steps)' = At(n, steps)
<1>1. /\ workers[w].event # n /\ workers'[w].event = m /\ workers'[w].step = "load"
      /\ \A v \in Workers \ {w} : workers'[v] = workers[v]
  BY WorkerAssumption DEF WorkersTyped, Claim, Idle
<1>2. w \notin Busy(n)
  BY <1>1 DEF Busy, Works
<1>3. m # n => Busy(n)' = Busy(n) /\ At(n, steps)' = At(n, steps)
  BY <1>1 DEF Busy, Works, At
<1>4. m = n => Busy(n)' = Busy(n) \cup {w}
  BY <1>1 DEF Busy, Works
<1>5. m = n /\ "load" \in steps => At(n, steps)' = At(n, steps) \cup {w}
  BY <1>1 DEF Busy, Works, At
<1>6. m = n /\ "load" \notin steps => At(n, steps)' = At(n, steps)
  BY <1>1 DEF Busy, Works, At
<1>7. QED
  BY <1>2, <1>3, <1>4, <1>5, <1>6

\* The step of the owner changes with the worker that goes on ...
LEMMA GotoOwner ==
  ASSUME WorkersTyped, NEW w \in Workers, NEW step, Goto(w, step), NEW n \in Events,
         outbox'[n].status = outbox[n].status, outbox'[n].owner = outbox[n].owner
  PROVE  /\ Owns(w, n) /\ Works(w, n) => OwnerStep(n) = workers[w].step /\ OwnerStep(n)' = step
         /\ ~(Owns(w, n) /\ Works(w, n)) => OwnerStep(n)' = OwnerStep(n)
<1>1. /\ workers'[w].event = workers[w].event /\ workers'[w].step = step
      /\ \A v \in Workers \ {w} : workers'[v] = workers[v]
  BY DEF WorkersTyped, Goto
<1>2. QED
  BY <1>1 DEF OwnerStep, Attended, Owns, Works

\* ... and is lost with the worker that finishes.
LEMMA FinishOwner ==
  ASSUME WorkersTyped, NEW w \in Workers, Finish(w), NEW n \in Events,
         outbox'[n].status = outbox[n].status, outbox'[n].owner = outbox[n].owner
  PROVE  /\ Owns(w, n) /\ Works(w, n) => OwnerStep(n) = workers[w].step /\ OwnerStep(n)' = "none"
         /\ ~(Owns(w, n) /\ Works(w, n)) => OwnerStep(n)' = OwnerStep(n)
<1>1. workers'[w].event # n /\ \A v \in Workers \ {w} : workers'[v] = workers[v]
  BY WorkerAssumption DEF WorkersTyped, Finish, Idle
<1>2. QED
  BY <1>1 DEF OwnerStep, Attended, Owns, Works

\* Workers come to an event one by one, so that those who have it can be counted.
LEMMA AtCounted ==
  ASSUME Finite, NEW n \in Events, NEW steps
  PROVE  IsFiniteSet(At(n, steps)) /\ Cardinality(At(n, steps)) \in Nat
<1>1. IsFiniteSet(Busy(n)) /\ At(n, steps) \subseteq Busy(n)
  BY DEF Finite, At
<1>2. IsFiniteSet(At(n, steps))
  BY <1>1, FS_Subset
<1>3. QED
  BY <1>2, FS_CardinalityType

-----------------------------------------------------------------------------
(* What holds of workers and events *)

\* A worker repeats only what it may.
LEMMA FailingType ==
  ASSUME Sound, NEW w \in Workers
  PROVE  /\ Failing(w) \in {"retry", "dead"}
         /\ Failing(w) = "retry" => workers[w].attempt < MaxAttempts
<1>1. workers[w].attempt \in Nat
  BY DEF Sound, TypeOK
<1>2. QED
  BY <1>1, AttemptAssumption DEF Failing

\* Going on leaves the attempts as they are.
LEMMA GotoCurrent ==
  ASSUME Sound, Current, NEW w \in Workers, NEW step, Goto(w, step), UNCHANGED outbox,
         step = "retry" => workers[w].attempt < MaxAttempts
  PROVE  Current'
<1>1. /\ workers'[w].event = workers[w].event /\ workers'[w].step = step
      /\ workers'[w].attempt = workers[w].attempt
      /\ \A v \in Workers \ {w} : workers'[v] = workers[v]
  BY TypeParts DEF Sound, WorkersTyped, Goto
<1>2. QED
  BY <1>1 DEF Current, Owns, Works

\* So does finishing, whatever is recorded of the event.
LEMMA FinishCurrent ==
  ASSUME Sound, Current, NEW w \in Workers, Finish(w),
         \A n \in Events : outbox'[n] = outbox[n] \/ outbox'[n].status # "claimed"
  PROVE  Current'
<1>1. /\ workers'[w].event \notin Events /\ workers'[w].step = "idle"
      /\ \A v \in Workers \ {w} : workers'[v] = workers[v]
  BY TypeParts, WorkerAssumption DEF Sound, WorkersTyped, Finish, Idle
<1>2. QED
  BY <1>1 DEF Current, Owns, Works

\* While the workers stay, an event may change its lease or be released.
LEMMA StayCurrent ==
  ASSUME Current, UNCHANGED workers,
         \A n \in Events :
           \/ outbox'[n].status # "claimed"
           \/ /\ outbox'[n].status = outbox[n].status /\ outbox'[n].owner = outbox[n].owner
              /\ outbox'[n].attempts = outbox[n].attempts
  PROVE  Current'
BY DEF Current, Owns, Works

\* Recording an outcome releases the event of the worker, or does nothing.
LEMMA RecordReleases ==
  ASSUME Sound, NEW w \in Workers, workers[w].event \in Events,
         NEW status \in {"processed", "retry_wait", "dead"}, NEW outcome,
         Record(w, status, outcome), NEW n \in Events
  PROVE  /\ outbox'[n] = outbox[n] \/ outbox'[n].status # "claimed"
         /\ ~(Owns(w, n) /\ Works(w, n)) =>
              /\ outbox'[n] = outbox[n]
              /\ n \in Notifications => notifications'[n] = notifications[n]
         /\ Owns(w, n) /\ Works(w, n) =>
              /\ outbox'[n] = Released(status, outbox[n].attempts)
              /\ n \in Notifications => notifications'[n] = outcome
<1>1. OutboxTyped /\ NotificationsTyped
  BY TypeParts DEF Sound
<1>2. CASE ~Owns(w, workers[w].event)
  BY <1>2 DEF Record, Works, tables
<1>3. CASE Owns(w, workers[w].event)
  <2>1. /\ outbox' = [outbox EXCEPT ![workers[w].event] =
                        Released(status, outbox[workers[w].event].attempts)]
        /\ Note(workers[w].event, outcome)
    BY <1>3 DEF Record
  <2>2. outbox'[n] = IF Works(w, n) THEN Released(status, outbox[n].attempts) ELSE outbox[n]
    BY <2>1, <1>1 DEF OutboxTyped, Works
  <2>3. n \in Notifications =>
          notifications'[n] = IF Works(w, n) THEN outcome ELSE notifications[n]
    BY <2>1, <1>1 DEF NotificationsTyped, Works, Note
  <2>4. Released(status, outbox[n].attempts).status # "claimed"
    BY DEF Released
  <2>5. Works(w, n) => Owns(w, n)
    BY <1>3 DEF Works
  <2>6. QED
    BY <2>2, <2>3, <2>4, <2>5
<1>4. QED
  BY <1>2, <1>3

\* Every step keeps the attempts of an owner those of its event.
LEMMA NextCurrent == Sound /\ Current /\ [Next]_vars => Current'
<1> SUFFICES ASSUME Sound, Current, [Next]_vars PROVE Current'
  OBVIOUS
<1>0. OutboxTyped /\ WorkersTyped /\ Occupied
  BY TypeParts DEF Sound
<1>1. ASSUME NEW w \in Workers, NEW m \in Events, Claim(w, m) PROVE Current'
  <2>1. /\ workers'[w] = [step |-> "load", event |-> m, attempt |-> outbox[m].attempts + 1]
        /\ \A v \in Workers \ {w} : workers'[v] = workers[v]
        /\ outbox'[m].owner = w /\ outbox'[m].attempts = outbox[m].attempts + 1
        /\ \A n \in Events \ {m} : outbox'[n] = outbox[n]
    BY <1>1, <1>0 DEF Claim, WorkersTyped, OutboxTyped
  <2>2. QED
    BY <2>1 DEF Current, Owns, Works
<1>2. ASSUME NEW w \in Workers, Load(w) \/ MarkSending(w) \/ Send(w) \/ LoadFails(w)
      PROVE  Current'
  <2>1. UNCHANGED outbox /\ \E step \in {"mark", "dead", "send", "complete", Failing(w)} :
          Goto(w, step)
    BY <1>2 DEF Load, MarkSending, Send, LoadFails, tables
  <2>2. QED
    BY <2>1, GotoCurrent, FailingType
<1>3. ASSUME NEW w \in Workers, Complete(w) \/ Retry(w) \/ Dead(w) PROVE Current'
  <2>1. workers[w].event \in Events /\ Finish(w)
    BY <1>3, <1>0 DEF Complete, Retry, Dead, Occupied
  <2>2. \E status \in {"processed", "retry_wait", "dead"}, outcome \in {"sent", "retry_wait", "failed"} :
          Record(w, status, outcome)
    BY <1>3 DEF Complete, Retry, Dead
  <2>3. \A n \in Events : outbox'[n] = outbox[n] \/ outbox'[n].status # "claimed"
    BY <2>1, <2>2, RecordReleases
  <2>4. QED
    BY <2>1, <2>3, FinishCurrent
<1>4. ASSUME NEW w \in Workers, SettleFails(w) \/ Crash(w) PROVE Current'
  BY <1>4, FinishCurrent DEF SettleFails, Crash, tables
<1>5. ASSUME NEW m \in Events, LeaseExpires(m) \/ LeaseOverrun(m) \/ BackoffEnds(m)
      PROVE  Current'
  BY <1>5, <1>0, StayCurrent DEF LeaseExpires, LeaseOverrun, BackoffEnds, Expire, OutboxTyped, Event
<1>6. ASSUME NEW m \in Notifications, Requeue(m) PROVE Current'
  <2>1. UNCHANGED workers /\ outbox' = [outbox EXCEPT ![m] = Released("queued", 0)]
    BY <1>6 DEF Requeue
  <2>2. \A n \in Events : outbox'[n] = outbox[n] \/ outbox'[n].status # "claimed"
    BY <2>1, <1>0 DEF OutboxTyped, Released
  <2>3. QED
    BY <2>1, <2>2, StayCurrent
<1>7. ASSUME NEW m \in Notifications, Lapse(m) PROVE Current'
  BY <1>7, StayCurrent DEF Lapse, tables
<1>8. CASE UNCHANGED vars
  BY <1>8, StayCurrent DEF vars
<1>9. QED
  BY <1>1, <1>2, <1>3, <1>4, <1>5, <1>6, <1>7, <1>8 DEF Next, Work

\* Every step brings at most one worker to an event.
LEMMA NextFinite == Sound /\ Finite /\ [Next]_vars => Finite'
<1> SUFFICES ASSUME Sound, Finite, [Next]_vars, NEW n \in Events
             PROVE  IsFiniteSet(Busy(n)')
  BY DEF Finite
<1>0. WorkersTyped /\ IsFiniteSet(Busy(n))
  BY TypeParts DEF Sound, Finite
<1>a. Busy(n)' = Busy(n) => IsFiniteSet(Busy(n)')
  BY <1>0
<1>b. UNCHANGED workers => Busy(n)' = Busy(n)
  BY DEF Busy, Works
<1>1. ASSUME NEW w \in Workers, NEW m \in Events, Claim(w, m) PROVE IsFiniteSet(Busy(n)')
  <2>1. Busy(n)' = Busy(n) \/ Busy(n)' = Busy(n) \cup {w}
    BY <1>1, <1>0, ClaimAt
  <2>2. QED
    BY <2>1, <1>0, FS_AddElement
<1>2. ASSUME NEW w \in Workers, NEW step, Goto(w, step) PROVE IsFiniteSet(Busy(n)')
  BY <1>2, <1>0, GotoAt
<1>3. ASSUME NEW w \in Workers, Finish(w) PROVE IsFiniteSet(Busy(n)')
  <2>1. Busy(n)' = Busy(n) \ {w}
    BY <1>3, <1>0, FinishAt
  <2>2. QED
    BY <2>1, <1>0, FS_RemoveElement
<1>4. ASSUME NEW w \in Workers, Work(w) \/ LoadFails(w) \/ SettleFails(w) \/ Crash(w)
      PROVE  IsFiniteSet(Busy(n)')
  <2>1. Finish(w) \/ \E step \in {"mark", "dead", "send", "complete", Failing(w)} : Goto(w, step)
    BY <1>4 DEF Work, Load, MarkSending, Send, Complete, Retry, Dead, LoadFails, SettleFails, Crash
  <2>2. QED
    BY <2>1, <1>2, <1>3
<1>5. ASSUME \/ \E m \in Events : LeaseExpires(m) \/ LeaseOverrun(m) \/ BackoffEnds(m)
             \/ \E m \in Notifications : Requeue(m) \/ Lapse(m)
             \/ UNCHANGED vars
      PROVE  UNCHANGED workers
  BY <1>5 DEF LeaseExpires, LeaseOverrun, BackoffEnds, Requeue, Lapse, vars
<1>6. QED
  BY <1>1, <1>4, <1>5, <1>a, <1>b DEF Next

\* Workers and events fit together from the start ...
LEMMA InitBase == Init => Base
<1> SUFFICES ASSUME Init PROVE Base
  OBVIOUS
<1>1. \A w \in Workers : workers[w] = Idle
  BY DEF Init
<1>2. Current
  BY <1>1, WorkerAssumption DEF Current, Idle, Works
<1>3. \A n \in Events : Busy(n) = {}
  BY <1>1, WorkerAssumption DEF Busy, Works, Idle
<1>4. Finite
  BY <1>3, FS_EmptySet DEF Finite
<1>5. QED
  BY <1>2, <1>4, InitSound, InitAgrees DEF Base

\* ... and after every step.
LEMMA NextBase == Base /\ [Next]_vars => Base'
BY NextSound, NextAgrees, NextCurrent, NextFinite DEF Base

-----------------------------------------------------------------------------
(* A step, seen from one event *)

Sending(n) == Cardinality(Senders(n))
Underway(n) == Cardinality(Heading(n))

CountsKept(n) == Sending(n)' = Sending(n) /\ Underway(n)' = Underway(n)
NoteKept(n) == n \in Notifications => notifications'[n] = notifications[n]
RowKept(n) ==
  /\ outbox'[n].status = outbox[n].status
  /\ outbox'[n].leased = outbox[n].leased
  /\ outbox'[n].attempts = outbox[n].attempts
  /\ NoteKept(n)

\* Something else happens.
Apart(n) ==
  RowKept(n) /\ tally'[n] = tally[n] /\ CountsKept(n) /\ OwnerStep(n)' = OwnerStep(n)

\* A worker claims the event.
Taken(n) ==
  /\ \/ outbox[n].status \in {"queued", "retry_wait"}
     \/ outbox[n].status = "claimed" /\ ~outbox[n].leased
  /\ outbox'[n].status = "claimed" /\ outbox'[n].leased
  /\ outbox'[n].attempts = outbox[n].attempts + 1
  /\ NoteKept(n) /\ tally'[n] = tally[n]
  /\ Sending(n)' = Sending(n) /\ Underway(n)' = Underway(n) + 1
  /\ OwnerStep(n)' = "load"

\* A worker loads it, gives it up or is lost.
Left(n) ==
  /\ RowKept(n) /\ tally'[n] = tally[n]
  /\ Sending(n)' <= Sending(n) /\ Underway(n)' <= Underway(n)
  /\ \/ OwnerStep(n)' \in {OwnerStep(n), "dead"}
     \/ OwnerStep(n) = "load" /\ OwnerStep(n)' = "mark"
     \/ OwnerStep(n)' = "none" /\ faults' = faults + 1

\* A worker fails before its mark.
Slipped(n) ==
  /\ RowKept(n) /\ tally' = [tally EXCEPT ![n].slips = @ + IF Uncertain(n) THEN 1 ELSE 0]
  /\ Sending(n)' <= Sending(n) /\ Underway(n)' <= Underway(n)
  /\ \/ OwnerStep(n)' \in {OwnerStep(n), "dead"}
     \/ OwnerStep(n) \in {"load", "mark"} /\ OwnerStep(n)' = "retry"

\* The owner marks it; only a sendable notification is marked.
Marked(n) ==
  /\ outbox[n].status = "claimed" /\ outbox[n].leased /\ outbox'[n] = outbox[n]
  /\ n \in Notifications => Sendable(notifications[n]) /\ notifications'[n] = "sending"
  /\ tally'[n] = tally[n]
  /\ Sending(n)' = Sending(n) + 1 /\ Underway(n)' = Underway(n)
  /\ OwnerStep(n) = "mark" /\ OwnerStep(n)' = "send"

\* The provider is called; it accepts only what its worker then completes.
Called(n) ==
  /\ RowKept(n)
  /\ Sending(n)' = Sending(n) - 1 /\ Underway(n)' = Underway(n) - 1
  /\ \/ /\ tally' = [tally EXCEPT ![n].sent = @ + 1, ![n].accepted = @ + 1]
        /\ OwnerStep(n)' \in {OwnerStep(n), "complete"}
     \/ /\ tally' = [tally EXCEPT ![n].sent = @ + 1]
        /\ \/ OwnerStep(n)' = OwnerStep(n)
           \/ OwnerStep(n) = "send" /\ OwnerStep(n)' \in {"retry", "dead"}

\* The owner records its outcome.
Recorded(n) ==
  /\ outbox[n].status = "claimed" /\ OwnerStep(n)' = "none"
  /\ outbox'[n].attempts = outbox[n].attempts /\ ~outbox'[n].leased
  /\ tally'[n] = tally[n] /\ CountsKept(n)
  /\ \/ /\ outbox'[n].status \in {"processed", "dead"}
        /\ n \in Notifications => notifications'[n] \in {"sent", "failed"}
     \/ /\ outbox'[n].status = "retry_wait" /\ OwnerStep(n) = "retry"
        /\ outbox[n].attempts < MaxAttempts
        /\ n \in Notifications => notifications'[n] = "retry_wait"

\* Its lease ends, after its worker or too early.
Expired(n) ==
  /\ outbox[n].status = "claimed" /\ outbox'[n].status = "claimed" /\ ~outbox'[n].leased
  /\ outbox'[n].attempts = outbox[n].attempts
  /\ NoteKept(n) /\ tally'[n] = tally[n] /\ CountsKept(n)
  /\ OwnerStep(n)' = OwnerStep(n)
  /\ OwnerStep(n) = "none" \/ faults' = faults + 1

\* An administrator requeues it.
Requeued(n) ==
  /\ n \in Notifications /\ outbox[n].status \in {"retry_wait", "dead"}
  /\ outbox'[n].status = "queued" /\ outbox'[n].attempts = 0 /\ notifications'[n] = "queued"
  /\ tally' = [tally EXCEPT ![n].requeues = @ + 1]
  /\ CountsKept(n) /\ OwnerStep(n)' = "none"

View(n) ==
  \/ Apart(n) \/ Taken(n) \/ Left(n) \/ Slipped(n) \/ Marked(n) \/ Called(n) \/ Recorded(n)
  \/ Expired(n) \/ Requeued(n)

\* Faults are only counted up.
LEMMA FaultsGrow == Sound /\ [Next]_vars => faults' \in Nat /\ faults' >= faults
<1> SUFFICES ASSUME Sound, [Next]_vars PROVE faults' \in Nat /\ faults' >= faults
  OBVIOUS
<1>1. faults \in Nat
  BY DEF Sound, TypeOK
<1>2. faults' = faults \/ faults' = faults + 1
  BY DEF Next, Claim, Work, Load, MarkSending, Send, Complete, Retry, Dead, LoadFails, SettleFails,
         Crash, LeaseExpires, LeaseOverrun, BackoffEnds, Requeue, Lapse, Fault, vars
<1>3. QED
  BY <1>1, <1>2

\* Where a worker that goes on takes the counters of an event.
LEMMA GotoCounts ==
  ASSUME Base, NEW w \in Workers, NEW step, Goto(w, step), NEW n \in Events, Works(w, n)
  PROVE  /\ workers[w].step = "send" /\ step \notin {"load", "mark", "send"} =>
              Sending(n)' = Sending(n) - 1 /\ Underway(n)' = Underway(n) - 1
         /\ workers[w].step = "mark" /\ step = "send" =>
              Sending(n)' = Sending(n) + 1 /\ Underway(n)' = Underway(n)
         /\ step \notin {"load", "send"} =>
              Sending(n)' <= Sending(n)
         /\ step \notin {"load", "mark", "send"} \/ workers[w].step = "load" =>
              Underway(n)' <= Underway(n)
<1> DEFINE L == {"load", "mark", "send"}
<1>0. WorkersTyped /\ Finite /\ w \in Busy(n)
  BY TypeParts DEF Base, Sound, Busy
<1>1. /\ IsFiniteSet(Senders(n)) /\ Sending(n) \in Nat
      /\ IsFiniteSet(Heading(n)) /\ Underway(n) \in Nat
  BY <1>0, AtCounted DEF Senders, Heading, Sending, Underway
<1>2. /\ step = "send" => Senders(n)' = Senders(n) \cup {w}
      /\ step # "send" => Senders(n)' = Senders(n) \ {w}
      /\ step \in L => Heading(n)' = Heading(n) \cup {w}
      /\ step \notin L => Heading(n)' = Heading(n) \ {w}
  <2>1. /\ step \in {"send"} => At(n, {"send"})' = At(n, {"send"}) \cup {w}
        /\ step \notin {"send"} => At(n, {"send"})' = At(n, {"send"}) \ {w}
    BY <1>0, GotoAt
  <2>2. /\ step \in L => At(n, L)' = At(n, L) \cup {w}
        /\ step \notin L => At(n, L)' = At(n, L) \ {w}
    BY <1>0, GotoAt
  <2>3. QED
    BY <2>1, <2>2 DEF Senders, Heading
<1>3. /\ w \in Senders(n) <=> workers[w].step = "send"
      /\ w \in Heading(n) <=> workers[w].step \in L
  BY <1>0 DEF Senders, Heading, At
<1>4. /\ Cardinality(Senders(n) \cup {w}) = IF w \in Senders(n) THEN Sending(n) ELSE Sending(n) + 1
      /\ Cardinality(Senders(n) \ {w}) = IF w \in Senders(n) THEN Sending(n) - 1 ELSE Sending(n)
  BY <1>1, FS_AddElement, FS_RemoveElement DEF Sending
<1>5. /\ Cardinality(Heading(n) \cup {w}) =
           IF w \in Heading(n) THEN Underway(n) ELSE Underway(n) + 1
      /\ Cardinality(Heading(n) \ {w}) =
           IF w \in Heading(n) THEN Underway(n) - 1 ELSE Underway(n)
  BY <1>1, FS_AddElement, FS_RemoveElement DEF Underway
<1>6. /\ Sending(n)' = Cardinality(Senders(n)')
      /\ Underway(n)' = Cardinality(Heading(n)')
  BY DEF Sending, Underway
<1>7. /\ step = "send" => Sending(n)' = IF workers[w].step = "send" THEN Sending(n) ELSE Sending(n) + 1
      /\ step # "send" => Sending(n)' = IF workers[w].step = "send" THEN Sending(n) - 1 ELSE Sending(n)
  BY <1>2, <1>3, <1>4, <1>6
<1>8. /\ step \in L => Underway(n)' = IF workers[w].step \in L THEN Underway(n) ELSE Underway(n) + 1
      /\ step \notin L => Underway(n)' = IF workers[w].step \in L THEN Underway(n) - 1 ELSE Underway(n)
  BY <1>2, <1>3, <1>5, <1>6
<1>9. QED
  BY <1>1, <1>7, <1>8

\* A worker at another event does not touch the counters of this one.
LEMMA OthersApart ==
  ASSUME Base, NEW w \in Workers, NEW n \in Events, ~Works(w, n),
         \/ \E step : Goto(w, step)
         \/ Finish(w)
         \/ \E m \in Events \ {n} : Claim(w, m),
         outbox'[n] = outbox[n], NoteKept(n), tally'[n] = tally[n]
  PROVE  Apart(n)
<1>0. WorkersTyped
  BY TypeParts DEF Base, Sound
<1>1. At(n, {"send"})' = At(n, {"send"})
      /\ At(n, {"load", "mark", "send"})' = At(n, {"load", "mark", "send"})
  <2>1. ASSUME NEW step, Goto(w, step), NEW steps PROVE At(n, steps)' = At(n, steps)
    BY <2>1, <1>0, GotoAt
  <2>2. ASSUME Finish(w), NEW steps PROVE At(n, steps)' = At(n, steps)
    BY <2>2, <1>0, FinishAt DEF At, Busy
  <2>3. ASSUME NEW m \in Events \ {n}, Claim(w, m), NEW steps PROVE At(n, steps)' = At(n, steps)
    BY <2>3, <1>0, ClaimAt
  <2>4. QED
    BY <2>1, <2>2, <2>3
<1>2. CountsKept(n)
  BY <1>1 DEF CountsKept, Sending, Underway, Senders, Heading
<1>3. OwnerStep(n)' = OwnerStep(n)
  <2>1. CASE \E step : Goto(w, step)
    BY <2>1, <1>0, GotoOwner
  <2>2. CASE Finish(w)
    BY <2>2, <1>0, FinishOwner
  <2>3. ASSUME NEW m \in Events \ {n}, Claim(w, m) PROVE OwnerStep(n)' = OwnerStep(n)
    <3>1. workers'[w].event # n /\ \A v \in Workers \ {w} : workers'[v] = workers[v]
      BY <2>3, <1>0 DEF Claim, WorkersTyped
    <3>2. QED
      BY <3>1 DEF OwnerStep, Attended, Works
  <2>4. QED
    BY <2>1, <2>2, <2>3
<1>4. QED
  BY <1>2, <1>3 DEF Apart, RowKept

\* A worker that finishes counts no more; one that only records did not count.
LEMMA FinishCounts ==
  ASSUME Base, NEW w \in Workers, Finish(w), NEW n \in Events
  PROVE  /\ Sending(n)' <= Sending(n) /\ Underway(n)' <= Underway(n)
         /\ workers[w].step \in {"complete", "retry", "dead"} => CountsKept(n)
<1>0. WorkersTyped /\ Finite
  BY TypeParts DEF Base, Sound
<1>1. /\ IsFiniteSet(Senders(n)) /\ Sending(n) \in Nat
      /\ IsFiniteSet(Heading(n)) /\ Underway(n) \in Nat
  BY <1>0, AtCounted DEF Senders, Heading, Sending, Underway
<1>2. Senders(n)' = Senders(n) \ {w} /\ Heading(n)' = Heading(n) \ {w}
  BY <1>0, FinishAt DEF Senders, Heading
<1>3. /\ Sending(n)' = IF w \in Senders(n) THEN Sending(n) - 1 ELSE Sending(n)
      /\ Underway(n)' = IF w \in Heading(n) THEN Underway(n) - 1 ELSE Underway(n)
  BY <1>1, <1>2, FS_RemoveElement DEF Sending, Underway
<1>4. workers[w].step \in {"complete", "retry", "dead"} => w \notin Senders(n) /\ w \notin Heading(n)
  BY DEF Senders, Heading, At
<1>5. QED
  BY <1>1, <1>3, <1>4 DEF CountsKept

\* Nothing counts differently while the workers stay.
LEMMA StayCounts ==
  ASSUME UNCHANGED workers, NEW n
  PROVE  CountsKept(n)
<1>1. Senders(n)' = Senders(n) /\ Heading(n)' = Heading(n)
  BY DEF Senders, Heading, At, Busy, Works
<1>2. QED
  BY <1>1 DEF CountsKept, Sending, Underway

\* Seen from its event, a claim takes it.
LEMMA ClaimView ==
  ASSUME Base, NEW w \in Workers, NEW m \in Events, Claim(w, m), NEW n \in Events
  PROVE  View(n)
<1>0. OutboxTyped /\ WorkersTyped /\ Finite
  BY TypeParts DEF Base, Sound
<1>1. CASE m # n
  <2>1. outbox'[n] = outbox[n] /\ NoteKept(n) /\ tally'[n] = tally[n] /\ ~Works(w, n)
    BY <1>1, <1>0, ClaimAt DEF Claim, OutboxTyped, NoteKept, Busy
  <2>2. QED
    BY <2>1, <1>1, OthersApart DEF View
<1>2. CASE m = n
  <2>1. /\ \/ outbox[n].status \in {"queued", "retry_wait"}
           \/ outbox[n].status = "claimed" /\ ~outbox[n].leased
        /\ outbox'[n].status = "claimed" /\ outbox'[n].leased /\ outbox'[n].owner = w
        /\ outbox'[n].attempts = outbox[n].attempts + 1
        /\ NoteKept(n) /\ tally'[n] = tally[n]
        /\ workers'[w].event = n /\ workers'[w].step = "load"
    BY <1>2, <1>0 DEF Claim, Claimable, OutboxTyped, WorkersTyped, NoteKept
  <2>2. OwnerStep(n)' = "load"
    BY <2>1 DEF OwnerStep, Attended, Works
  <2>3. Senders(n)' = Senders(n) /\ Heading(n)' = Heading(n) \cup {w} /\ w \notin Heading(n)
    <3> DEFINE L == {"load", "mark", "send"}
    <3>1. w \notin Busy(n) /\ At(n, {"send"})' = At(n, {"send"})
      BY <1>2, <1>0, ClaimAt
    <3>2. At(n, L)' = At(n, L) \cup {w}
      BY <1>2, <1>0, ClaimAt
    <3>3. QED
      BY <3>1, <3>2 DEF Senders, Heading, At
  <2>4. IsFiniteSet(Heading(n))
    BY <1>0, AtCounted DEF Heading
  <2>5. Sending(n)' = Sending(n) /\ Underway(n)' = Underway(n) + 1
    BY <2>3, <2>4, FS_AddElement DEF Sending, Underway
  <2>6. QED
    BY <2>1, <2>2, <2>5 DEF View, Taken
<1>3. QED
  BY <1>1, <1>2

\* Seen from its event, what a worker does before it records an outcome.
LEMMA GotoView ==
  ASSUME Base, NEW w \in Workers, Load(w) \/ LoadFails(w) \/ MarkSending(w) \/ Send(w),
         NEW n \in Events
  PROVE  View(n)
<1>0. WorkersTyped /\ NotificationsTyped /\ TallyTyped
  BY TypeParts DEF Base, Sound
<1>a. Failing(w) \in {"retry", "dead"}
  BY FailingType DEF Base
<1>b. outbox' = outbox
  BY DEF Load, LoadFails, MarkSending, Send, tables
<1>1. CASE ~Works(w, n)
  <2>1. \E step : Goto(w, step)
    BY DEF Load, LoadFails, MarkSending, Send
  <2>2. NoteKept(n) /\ tally'[n] = tally[n]
    BY <1>0, <1>1 DEF Load, LoadFails, MarkSending, Send, Slip, Works, NoteKept, tables,
                      NotificationsTyped, TallyTyped
  <2>3. QED
    BY <1>1, <1>b, <2>1, <2>2, OthersApart DEF View
<1>2. CASE Works(w, n)
  <2>0. ASSUME NEW step, Goto(w, step)
        PROVE  \/ OwnerStep(n)' = OwnerStep(n)
               \/ OwnerStep(n) = workers[w].step /\ OwnerStep(n)' = step
    BY <2>0, <1>0, <1>b, GotoOwner
  <2>1. CASE Load(w)
    <3>1. /\ RowKept(n) /\ tally'[n] = tally[n] /\ workers[w].step = "load"
          /\ Goto(w, "mark") \/ Goto(w, "dead")
      BY <2>1 DEF Load, RowKept, NoteKept, tables
    <3>2. Sending(n)' <= Sending(n) /\ Underway(n)' <= Underway(n)
      BY <1>2, <3>1, GotoCounts
    <3>3. Left(n)
      BY <3>1, <3>2, <2>0 DEF Left
    <3>4. QED
      BY <3>3 DEF View
  <2>2. ASSUME RowKept(n), Slip(n), workers[w].step \in {"load", "mark"}, Goto(w, Failing(w))
        PROVE  View(n)
    <3>1. Sending(n)' <= Sending(n) /\ Underway(n)' <= Underway(n)
      BY <1>2, <1>a, <2>2, GotoCounts
    <3>2. Slipped(n)
      BY <3>1, <2>2, <2>0, <1>a DEF Slipped, Slip
    <3>3. QED
      BY <3>2 DEF View
  <2>3. CASE LoadFails(w)
    BY <2>3, <2>2, <1>2 DEF LoadFails, RowKept, NoteKept, tables, Works
  <2>4. CASE MarkSending(w)
    <3>1. workers[w].step = "mark" /\ workers[w].event = n
      BY <2>4, <1>2 DEF MarkSending, Works
    <3>2. ASSUME LeaseRenewed(w, n), UNCHANGED tally, Goto(w, "send"),
                 n \in Notifications => Sendable(notifications[n]) /\ notifications'[n] = "sending"
          PROVE  View(n)
      <4>1. OwnerStep(n) = "mark" /\ OwnerStep(n)' = "send"
        BY <3>1, <3>2, <1>0, <1>2, <1>b, GotoOwner DEF LeaseRenewed
      <4>2. Sending(n)' = Sending(n) + 1 /\ Underway(n)' = Underway(n)
        BY <1>2, <3>1, <3>2, GotoCounts
      <4>3. Marked(n)
        BY <4>1, <4>2, <3>2, <1>b DEF Marked, LeaseRenewed, Owns
      <4>4. QED
        BY <4>3 DEF View
    <3>3. ASSUME UNCHANGED <<notifications, tally>>, Goto(w, "dead") PROVE View(n)
      <4>1. Sending(n)' <= Sending(n) /\ Underway(n)' <= Underway(n)
        BY <1>2, <3>3, GotoCounts
      <4>2. Left(n)
        BY <4>1, <3>3, <2>0, <1>b DEF Left, RowKept, NoteKept
      <4>3. QED
        BY <4>2 DEF View
    <3>4. ASSUME Slip(n), Goto(w, Failing(w)), UNCHANGED notifications PROVE View(n)
      BY <3>1, <3>4, <2>2, <1>b DEF RowKept, NoteKept
    <3>5. \/ /\ LeaseRenewed(w, n) /\ n \in Notifications /\ Sendable(notifications[n])
             /\ notifications' = [notifications EXCEPT ![n] = "sending"]
             /\ Goto(w, "send") /\ UNCHANGED tally
          \/ Goto(w, "dead") /\ UNCHANGED <<notifications, tally>>
          \/ /\ LeaseRenewed(w, n) /\ n \in Mails /\ Goto(w, "send")
             /\ UNCHANGED <<notifications, tally>>
          \/ Slip(n) /\ Goto(w, Failing(w)) /\ UNCHANGED notifications
      BY <2>4, <3>1 DEF MarkSending
    <3>6. n \in Mails => n \notin Notifications
      BY MailAssumption
    <3>7. QED
      BY <3>2, <3>3, <3>4, <3>5, <3>6, <1>0 DEF NotificationsTyped
  <2>5. CASE Send(w)
    <3>1. workers[w].step = "send" /\ workers[w].event = n /\ RowKept(n)
      BY <2>5, <1>2 DEF Send, Works, RowKept, NoteKept, tables
    <3>2. \/ /\ Goto(w, "complete")
             /\ tally' = [tally EXCEPT ![n].sent = @ + 1, ![n].accepted = @ + 1]
          \/ /\ Goto(w, Failing(w)) \/ Goto(w, "dead")
             /\ tally' = [tally EXCEPT ![n].sent = @ + 1]
      BY <2>5, <3>1 DEF Send
    <3>3. Sending(n)' = Sending(n) - 1 /\ Underway(n)' = Underway(n) - 1
      BY <1>2, <1>a, <3>1, <3>2, GotoCounts
    <3>4. Called(n)
      BY <1>a, <2>0, <3>1, <3>2, <3>3 DEF Called
    <3>5. QED
      BY <3>4 DEF View
  <2>6. QED
    BY <2>1, <2>3, <2>4, <2>5
<1>3. QED
  BY <1>1, <1>2

\* Seen from its event, the end of a worker's attempt.
LEMMA FinishView ==
  ASSUME Base, NEW w \in Workers,
         Complete(w) \/ Retry(w) \/ Dead(w) \/ SettleFails(w) \/ Crash(w), NEW n \in Events
  PROVE  View(n)
<1>0. WorkersTyped /\ Sound /\ Occupied
  BY TypeParts DEF Base, Sound
<1>1. Finish(w) /\ tally' = tally
  BY DEF Complete, Retry, Dead, SettleFails, Crash
<1>2. CASE Complete(w) \/ Retry(w) \/ Dead(w)
  <2>1. workers[w].step \in {"complete", "retry", "dead"} /\ workers[w].event \in Events
    BY <1>2, <1>0 DEF Complete, Retry, Dead, Occupied
  <2>2. PICK status \in {"processed", "retry_wait", "dead"},
             outcome \in {"sent", "retry_wait", "failed"} :
          /\ Record(w, status, outcome)
          /\ <<status, outcome>> \in
               {<<"processed", "sent">>, <<"retry_wait", "retry_wait">>, <<"dead", "failed">>}
          /\ status = "retry_wait" => workers[w].step = "retry"
    BY <1>2 DEF Complete, Retry, Dead
  <2>3. CASE Owns(w, n) /\ Works(w, n)
    <3>1. /\ outbox'[n] = Released(status, outbox[n].attempts)
          /\ n \in Notifications => notifications'[n] = outcome
      BY <2>1, <2>2, <2>3, <1>0, RecordReleases
    <3>2. OwnerStep(n)' = "none"
      BY <3>1, <2>2 DEF Released, OwnerStep, Attended
    <3>3. status = "retry_wait" => OwnerStep(n) = "retry" /\ outbox[n].attempts < MaxAttempts
      BY <2>2, <2>3 DEF Base, Current, OwnerStep, Attended, Owns
    <3>4. CountsKept(n)
      BY <1>1, <2>1, FinishCounts
    <3>5. Recorded(n)
      BY <1>1, <2>2, <2>3, <3>1, <3>2, <3>3, <3>4 DEF Recorded, Released, Owns
    <3>6. QED
      BY <3>5 DEF View
  <2>4. CASE ~(Owns(w, n) /\ Works(w, n))
    <3>1. outbox'[n] = outbox[n] /\ NoteKept(n)
      BY <2>1, <2>2, <2>4, <1>0, RecordReleases DEF NoteKept
    <3>2. OwnerStep(n)' = OwnerStep(n)
      BY <1>0, <1>1, <2>4, <3>1, FinishOwner
    <3>3. CountsKept(n)
      BY <1>1, <2>1, FinishCounts
    <3>4. Apart(n)
      BY <1>1, <3>1, <3>2, <3>3 DEF Apart, RowKept
    <3>5. QED
      BY <3>4 DEF View
  <2>5. QED
    BY <2>3, <2>4
<1>3. CASE SettleFails(w) \/ Crash(w)
  <2>1. RowKept(n) /\ outbox'[n].owner = outbox[n].owner /\ faults' = faults + 1
    BY <1>3 DEF SettleFails, Crash, Fault, RowKept, NoteKept, tables
  <2>2. OwnerStep(n)' \in {OwnerStep(n), "none"}
    BY <1>0, <1>1, <2>1, FinishOwner DEF RowKept
  <2>3. Sending(n)' <= Sending(n) /\ Underway(n)' <= Underway(n)
    BY <1>1, FinishCounts
  <2>4. Left(n)
    BY <1>1, <2>1, <2>2, <2>3 DEF Left
  <2>5. QED
    BY <2>4 DEF View
<1>4. QED
  BY <1>2, <1>3

\* Seen from its event, time and the administrator.
LEMMA StayView ==
  ASSUME Base, NEW n \in Events,
         \/ \E m \in Events : LeaseExpires(m) \/ LeaseOverrun(m) \/ BackoffEnds(m)
         \/ \E m \in Notifications : Requeue(m) \/ Lapse(m)
         \/ UNCHANGED vars
  PROVE  View(n)
<1>0. OutboxTyped /\ NotificationsTyped /\ TallyTyped /\ WorkersTyped
  BY TypeParts DEF Base, Sound
<1>1. UNCHANGED workers /\ CountsKept(n)
  BY StayCounts DEF LeaseExpires, LeaseOverrun, BackoffEnds, Requeue, Lapse, vars
<1>2. outbox'[n].status = outbox[n].status /\ outbox'[n].owner = outbox[n].owner
        => OwnerStep(n)' = OwnerStep(n)
  BY <1>1 DEF OwnerStep, Attended, Works
<1>3. ASSUME RowKept(n), outbox'[n].owner = outbox[n].owner, tally'[n] = tally[n] PROVE View(n)
  BY <1>1, <1>2, <1>3 DEF View, Apart, RowKept
<1>4. ASSUME NEW m \in Events, LeaseExpires(m) \/ LeaseOverrun(m) PROVE View(n)
  <2>1. CASE m # n
    BY <2>1, <1>0, <1>3, <1>4 DEF LeaseExpires, LeaseOverrun, Expire, RowKept, NoteKept, OutboxTyped
  <2>2. CASE m = n
    <3>1. /\ outbox[n].status = "claimed" /\ outbox'[n].status = "claimed"
          /\ ~outbox'[n].leased /\ outbox'[n].attempts = outbox[n].attempts
          /\ outbox'[n].owner = outbox[n].owner
          /\ NoteKept(n) /\ tally'[n] = tally[n]
      BY <2>2, <1>0, <1>4 DEF LeaseExpires, LeaseOverrun, Expire, NoteKept, OutboxTyped, Event
    <3>2. OwnerStep(n) = "none" \/ faults' = faults + 1
      BY <2>2, <1>4 DEF LeaseExpires, LeaseOverrun, Fault, OwnerStep, Attended
    <3>3. Expired(n)
      BY <3>1, <3>2, <1>1, <1>2 DEF Expired
    <3>4. QED
      BY <3>3 DEF View
  <2>3. QED
    BY <2>1, <2>2
<1>5. ASSUME NEW m \in Events, BackoffEnds(m) PROVE View(n)
  BY <1>0, <1>3, <1>5 DEF BackoffEnds, RowKept, NoteKept, OutboxTyped, Event
<1>6. ASSUME NEW m \in Notifications, Requeue(m) PROVE View(n)
  <2>1. CASE m # n
    BY <2>1, <1>0, <1>3, <1>6
    DEF Requeue, RowKept, NoteKept, OutboxTyped, NotificationsTyped, TallyTyped
  <2>2. CASE m = n
    <3>1. /\ outbox[n].status \in {"retry_wait", "dead"} /\ outbox'[n] = Released("queued", 0)
          /\ notifications'[n] = "queued"
          /\ tally' = [tally EXCEPT ![n].requeues = @ + 1]
      BY <2>2, <1>0, <1>6 DEF Requeue, Requeueable, OutboxTyped, NotificationsTyped
    <3>2. OwnerStep(n)' = "none"
      BY <3>1 DEF Released, OwnerStep, Attended
    <3>3. Requeued(n)
      BY <2>2, <3>1, <3>2, <1>1 DEF Requeued, Released
    <3>4. QED
      BY <3>3 DEF View
  <2>3. QED
    BY <2>1, <2>2
<1>7. ASSUME NEW m \in Notifications, Lapse(m) PROVE View(n)
  BY <1>3, <1>7 DEF Lapse, RowKept, NoteKept, tables
<1>8. CASE UNCHANGED vars
  BY <1>3, <1>8 DEF vars, RowKept, NoteKept
<1>9. QED
  BY <1>4, <1>5, <1>6, <1>7, <1>8

\* What any step may make of an event.
LEMMA ViewStep ==
  ASSUME Base, [Next]_vars, NEW n \in Events
  PROVE  View(n)
<1>1. ASSUME NEW w \in Workers, Work(w) \/ LoadFails(w) \/ SettleFails(w) \/ Crash(w)
      PROVE  View(n)
  BY <1>1, GotoView, FinishView DEF Work
<1>2. QED
  BY <1>1, ClaimView, StayView DEF Next

-----------------------------------------------------------------------------
(* What is sent and accepted *)

\* A claim counts an attempt, and each attempt before the last is followed by
\* another only after a retry; what was sent since the last requeueing is bounded
\* by both, and a sendable notification has a call to spare.
Round(n) == tally[n].sent + Sending(n) - MaxAttempts * tally[n].requeues
CallsWithin(n) ==
  /\ Round(n) <= MaxAttempts
  /\ ~Settled(n) => Round(n) <= outbox[n].attempts
  /\ outbox[n].status = "claimed" /\ Sendable(notifications[n]) =>
       Round(n) < MaxAttempts /\ Round(n) < outbox[n].attempts
  /\ outbox[n].status \in {"queued", "retry_wait"} => outbox[n].attempts < MaxAttempts
CallsBounded == \A n \in Notifications : CallsWithin(n)

\* A notification may go out again while it is sendable or its owner repeats it.
Again(n) == IF Sendable(notifications[n]) \/ OwnerStep(n) = "retry" THEN 1 ELSE 0
OnceWithin(n) ==
  tally[n].accepted + Sending(n) + Again(n) <= 1 + tally[n].requeues + tally[n].slips
OnceBounded == \A n \in Notifications : OnceWithin(n)

\* A mail may go out again while it is open, its lease or its worker is lost, or its
\* owner has not sent it or repeats it.  An attempt beyond the last is due to a fault.
Lost(n) == outbox[n].status = "claimed" /\ (~outbox[n].leased \/ OwnerStep(n) = "none")
MailAgain(n) ==
  IF outbox[n].status \in {"queued", "retry_wait"} \/ Lost(n)
     \/ OwnerStep(n) \in {"load", "mark", "retry"}
  THEN 1 ELSE 0
MailWithin(n) ==
  /\ tally[n].sent + Underway(n) <= outbox[n].attempts
  /\ outbox[n].attempts <= MaxAttempts + faults
  /\ Lost(n) => outbox[n].attempts < MaxAttempts + faults
  /\ outbox[n].status \in {"queued", "retry_wait"} => outbox[n].attempts < MaxAttempts
  /\ tally[n].accepted + Sending(n) + MailAgain(n) <= 1 + faults
MailsCounted == \A n \in Mails : MailWithin(n)

\* The counters are numbers.
LEMMA CountTypes ==
  ASSUME Base, NEW n \in Events
  PROVE  /\ Sending(n) \in Nat /\ Underway(n) \in Nat
         /\ tally[n] \in [sent : Nat, accepted : Nat, requeues : Nat, slips : Nat]
         /\ outbox[n] \in Event
         /\ faults \in Nat
BY TypeParts, AtCounted
DEF Base, Sound, TallyTyped, OutboxTyped, RestTyped, Sending, Underway, Senders, Heading

\* So they are after a step.
LEMMA NextCountTypes ==
  ASSUME Base', NEW n \in Events
  PROVE  /\ Sending(n)' \in Nat /\ Underway(n)' \in Nat
         /\ tally'[n] \in [sent : Nat, accepted : Nat, requeues : Nat, slips : Nat]
         /\ outbox'[n] \in Event
         /\ faults' \in Nat
<1>1. IsFiniteSet(Busy(n)')
  BY DEF Base, Finite
<1>2. Senders(n)' \subseteq Busy(n)' /\ Heading(n)' \subseteq Busy(n)'
  BY DEF Senders, Heading, At
<1>3. Cardinality(Senders(n)') \in Nat /\ Cardinality(Heading(n)') \in Nat
  BY <1>1, <1>2, FS_Subset, FS_CardinalityType
<1>4. QED
  BY <1>3 DEF Base, Sound, TypeOK, Event, Sending, Underway

\* At first nothing is sent.
LEMMA InitCounts == Init => CallsBounded /\ OnceBounded /\ MailsCounted
<1> SUFFICES ASSUME Init PROVE CallsBounded /\ OnceBounded /\ MailsCounted
  OBVIOUS
<1>1. ASSUME NEW n \in Events
      PROVE  /\ Sending(n) = 0 /\ Underway(n) = 0 /\ OwnerStep(n) = "none"
             /\ outbox[n].status = "queued" /\ outbox[n].attempts = 0
             /\ tally[n].sent = 0 /\ tally[n].accepted = 0
             /\ tally[n].requeues = 0 /\ tally[n].slips = 0
  <2>1. Busy(n) = {}
    BY WorkerAssumption DEF Init, Busy, Works, Idle
  <2>2. Sending(n) = 0 /\ Underway(n) = 0
    BY <2>1, FS_EmptySet DEF Sending, Underway, Senders, Heading, At
  <2>3. outbox[n].status = "queued" /\ outbox[n].attempts = 0
    BY DEF Init, Released
  <2>4. OwnerStep(n) = "none"
    BY <2>3 DEF OwnerStep, Attended
  <2>5. QED
    BY <2>2, <2>3, <2>4 DEF Init
<1>2. CallsBounded
  BY <1>1, AttemptAssumption DEF CallsBounded, CallsWithin, Round, Events, Settled
<1>3. OnceBounded
  BY <1>1 DEF OnceBounded, OnceWithin, Again, Events
<1>4. ASSUME NEW n \in Mails PROVE MailWithin(n)
  <2>1. n \in Events /\ faults = 0
    BY DEF Events, Init
  <2>2. ~Lost(n) /\ MailAgain(n) = 1
    BY <2>1, <1>1 DEF Lost, MailAgain
  <2>3. QED
    BY <2>1, <2>2, <1>1, AttemptAssumption DEF MailWithin
<1>5. QED
  BY <1>2, <1>3, <1>4 DEF MailsCounted

\* No step exceeds the calls of a notification.
LEMMA NextCalls == Base /\ CallsBounded /\ [Next]_vars => CallsBounded'
<1> SUFFICES ASSUME Base, CallsBounded, [Next]_vars, NEW n \in Notifications
             PROVE  CallsWithin(n)'
  BY DEF CallsBounded
<1>0. n \in Events /\ MaxAttempts \in Nat \ {0}
  BY AttemptAssumption DEF Events
<1>1. View(n) /\ Base'
  BY <1>0, ViewStep, NextBase
<1>2. /\ Sending(n) \in Nat /\ Sending(n)' \in Nat /\ outbox[n] \in Event /\ outbox'[n] \in Event
      /\ tally[n] \in [sent : Nat, accepted : Nat, requeues : Nat, slips : Nat]
      /\ tally'[n] \in [sent : Nat, accepted : Nat, requeues : Nat, slips : Nat]
  BY <1>0, <1>1, CountTypes, NextCountTypes
<1>a. tally \in [Events -> [sent : Nat, accepted : Nat, requeues : Nat, slips : Nat]]
  BY TypeParts DEF Base, Sound, TallyTyped
<1>3. CallsWithin(n)
  BY DEF CallsBounded
<1>4. /\ MaxAttempts * tally[n].requeues \in Int /\ MaxAttempts * tally'[n].requeues \in Int
      /\ Round(n) \in Int /\ Round(n)' \in Int
  BY <1>0, <1>2 DEF Round
<1>5. ASSUME tally'[n].requeues = tally[n].requeues
      PROVE  Round(n)' - Round(n) = tally'[n].sent + Sending(n)' - (tally[n].sent + Sending(n))
  BY <1>2, <1>4, <1>5 DEF Round
<1>b. tally'[n] = tally[n] /\ Sending(n)' = Sending(n) => Round(n)' = Round(n)
  BY DEF Round
<1>6. ASSUME RowKept(n), Round(n)' <= Round(n) PROVE CallsWithin(n)'
  <2>1. /\ outbox'[n].status = outbox[n].status /\ outbox'[n].attempts = outbox[n].attempts
        /\ notifications'[n] = notifications[n]
    BY <1>6 DEF RowKept, NoteKept
  <2>2. Settled(n)' <=> Settled(n)
    BY <2>1 DEF Settled
  <2>3. outbox[n].attempts \in Nat
    BY <1>2 DEF Event
  <2>4. QED
    BY <2>1, <2>2, <2>3, <1>0, <1>3, <1>4, <1>6 DEF CallsWithin, Sendable
<1>7. CASE Apart(n) \/ Left(n) \/ Slipped(n) \/ Called(n)
  <2>1. /\ RowKept(n) /\ tally'[n].requeues = tally[n].requeues
        /\ tally'[n].sent + Sending(n)' <= tally[n].sent + Sending(n)
    BY <1>0, <1>2, <1>a, <1>7 DEF Apart, Left, Slipped, Called, CountsKept
  <2>2. Round(n)' <= Round(n)
    BY <2>1, <1>2, <1>4, <1>5
  <2>3. QED
    BY <2>1, <2>2, <1>6
<1>8. CASE Taken(n)
  <2>1. Round(n)' = Round(n)
    BY <1>8, <1>b DEF Taken
  <2>2. QED
    BY <2>1, <1>0, <1>2, <1>3, <1>4, <1>8 DEF CallsWithin, Taken, NoteKept, Settled, Event
<1>9. CASE Marked(n)
  <2>1. Round(n)' = Round(n) + 1
    BY <1>9, <1>2, <1>4, <1>5 DEF Marked
  <2>2. QED
    BY <2>1, <1>0, <1>2, <1>3, <1>4, <1>9 DEF CallsWithin, Marked, Sendable, Settled, Event
<1>10. CASE Recorded(n)
  <2>1. Round(n)' = Round(n)
    BY <1>10, <1>b DEF Recorded, CountsKept
  <2>2. QED
    BY <2>1, <1>0, <1>2, <1>3, <1>4, <1>10 DEF CallsWithin, Recorded, Settled, Event
<1>11. CASE Expired(n)
  <2>1. Round(n)' = Round(n)
    BY <1>11, <1>b DEF Expired, CountsKept
  <2>2. QED
    BY <2>1, <1>0, <1>2, <1>3, <1>4, <1>11 DEF CallsWithin, Expired, NoteKept, Settled, Event
<1>12. CASE Requeued(n)
  <2>1. tally'[n].sent = tally[n].sent /\ tally'[n].requeues = tally[n].requeues + 1
    BY <1>0, <1>a, <1>12 DEF Requeued
  <2>2. Round(n)' = Round(n) - MaxAttempts
    BY <2>1, <1>0, <1>2, <1>12 DEF Requeued, CountsKept, Round
  <2>3. QED
    BY <2>2, <1>0, <1>2, <1>3, <1>4, <1>12 DEF CallsWithin, Requeued, Settled, Event
<1>13. QED
  BY <1>1, <1>7, <1>8, <1>9, <1>10, <1>11, <1>12 DEF View

\* No step delivers a notification once more.
LEMMA NextOnce == Base /\ OnceBounded /\ [Next]_vars => OnceBounded'
<1> SUFFICES ASSUME Base, OnceBounded, [Next]_vars, NEW n \in Notifications
             PROVE  OnceWithin(n)'
  BY DEF OnceBounded
<1>0. n \in Events
  BY DEF Events
<1>1. View(n) /\ Base'
  BY <1>0, ViewStep, NextBase
<1>2. /\ Sending(n) \in Nat /\ Sending(n)' \in Nat /\ outbox[n] \in Event
      /\ tally[n] \in [sent : Nat, accepted : Nat, requeues : Nat, slips : Nat]
      /\ tally'[n] \in [sent : Nat, accepted : Nat, requeues : Nat, slips : Nat]
  BY <1>0, <1>1, CountTypes, NextCountTypes
<1>a. tally \in [Events -> [sent : Nat, accepted : Nat, requeues : Nat, slips : Nat]]
  BY TypeParts DEF Base, Sound, TallyTyped
<1>3. OnceWithin(n)
  BY DEF OnceBounded
<1>4. Again(n) \in {0, 1} /\ Again(n)' \in {0, 1}
  BY DEF Again
<1>5. <<outbox[n].status, notifications[n]>> \in Stories
  BY DEF Base, StatusesAgree
<1>b. OwnerStep(n) # "none" => outbox[n].status = "claimed"
  BY DEF OwnerStep, Attended
<1>6. ASSUME Again(n)' <= Again(n), tally'[n] = tally[n], Sending(n)' <= Sending(n)
      PROVE  OnceWithin(n)'
  BY <1>2, <1>3, <1>4, <1>6 DEF OnceWithin
<1>7. CASE Apart(n) \/ Taken(n) \/ Left(n) \/ Expired(n)
  <2>1. /\ NoteKept(n) /\ tally'[n] = tally[n] /\ Sending(n)' <= Sending(n)
        /\ OwnerStep(n)' \in {OwnerStep(n), "load", "mark", "dead", "none"}
    BY <1>2, <1>7 DEF Apart, Taken, Left, Expired, RowKept, CountsKept
  <2>2. Again(n)' <= Again(n)
    BY <2>1 DEF Again, NoteKept
  <2>3. QED
    BY <2>1, <2>2, <1>6
<1>8. CASE Slipped(n)
  <2>1. /\ notifications'[n] = notifications[n] /\ Sending(n)' <= Sending(n)
        /\ tally'[n].accepted = tally[n].accepted /\ tally'[n].requeues = tally[n].requeues
        /\ tally'[n].slips = tally[n].slips + IF notifications[n] = "sending" THEN 1 ELSE 0
    BY <1>0, <1>a, <1>8 DEF Slipped, RowKept, NoteKept, Uncertain
  <2>2. CASE OwnerStep(n)' \in {OwnerStep(n), "dead"}
    <3>1. Again(n)' <= Again(n)
      BY <2>1, <2>2 DEF Again
    <3>2. QED
      BY <2>1, <3>1, <1>2, <1>3, <1>4 DEF OnceWithin
  <2>3. CASE OwnerStep(n) \in {"load", "mark"}
    <3>1. notifications[n] = "sending" \/ Sendable(notifications[n])
      BY <2>3, <1>5, <1>b DEF Stories, Sendable
    <3>2. CASE notifications[n] = "sending"
      BY <2>1, <2>3, <3>2, <1>2, <1>3 DEF OnceWithin, Again, Sendable
    <3>3. CASE Sendable(notifications[n])
      <4>1. Again(n) = 1 /\ tally'[n].slips >= tally[n].slips
        BY <2>1, <3>3, <1>2 DEF Again
      <4>2. QED
        BY <2>1, <4>1, <1>2, <1>3, <1>4 DEF OnceWithin
    <3>4. QED
      BY <3>1, <3>2, <3>3
  <2>4. QED
    BY <1>8, <2>2, <2>3 DEF Slipped
<1>9. CASE Marked(n)
  <2>1. Again(n) = 1 /\ Again(n)' = 0
    BY <1>9 DEF Marked, Again, Sendable
  <2>2. QED
    BY <2>1, <1>2, <1>3, <1>9 DEF OnceWithin, Marked
<1>10. CASE Called(n)
  <2>1. notifications'[n] = notifications[n] /\ Sending(n)' = Sending(n) - 1
    BY <1>10 DEF Called, RowKept, NoteKept
  <2>2. CASE /\ tally' = [tally EXCEPT ![n].sent = @ + 1, ![n].accepted = @ + 1]
             /\ OwnerStep(n)' \in {OwnerStep(n), "complete"}
    <3>1. Again(n)' <= Again(n)
      BY <2>1, <2>2 DEF Again
    <3>2. /\ tally'[n].accepted = tally[n].accepted + 1
          /\ tally'[n].requeues = tally[n].requeues /\ tally'[n].slips = tally[n].slips
      BY <1>0, <1>a, <2>2
    <3>3. QED
      BY <2>1, <3>1, <3>2, <1>2, <1>3, <1>4 DEF OnceWithin
  <2>3. CASE tally' = [tally EXCEPT ![n].sent = @ + 1]
    <3>1. /\ tally'[n].accepted = tally[n].accepted
          /\ tally'[n].requeues = tally[n].requeues /\ tally'[n].slips = tally[n].slips
      BY <1>0, <1>a, <2>3
    <3>2. QED
      BY <2>1, <3>1, <1>2, <1>3, <1>4 DEF OnceWithin
  <2>4. QED
    BY <1>10, <2>2, <2>3 DEF Called
<1>11. CASE Recorded(n)
  <2>1. Again(n)' <= Again(n)
    BY <1>11, <1>0 DEF Recorded, Again, Sendable
  <2>2. QED
    BY <2>1, <1>2, <1>6, <1>11 DEF Recorded, CountsKept
<1>12. CASE Requeued(n)
  <2>1. /\ tally'[n].accepted = tally[n].accepted
        /\ tally'[n].requeues = tally[n].requeues + 1 /\ tally'[n].slips = tally[n].slips
    BY <1>0, <1>a, <1>12 DEF Requeued
  <2>2. QED
    BY <2>1, <1>2, <1>3, <1>4, <1>12 DEF OnceWithin, Requeued, CountsKept
<1>13. QED
  BY <1>1, <1>7, <1>8, <1>9, <1>10, <1>11, <1>12 DEF View

\* No step sends a mail more often than the faults explain.
LEMMA NextMails == Base /\ MailsCounted /\ [Next]_vars => MailsCounted'
<1> SUFFICES ASSUME Base, MailsCounted, [Next]_vars, NEW n \in Mails
             PROVE  MailWithin(n)'
  BY DEF MailsCounted
<1>0. n \in Events /\ n \notin Notifications /\ MaxAttempts \in Nat \ {0}
  BY AttemptAssumption, MailAssumption DEF Events
<1>1. View(n) /\ Base' /\ faults' >= faults
  BY <1>0, ViewStep, NextBase, FaultsGrow DEF Base
<1>2. /\ Sending(n) \in Nat /\ Sending(n)' \in Nat /\ Underway(n) \in Nat /\ Underway(n)' \in Nat
      /\ outbox[n] \in Event /\ outbox'[n] \in Event
      /\ tally[n] \in [sent : Nat, accepted : Nat, requeues : Nat, slips : Nat]
      /\ tally'[n] \in [sent : Nat, accepted : Nat, requeues : Nat, slips : Nat]
      /\ faults \in Nat /\ faults' \in Nat
  BY <1>0, <1>1, CountTypes, NextCountTypes
<1>a. tally \in [Events -> [sent : Nat, accepted : Nat, requeues : Nat, slips : Nat]]
  BY TypeParts DEF Base, Sound, TallyTyped
<1>3. MailWithin(n)
  BY DEF MailsCounted
<1>4. MailAgain(n) \in {0, 1} /\ MailAgain(n)' \in {0, 1}
  BY DEF MailAgain
<1>b. OwnerStep(n) # "none" => outbox[n].status = "claimed"
  BY DEF OwnerStep, Attended
\* The attempts, as far as a step keeps the row of the event.
<1>5. ASSUME RowKept(n), Lost(n)' => Lost(n) \/ faults' = faults + 1
      PROVE  /\ outbox'[n].attempts <= MaxAttempts + faults'
             /\ Lost(n)' => outbox'[n].attempts < MaxAttempts + faults'
             /\ outbox'[n].status \in {"queued", "retry_wait"} => outbox'[n].attempts < MaxAttempts
  BY <1>0, <1>1, <1>2, <1>3, <1>5 DEF MailWithin, RowKept, Event
<1>6. CASE Apart(n)
  <2>1. Lost(n)' = Lost(n) /\ MailAgain(n)' = MailAgain(n)
    BY <1>6 DEF Apart, RowKept, Lost, MailAgain
  <2>2. QED
    BY <2>1, <1>1, <1>2, <1>3, <1>4, <1>5, <1>6
    DEF MailWithin, Apart, CountsKept, RowKept, Event
<1>7. CASE Taken(n)
  <2>1. ~Lost(n)' /\ MailAgain(n) = 1
    BY <1>7 DEF Taken, Lost, MailAgain
  <2>2. outbox[n].attempts < MaxAttempts + faults
    BY <1>0, <1>2, <1>3, <1>7 DEF Taken, MailWithin, Lost, Event
  <2>3. QED
    BY <2>1, <2>2, <1>0, <1>1, <1>2, <1>3, <1>4, <1>7 DEF MailWithin, Taken, Event
<1>8. CASE Left(n)
  <2>1. Lost(n)' => Lost(n) \/ faults' = faults + 1
    BY <1>8 DEF Left, RowKept, Lost
  <2>2. MailAgain(n)' <= MailAgain(n) \/ faults' = faults + 1
    BY <1>8, <1>4 DEF Left, RowKept, MailAgain, Lost
  <2>3. tally'[n].accepted + Sending(n)' + MailAgain(n)' <= 1 + faults'
    BY <2>2, <1>1, <1>2, <1>3, <1>4, <1>8 DEF MailWithin, Left
  <2>4. QED
    BY <2>1, <2>3, <1>2, <1>3, <1>5, <1>8 DEF MailWithin, Left, RowKept, Event
<1>9. CASE Slipped(n)
  <2>1. tally'[n].sent = tally[n].sent /\ tally'[n].accepted = tally[n].accepted
    BY <1>0, <1>a, <1>9 DEF Slipped
  <2>2. Lost(n)' => Lost(n)
    BY <1>9 DEF Slipped, RowKept, Lost
  <2>3. MailAgain(n)' <= MailAgain(n)
    BY <1>9, <1>4 DEF Slipped, RowKept, MailAgain, Lost
  <2>4. tally'[n].accepted + Sending(n)' + MailAgain(n)' <= 1 + faults'
    BY <2>1, <2>3, <1>1, <1>2, <1>3, <1>4, <1>9 DEF MailWithin, Slipped
  <2>5. QED
    BY <2>1, <2>2, <2>4, <1>2, <1>3, <1>5, <1>9 DEF MailWithin, Slipped, RowKept, Event
<1>10. CASE Marked(n)
  <2>1. ~Lost(n)' /\ MailAgain(n) = 1 /\ MailAgain(n)' = 0
    BY <1>10 DEF Marked, Lost, MailAgain
  <2>2. QED
    BY <2>1, <1>0, <1>1, <1>2, <1>3, <1>10 DEF MailWithin, Marked, Event
<1>11. CASE Called(n)
  <2>1. RowKept(n) /\ Sending(n)' = Sending(n) - 1 /\ Underway(n)' = Underway(n) - 1
    BY <1>11 DEF Called
  <2>2. Lost(n)' => Lost(n)
    BY <2>1, <1>11 DEF Called, RowKept, Lost
  <2>3. tally'[n].sent = tally[n].sent + 1
    BY <1>0, <1>a, <1>11 DEF Called
  <2>4. \/ tally'[n].accepted = tally[n].accepted
        \/ tally'[n].accepted = tally[n].accepted + 1 /\ MailAgain(n)' <= MailAgain(n)
    <3>1. CASE /\ tally' = [tally EXCEPT ![n].sent = @ + 1, ![n].accepted = @ + 1]
               /\ OwnerStep(n)' \in {OwnerStep(n), "complete"}
      <4>1. tally'[n].accepted = tally[n].accepted + 1
        BY <1>0, <1>a, <3>1
      <4>2. MailAgain(n)' <= MailAgain(n)
        BY <2>1, <2>2, <1>4, <3>1 DEF RowKept, MailAgain
      <4>3. QED
        BY <4>1, <4>2
    <3>2. CASE tally' = [tally EXCEPT ![n].sent = @ + 1]
      BY <1>0, <1>a, <3>2
    <3>3. QED
      BY <1>11, <3>1, <3>2 DEF Called
  <2>5. tally'[n].accepted + Sending(n)' + MailAgain(n)' <= 1 + faults'
    BY <2>1, <2>4, <1>1, <1>2, <1>3, <1>4 DEF MailWithin
  <2>6. QED
    BY <2>1, <2>2, <2>3, <2>5, <1>2, <1>3, <1>5 DEF MailWithin, RowKept, Event
<1>12. CASE Recorded(n)
  <2>1. ~Lost(n)' /\ MailAgain(n)' <= MailAgain(n)
    BY <1>12, <1>4 DEF Recorded, Lost, MailAgain
  <2>2. QED
    BY <2>1, <1>0, <1>1, <1>2, <1>3, <1>4, <1>12 DEF MailWithin, Recorded, CountsKept, Event
<1>13. CASE Expired(n)
  <2>1. Lost(n) \/ faults' = faults + 1
    BY <1>13 DEF Expired, Lost
  <2>2. MailAgain(n)' <= MailAgain(n) \/ faults' = faults + 1
    BY <2>1, <1>4 DEF MailAgain
  <2>3. QED
    BY <2>1, <2>2, <1>0, <1>1, <1>2, <1>3, <1>4, <1>13
    DEF MailWithin, Expired, CountsKept, Event
<1>14. CASE Requeued(n)
  BY <1>0, <1>14 DEF Requeued
<1>15. QED
  BY <1>1, <1>6, <1>7, <1>8, <1>9, <1>10, <1>11, <1>12, <1>13, <1>14 DEF View

-----------------------------------------------------------------------------
(* The theorems *)

\* However many workers crash or stall, the provider is called at most max_attempts
\* times each time a notification is queued.
THEOREM SendsAlwaysBounded == Spec => []SendsBounded
<1>1. Init => Base /\ CallsBounded
  BY InitBase, InitCounts
<1>2. (Base /\ CallsBounded) /\ [Next]_vars => (Base /\ CallsBounded)'
  BY NextBase, NextCalls
<1>3. Base /\ CallsBounded => SendsBounded
  <2> SUFFICES ASSUME Base, CallsBounded, NEW n \in Notifications
               PROVE  tally[n].sent <= MaxAttempts * (1 + tally[n].requeues)
    BY DEF SendsBounded
  <2>1. n \in Events /\ MaxAttempts \in Nat
    BY AttemptAssumption DEF Events
  <2>2. Round(n) <= MaxAttempts
    BY DEF CallsBounded, CallsWithin
  <2>3. Sending(n) \in Nat /\ tally[n].sent \in Nat /\ tally[n].requeues \in Nat
    BY <2>1, CountTypes
  <2>4. MaxAttempts * (1 + tally[n].requeues) = MaxAttempts + MaxAttempts * tally[n].requeues
        /\ MaxAttempts * tally[n].requeues \in Nat
    BY <2>1, <2>3
  <2>5. QED
    BY <2>1, <2>2, <2>3, <2>4 DEF Round
<1>4. QED
  BY <1>1, <1>2, <1>3, PTL DEF Spec

\* A notification reaches the customer once, and once more for every requeueing and
\* every failure before the mark while it was uncertain.
THEOREM OnceAlwaysUnlessSlipped == Spec => []DeliveredOnceUnlessSlipped
<1>1. Init => Base /\ OnceBounded
  BY InitBase, InitCounts
<1>2. (Base /\ OnceBounded) /\ [Next]_vars => (Base /\ OnceBounded)'
  BY NextBase, NextOnce
<1>3. Base /\ OnceBounded => DeliveredOnceUnlessSlipped
  <2> SUFFICES ASSUME Base, OnceBounded, NEW n \in Notifications
               PROVE  tally[n].accepted <= 1 + tally[n].requeues + tally[n].slips
    BY DEF DeliveredOnceUnlessSlipped
  <2>1. /\ OnceWithin(n) /\ Sending(n) \in Nat /\ Again(n) \in {0, 1}
        /\ tally[n] \in [sent : Nat, accepted : Nat, requeues : Nat, slips : Nat]
    BY CountTypes DEF OnceBounded, Again, Events
  <2>2. QED
    BY <2>1 DEF OnceWithin
<1>4. QED
  BY <1>1, <1>2, <1>3, PTL DEF Spec

\* A mail is sent beyond max_attempts, or once more after it was accepted, only as
\* often as something interfered with a worker.
THEOREM MailsAlwaysBounded == Spec => []MailsBounded
<1>1. Init => Base /\ MailsCounted
  BY InitBase, InitCounts
<1>2. (Base /\ MailsCounted) /\ [Next]_vars => (Base /\ MailsCounted)'
  BY NextBase, NextMails
<1>3. Base /\ MailsCounted => MailsBounded
  <2> SUFFICES ASSUME Base, MailsCounted, NEW n \in Mails
               PROVE  tally[n].sent <= MaxAttempts + faults /\ tally[n].accepted <= 1 + faults
    BY DEF MailsBounded
  <2>1. /\ MailWithin(n) /\ Sending(n) \in Nat /\ Underway(n) \in Nat /\ MailAgain(n) \in {0, 1}
        /\ tally[n] \in [sent : Nat, accepted : Nat, requeues : Nat, slips : Nat]
        /\ outbox[n] \in Event /\ faults \in Nat /\ MaxAttempts \in Nat
    BY CountTypes, AttemptAssumption DEF MailsCounted, MailAgain, Events
  <2>2. QED
    BY <2>1 DEF MailWithin, Event
<1>4. QED
  BY <1>1, <1>2, <1>3, PTL DEF Spec
=============================================================================
