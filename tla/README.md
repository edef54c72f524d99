# A TLA+ model of HackWerk

HackWerk plans wood-chipping jobs: customers call in, an administrator puts
their jobs on a waiting list, plans appointments with drivers and machines,
alone or along a route, fixes them, and the system asks the customers by e-mail
or SMS to confirm. Jobs can also be dictated. This directory models the part of
it that must not go wrong, checks the model on small instances with TLC and
proves its central invariants with TLAPS.

All paths below are relative to the repository.

## 1. The system and its parts

HackWerk is one Go program with two roles, `serve` (HTTP) and `worker`, over one
PostgreSQL database. Several of each may run. They share nothing but the
database; everything that interacts does so through transactions.

| Part | State | Operations | Modelled |
|---|---|---|---|
| Appointment scheduling: `internal/appointment`, `appointment_store.go`, `appointments.sql` | tables `appointments`, `appointment_drivers`, `appointment_resources` | draft, plan, assign, propose, move/resize, fix, cancel, reopen, complete, swap | yes, `Scheduling` |
| Reservation rows: `00005_calendar_scheduling.sql` | copies of time, activity and exclusive flag per driver and resource | insert, refresh; exclusion constraints | yes, `Reservations` |
| Confirmation: `notification_store.go`, `notifications.sql` | table `confirmation_requests`, confirmation status of the appointment | plan, revoke, answer, reset, reissue, expire | yes, in `Scheduling` (tokens and review flags left out) |
| Planning suggestions and routes: `internal/planning`, `planning_store.go`, `route_store.go` | suggestion runs with a fingerprint of their inputs, route drafts and their stops | suggest, adopt; plan, replan, move a stop, assign, reorder | partly, `Planning` |
| Notification delivery and identity e-mail: `internal/notification/worker.go`, `notification_worker_store.go`, `identity_email_worker_store.go` | tables `notifications`, `outbox_events` with claims and leases; the worker's position | claim, load, mark, send, settle, requeue | yes, `Delivery` |
| Voice intake: `internal/voice`, `voice_store.go` | drafts, recordings with leases, the limiter in memory | upload, claim, transcribe, retry, commit, discard, clean up | yes, `Voice` |
| Identity: `internal/auth`, `identity_*_store.go` | accounts, factors, recovery codes, login challenges, sessions | both stages of a login, passwords, factors, recovery, roles | partly, `Identity` |
| Drivers: `driver_store.go`, `internal/driver` | tables `drivers`, availability rules and exceptions | edit, deactivate, change availability; two evaluations of it | yes: effect in `Scheduling`, rules and both evaluations in `Availability` |
| Jobs and waiting list: `customer_store.go` | tables `jobs`, `waitlist_entries` | take in, edit, archive, remove from the list | edit, archive and remove, in `Scheduling` |
| Resources: `resource_store.go` | table `resources` | edit, deactivate | yes, in `Scheduling` |
| Calendar feeds, dashboard, metrics, maps, geocoding | read-only views, external HTTP | | no |
| Web, CLI, configuration | parse and call | | no |

How the parts meet: fixing or moving an appointment plans a confirmation request
and, in the same transaction, a notification with an outbox event; the worker
reads the request when it sends; the answer of the customer changes request and
appointment; editing a job withdraws the request; the workflow of a job is
written by the operations on its appointments; resources and drivers are guarded
by the reservation rows of appointments; suggestions and routes write
appointments past the appointment service; a committed voice draft is a new job
on the waiting list.

What is hard here, and what correctness means:

* **Check, then act.** Services validate on a snapshot read outside any
  transaction and hand the request to the store: an appointment, a suggestion, a
  login, a recording. The store repeats most checks in a transaction, some only
  by comparing a version or a fingerprint. Correct means: no double booking, no
  lost update, no reservation nobody vetted, no session for a password that was
  replaced, reasons given where they are required.
* **Derived state.** The exclusion constraints look at copies, the planning
  query evaluates availability anew. Correct means that the copies never lag
  where it matters and that both evaluations agree.
* **Long sequences.** Cancel, reopen, plan again, edit, archive: job, waiting
  list, appointments and requests must keep telling the same story, and a link
  sent to a customer must never confirm something else than was written in it.
* **Unreliable work.** Workers crash between sending or transcribing and
  recording, stall beyond their lease and lose their database. Correct means:
  tables that agree, a bounded number of calls, no silent repetition of an
  uncertain send, no late result over a newer one, and nothing forgotten.

The full list of hazards with their lines is in `PROJECT.json`.

## 2. The modules

| Module | Content |
|---|---|
| `Reservations` | reservation rows as functions of an appointment, their refresh, the two exclusion constraints |
| `Scheduling` | appointments, jobs, drivers, resources, confirmation requests; every operation as actions |
| `SchedulingSafety` | the invariants and action properties of `Scheduling`, and what it implements |
| `Calendar` | abstract: bookings of crews and machines that never clash |
| `Planning` | suggestions and routes, composed with all operations of `Scheduling` |
| `Delivery` | outbox, workers, faults, requeueing; with its properties |
| `Voice` | uploads, queue, transcription, review and retention; with its properties |
| `Identity` | accounts, logins, factors, sessions, access edits; with its properties |
| `Availability` | rules, exceptions and policy of a driver, and two evaluations; with its properties |
| `MC...` | constants for the runs, one group per question |
| `SchedulingProofs`, `SafetyProofs`, `CalendarProofs`, `PlanningProofs`, `DeliveryProofs`, `VoiceProofs`, `IdentityProofs`, `AvailabilityProofs` | theorems and proofs |

Operators that are headed "Seeded fault" change one definition the way a
plausible bug would. They are used by nothing else; each belongs to a property
that notices it, and `PROJECT.json` lists the pairs.

### Scheduling

An operation is a pair of actions. `Submit...` is the service function: it reads
the current rows, checks and puts the request into `calls[c]`. `Commit...` is
the transaction of the store: it takes the request, compares the version
(`AtVersion`), checks again (`EnsureReady`) and writes. `Fail` is any error or
lost connection in between. A client has one request in flight; concurrency
comes from several clients and from the single-step operations.

*Why a transaction is one action.* Every transaction on appointments takes the
advisory lock of `LockSchedulingMutation` or locks the rows it decides on with
`FOR UPDATE` (appointment and job in `GetAppointmentForUpdate`); `CreateDraft`
locks the job. `ensureAssignmentsReady` locks drivers and resources `FOR SHARE`
against the `FOR UPDATE` of their deactivation. Constraints are checked at every
statement; what a violation on the way would abort, the final tables would
violate too, so `Write` checks the final tables. A swap sets both appointments
to draft while their times are exchanged, so only the final tables matter there.

*Why jobs, drivers, resources and answers are single steps.* `UpdateJob`,
`ArchiveJob`, `UpdateResource`, `Respond` and their like decide on nothing they
read before their transaction; the version a form carries is compared inside it.

*Data.* Time is counted in slots. A team is a nonempty set of drivers, one of
whom is the primary one, and resources with purposes; durations are compared
with one number, the minutes a job needs. `transport = "external"` means
external and confirmed, `"unplanned"` stands for an undecided or unconfirmed
transport. Whether a customer can be reached is a free choice at each
transaction. `fixedOnce` and `reasoned` record `fixed_at` and
`cancellation_reason`, `silent` the notification override. A confirmation request
carries what its message said: time, kind of job, volume. Permissions are
assumed to be checked before. Users, customers, audit, notes and events for
other consumers are left out.

### Calendar

What all of this is for, without rows, versions, jobs or requests: an
appointment is free or holds a crew and equipment for a stretch of time, bookings
never clash, and a step books free appointments, rebooks or releases one, or
exchanges the times of two that keep teams and lengths. `SchedulingSafety`
states the refinement: `Promises` is `Calendar` with `booking` replaced by
`BookingOf`, and `CalendarKept` is its specification. It says more than
`NoDoubleBooking`: no step moves, frees or books an appointment it is not about.

### Planning

`Planning` extends `Scheduling`; `PlanNext` lets every step of it happen
between those of a run and a route. `Load` is `LoadSnapshot` with the
computation of suggestions, `SaveRun` the transaction that stores them with the
fingerprint of the inputs at that moment, `Adopt` the adoption.
`PlanRoute` plans a new route or a draft again, `MoveDraftStop` moves a stop to
another draft, `AssignRoute` turns a draft into proposals in one transaction,
`ReorderOwn` is the driver's change of order. Which candidates score best is
left open: any of the feasible ones may be stored.

*Fingerprints and versions.* The fingerprint of a run lists the rows that exist,
with their versions, and `Adopt` compares it with that of the moment. Every update
counts a version up, so a listed row that changes or goes is never listed again
as it was: such a run becomes `Stale` (`StillListed`). A row that is added and goes
again leaves the fingerprint as it was: when another appointment was planned and
cancelled, or an absence entered and withdrawn, the run can be adopted again. The
versions of the job are compared with those that were loaded; a run or a stop whose
job changed is `Stale` or no longer `fresh`. `calm` is history: the inputs at saving
were those that were loaded, whatever came and went in between.

*Abstractions.* The reads of one snapshot are one step; so is the planning of a
route, whose inputs are versioned again at assignment. Places are told apart
only by being different: travel takes `Travel` slots between any two.
Coordinates, scores, cluster hints, the limit of the travel matrix, the expiry
of runs and the version of a draft are left out.

### Delivery

`workers[w].step` names the next transaction or call of the worker: `load`,
`mark`, `send`, then `complete`, `retry` or `dead`. Each is one action, so that
crashes, expiring leases, the other worker and the administrator come between
any two of them. `live[n]` abstracts the confirmation request of the
notification: it may end at any time and never comes back, which is what
`LinkNeverRevives`, proved as `LinksNeverRevive`, shows of `Scheduling`. Mails that verify an address go through
the same outbox and workers but have no row in `notifications` and hence no
sending mark; that is the difference between the branches of `MarkSending` and
`Note`. Faults are drawn from `Faults` and counted: `crash` (the process ends
anywhere), `stall` (a lease runs out while its owner works), `load` (reading or
marking fails, or the provider is switched off), `settle` (the outcome cannot be
written), `requeue` (an administrator asks for it again). A provider that takes a
message and reports a failure is a matter of the provider: `accepted` counts
messages the provider reported as accepted, `sent` all calls, `slips` failures
before the mark while a notification was uncertain.

### Voice

An upload passes the look-up of its key and the limiter (`BeginUpload`), is
prepared while anything else happens, and is stored under a lock on the key or
fails. Drafts and recordings change together in one transaction each, but expire
separately, as their retention is configured separately. Workers claim under a
lease, as in `Delivery`, but there is no mark: a lease that ran out means a
second call of the transcriber, and only the lease decides whose result counts.
A text is represented by the number of the claim it came from. Pages show a
draft at a version; retry and commit compare it. The key of a recording is
forgotten with it. `voice.Process`, the synchronous variant, is called by
nothing and is left out.

### Identity

A login reads the account and verifies the password (`VerifyPassword`), then
opens a session (`RotateLogin`) or a challenge (`StartLoginChallenge`) in a
transaction that locks the account and compares the hash; a proof of the second
factor is verified (`VerifyProof`) and later consumed together with the
challenge (`CompleteLogin`). Meanwhile the owner changes password and factors and
administrators reset them. `UpdateUserAccess` runs under serializable isolation:
`BeginUpdateAccess` takes a snapshot, `CommitUpdateAccess` fails if a row it
locked or wrote has changed (`Serializable`), as PostgreSQL does.

*Abstractions.* Passwords, authenticators and recovery codes are numbers that
grow; a hash is its password and whether its parameters are outdated. An account
has at most one unused recovery code and one passkey. Challenges and sessions end
at any time by being revoked, which is also what expiry means. `proof` and `under`
of a session are history: the proof that opened it, and the authenticator that was
enrolled then. A code is verified against the authenticator of one moment and its
time step compared with those of the one enrolled when the login is completed
(`StepIsNew`), as in the code. Every edit of
`Edits` has its own set of accesses it may give. Left out: the two steps of an
enrolment, e-mail changes, profile data and budgets of attempts.

### Availability

Rules per day, exceptions (whole days or times, with priorities) and three
policies of one driver are edited in any order. `Resolve` is the evaluation in
Go: layers painted by a sweep over a heap that removes ended layers lazily.
`SqlAvailable` is `PlanningDriverAvailable`, the query of the transactions. The
two days a year on which the clock changes are left out.

## 3. The runs

| Run | Question | Instance |
|---|---|---|
| `race` | double bookings, lost updates, refinement of `Calendar`, reasons under races | 2 clients, 2 jobs, 2 appointments, 1 driver, 1 chipper whose exclusive flag is edited, 3 starts, a buffer after, versions to 5 |
| `answers` | customers, links, job edits | 1 appointment, 2 starts, 2 volumes, 3 requests, versions to 8 |
| `staff` | drivers and resources change under requests | 2 drivers, chipper and truck, 2 teams, 1 absence, overrides, versions to 6 |
| `jobs` | workflow and executability over two successive appointments | 1 job with 3 descriptions, 2 durations, 2 appointments, versions to 6 |
| `planning` | suggestions and routes in a calendar that changes | 2 jobs, 2 appointments, 1 driver, 1 chipper, 1 suggestion run, 2 routes of up to 2 stops, 2 of these three begun, travel of 1 slot, job edits, an absence that is entered and withdrawn |
| `delivery` | agreement, boundedness, finality, liveness | 1 notification, 1 mail, 2 workers, 2 attempts, 2 faults of any kind |
| `voice` | late results, one intake, bounded calls, the limiter, liveness | 1 draft, 1 key, 3 uploads, 1 page, 2 workers, 3 attempts, 1 retry, 2 faults; rate 3, 2 at once |
| `identity` | sessions and administrators under races | 2 accounts, of which one logs in, 2 logins, 2 sessions, 2 challenges, 1 edit that deactivates one administrator and 1 that demotes the other |
| `availability` | both evaluations, the sweep, the density limit | 2 days of 3 slots, 3 exception rows, 2 rules, at most 2 exceptions per resolution |
| `archive`, `twice`, `overtaken` | disagreements between documents or tests and code | see section 5 |

*Bounds.* `MaxVersion` ends the life of an appointment after 5 to 8 writes, which
is enough for plan, fix, cancel, reopen, fix again and one answer or move on the
way. Two appointments suffice for a collision or a swap, two clients for a race,
one slot of buffer for ranges that touch, overlap or are apart.
`MaxRequests = 3` gives a link that was sent, one that replaced it and one after
a reopening. In `planning` two starts, three times and one slot of travel give
suggestions and stops that fit behind each other, collide and miss each other by
the way between them; `MaxBegun = 2` lets a run meet a route and two routes meet
each other, `Times` bounds when work at a stop may begin. No client acts in that
run, which would double its size; the reservations that a run or a route meets
come from the other one, and the operations of clients meet them in the proofs
(section 4) and in `overtaken`. In `delivery` two workers are a stale owner and
a new one, and two faults are enough to crash and fail to load in one history
(`twice` allows three attempts and four faults to find its counterexample). In
`voice` three uploads exceed the limit of two at once and of three a minute, and
three attempts leave a first, a middle and a last one. In `identity` accounts
are changed once (`MaxVersion = 2` counts from 1) and get two factors or codes;
one code of an authenticator and one recovery code are enough to be sent twice.
In `availability` three slots make a time before, in and after a rule.

*Symmetry.* Interchangeable appointments, routes, logins and exception rows are
declared symmetric only in runs without liveness; `delivery` and `voice` use
none.

*Deadlock.* TLC looks for deadlocks in `voice` and `availability`. It is told
not to in the other runs: there the system really stops, when the bounds on
versions, requests, runs and codes are used up or every event is settled.

*The reason in run `race`.* Nobody gives a reason in that run, so that a fixed
appointment can only be cancelled by a race between `SubmitCancel` and
`CommitFix`; with clients that only name versions they have seen there is none.

*Fairness in `Delivery`.* A worker that does not crash goes on (weak fairness of
its steps), leases and backoff times pass, and an event that is claimable again
and again is claimed in the end (strong fairness): the worker polls for ever
(`internal/app/app.go`, the loop at the end of `Worker`), takes mails and
notifications in turn and claims in the order of `available_at`, so that an event
cannot be overtaken without end. No fairness is assumed for faults, requeueing or
customers. Faults are finitely many: with a worker that always crashes nothing
is ever settled, and the code does not promise it.

*Fairness in `Voice`.* Only that retention periods end and that some worker
cleans up every minute. No fairness of claims is needed, and none would do: after
the last attempt was claimed by a worker that crashed, the recording is neither
claimed again nor marked as failed; `EventuallyDecided` shows that its draft
expires nevertheless.

## 4. The proofs

All theorems hold for every value of the constants that the assumptions in the
modules allow: any number of appointments, clients, workers, accounts.

`SchedulingProofs`:

* `TypeCorrect`: `Spec => []TypeOK`. `TypeOK` is inductive.
* `ReservationsAlwaysSound`: `Spec => []ReservationsSound`. `NoDoubleBooking`
  speaks of appointments, but what keeps it are the constraints on rows; it is
  not inductive without the fact that rows mirror appointments, and the mirror
  is not inductive without the fact that rows belong to created appointments
  (`CommitPlan` reuses no identity with old rows) and that a resource whose
  exclusive flag is edited has no active row. `ReservationsSound` is their
  conjunction. The proof reduces every action to one of three cases: an
  appointment saved with refreshed rows, saved with a new team, or rows and
  times left alone.
* `RowsAlwaysMirror` and `NeverDoublyBooked` follow from it.

`CalendarProofs`: `CalendarImplemented`, `Spec => CalendarKept`. Sound rows give
disjoint bookings before and after each step; a lemma shows that a save leaves
the bookings of all other appointments alone, so that what remains is to name,
for each operation, the step of `Calendar` it takes, or that it takes none.

`SafetyProofs`, the other properties of `Scheduling`:

* Each of them speaks of one appointment and what hangs on it, so the actions
  are first reduced to what a step may make of one appointment: `View` lists
  thirteen cases (planned, moved, fixed, answered, reissued and so on), and
  `StepView` shows that every step is one of them. `JobStep` does the same for
  jobs.
* `VersionsCoverState`, `LinksNeverRevive`, `ReservationsAlwaysVetted` are action
  properties and follow case by case. `ConfirmationAlwaysConsistent` needs that an
  identity that was never used has no requests (`AnswersSound`).
* `WorkflowAlwaysAgrees`: a job that enters the schedule has no other open
  appointment, since the unique index admits only one, and an appointment that is
  called off or completed takes its job along (`JobsSound`).
* `ReservedTeamsStayInService` looks at both sides of the race: the reservation
  finds its team active, the deactivation finds the rows.
* `FixedAlwaysExecutable` and `AnswersAlwaysConcernPlan` share an invariant
  (`FixedSound`): an edit of a scheduled job is checked against its fixed
  appointment, and one that the customer was asked about voids the request.
* `FixedCancelledWithReason`: the store asks for no reason. A request without
  one that is in flight either is outdated or concerns what is not fixed
  (`ReasonsSound`), and fixing outdates it. This needs `Foresight = 0`, that
  clients name only versions they have seen.

`PlanningProofs`, for the composition, in which suggestions and routes create
appointments past the appointment service:

* `PlanningTypeCorrect`, `PlannedReservationsSound`, `PlanningNeverDoublyBooks`,
  `PlanningImplementsCalendar`. Steps of `Scheduling` keep `ReservationsSound` by
  the lemmas above; adopting saves a team, and `AddedSound` and `AddedIsBooking`
  show that assigning a route, which adds several appointments at once, keeps the
  rows mirrored and is one `Book` step. What is additionally needed is that stops
  and suggestions take time, which follows from the durations of jobs
  (`estimated_hack_minutes > 0` in `00003_customers_jobs_waitlist.sql`).
* What `SafetyProofs` shows of `Scheduling` holds of the composition:
  `PlanningConfirmationConsistent`, `PlanningWorkflowAgrees`,
  `PlanningFixedExecutable`, `PlanningAnswersConcernPlan`, `PlanningTeamsInService`,
  `PlanningLinksNeverRevive`, `PlanningVersionsCoverState`,
  `PlanningReservationsVetted`, `PlanningCancelledWithReason`. Every step of
  planning makes of one appointment what `View` allows: it leaves it alone or
  creates it, vetted on the tables of that moment (`AdoptView`,
  `AssignRouteView`). The cases of `JobStep` are about one job and one
  appointment, which adopting fits and assigning does not: that the jobs of all
  stops agree with their new appointments is shown apart (`AssignedAgrees`).
* `PlanningReservationsFit` (`NewReservationFits`) and
  `SuggestionsAdoptedAsComputed` (`AdoptedAsSuggested`). Nothing in a run or a
  draft says that its durations are still right, so neither is inductive.
  `PlansCurrent` adds it: suggestions have the length of the present data of their
  job and, if the inputs at saving were those they were computed from with travel
  times, are in reach of their neighbours among the reservations that the stored
  fingerprint lists (`FeasibleAmong`), whatever is reserved at present; a fresh stop
  has the length its job demands now. A change of the job makes the run stale or
  the stop no longer fresh (`AgeKeepsCurrent`), and `Adopt` accepts only a fingerprint
  equal to the stored one, which then names the reservations of that moment
  (`InputsTell`). So nothing has to be known of what came and went since.
* `RoutesReservedThroughout` (`RouteReservedThroughout`), for the driver and for
  each machine of the route. For a slot on the way,
  the first stop whose reservation ends after it has also begun to reserve before
  it, because the buffer before a stop reaches back to the end of the previous one
  (`NoGap`).

`DeliveryProofs`:

* `TypeCorrect`, with the strengthening that a worker at work has an event.
* `StatusesAlwaysAgree`: event and notification agree. `TablesStep` says what a
  step may do to one notification and its event at all; agreement is inductive
  over these cases.
* `SentAlwaysStaysSent`: no step takes back that a message was sent.
* `SendsAlwaysBounded`, `OnceAlwaysUnlessSlipped` and `MailsAlwaysBounded`.
  `ViewStep` says what any step may make of the counters of one event: it is
  claimed, left, marked, sent and so on, or something else happens. Calls are
  counted with the workers that are about to make one, of which there are
  finitely many, as each takes its event in a step of its own. By arithmetic over
  those cases, three invariants are inductive: a sendable notification has a call
  to spare, since each attempt before the last is followed by another only after
  a retry by the owner (`CallsWithin`); the one delivery that is owed is either
  still ahead or in the hands of a sender (`OnceWithin`); and a mail owed once
  more, or an attempt beyond the last, has a fault of its own (`MailWithin`).

`VoiceProofs`: `VoiceTypeCorrect`, `LimiterAlwaysExact`,
`TextAlwaysOfLatestClaim`, `OneIntakeAlways`, `TranscriptionsAlwaysBounded`. The
invariant `DraftSound` speaks of one draft: its text is that of its latest
claim; a worker with the lease made the latest claim; every claim is paid for by
an attempt of this round or by a round by hand. A step about another draft
leaves it alone (`Untouched`).

`IdentityProofs`: `IdentityTypeCorrect`, `AdminAlwaysRemains`,
`SessionsAlwaysEntitled`, `ProofsOpenOneSession`, `MustChangeAlwaysStays`. The
common fact is that accounts only move on (`Successor`): passwords, versions and
codes never come back. So what a login has seen is still current whenever its
transaction accepts it (`SeenCurrent`), an edit that takes rights away and whose
rows are unchanged has still seen another administrator (`Informed`), and an
accepted proof stays spent (`Spent`), a time step for as long as the authenticator
stays enrolled under which it was accepted.

`AvailabilityProofs`, for any number of days, rules and exceptions:

* `AvailabilityTypeCorrect`.
* `ResolutionAlwaysBounded` (`ResolutionBounded`). The limit is enforced when a row
  is written, around that row, and never again. A step adds a row to what one
  resolution loads only if that row lies in its range; all the others it loads are
  then within reach of the new one and were counted. Of the rows that the preset
  writes, the argument takes the last one in the range.
* `SweepAlwaysShowsLastLayer` (`SweepShowsLastLayer`). The sweep is a recursive
  function over instants. Its heap at an instant is given in closed form
  (`Remaining`): the layers that have begun, unless at some instant since then no
  layer of their order or a higher one was going on. The function and the closed
  form agree, since a first instant at which they differ leads to a contradiction
  (`WellFoundedInduction` has the smallest element); from the closed form, the top
  of the heap covers the instant and no layer of a higher order does.
* `EvaluatorsAlwaysAgree` (`EvaluatorsAgree`). What the sweep shows at an instant
  is what the highest applicable row says; the query asks the same of a range by
  the absence of a row that forbids it. Whole days meet times through one fact,
  that a date is not after the date of a slot exactly if its midnight is not after
  the slot (`DateOrder`).

The assumptions are those on the constants: times are integers, durations of
appointments and jobs positive, teams have drivers, the administrator is not a
driver, `None` and the like are outside of the sets they mark, there is a user,
uploads in progress and rows of exceptions are finitely many, and the type that
the vacation preset writes is one of the types. Only `FixedCancelledWithReason`
and `PlanningCancelledWithReason` assume more, `Foresight = 0`.

Every property of a passing run is stated by one of these theorems, with two
exceptions: `EventuallySettled` and `EventuallyDecided` depend on fairness, which
is out of reach of the prover and stays with TLC, as do the counterexamples of
section 5.

## 5. Where documents and code disagree

* **Archiving ignores drafts** (run `archive`). A job with a draft can be
  archived; the draft can still be proposed and then reserves driver and machine
  for the archived job, whose workflow returns to planning.
* **An uncertain message may be sent twice** (run `twice`). After a crash
  between sending and recording, a passing failure to load the delivery returns
  the notification to `retry_wait`. `DeliveredOnceUnlessSlipped` in run
  `delivery` shows that this is the only way, and `OnceAlwaysUnlessSlipped` proves it
  for any number of workers and faults.
* **A suggestion may be overtaken while it is computed** (run `overtaken`). The
  fingerprint is taken when the run is saved, not when its inputs were read. A
  reservation made in between is covered by the fingerprint but unknown to the
  suggestions, one of which can be adopted although it cannot be reached in time.
  `AdoptedAsSuggested` in run `planning` shows that travel times are kept by runs
  whose inputs at saving were those they were computed from, and
  `SuggestionsAdoptedAsComputed` proves it.

Noticed on the way, without a run of its own:

* A code of an authenticator is verified on a snapshot
  (`internal/auth/security.go`, `CompleteTOTPLogin`), and the transaction compares
  only its time step (`RecordTOTPStep`, `db/queries/identity.sql:265`). When a code
  is verified in two challenges, and between their transactions the authenticator is
  removed and another one enrolled, whose last step starts empty, it opens two
  sessions, although `tests/integration/identity_test.go:306` expects a replayed
  code to be refused. Run `identity` reaches this, so `OneSessionPerProof` and
  `ProofsOpenOneSession` speak of a time step under one enrolled authenticator.
* A swap looks at availability only on the snapshot of the service, so
  `ReservationIsVetted` excepts it.
* Reopening an old cancelled appointment takes its job back to planning even when
  another appointment completed the job; `WorkflowAgrees` allows it, as the job
  then agrees with its appointment again.
* Cancelling trusts a snapshot whose version is not compared: a request that
  names a version its client cannot have seen (`Foresight > 0`) may cancel a
  fixed appointment without a reason. The clients of the web interface do not do
  this; `FixedCancelledWithReason` proves that nothing happens without it.
* The comment at `internal/driver/driver.go:19` bounds the exceptions within 90
  days before or after any stored one. They are counted only around the one that
  is written, so that more can come to lie around an older one, about twice as
  many. What the comment concludes for a single resolution holds
  (`ResolutionAlwaysBounded`).
* The query for availability compares clock times of both ends, whatever days
  they belong to; `EvaluatorsAgree` is about times within one day.
* Removing the waiting-list entry of a job leaves it in workflow `waitlist`, where
  it can neither be planned nor counts as called off.

## 6. Not modelled

The model covers the parts of the program that keep state and make decisions:
the services and stores of scheduling, confirmation, planning, delivery, voice
intake, identity and availability, with their queries and constraints. It covers
only a tenth of the implementation's lines, for most of them are something else.
About 33,000 lines are templates generated by `templ` (`web/templates/*_templ.go`)
and 11,000 are generated by `sqlc` (`internal/adapters/postgres/dbgen`), of which
only the texts of the queries are of interest; 5,000 are scripts of the web
interface. The remaining handlers parse forms, check permissions and call the
services. There is no protocol in them to model, and stretching definitions over
them would say nothing.

In the modelled parts, these are left out:

* *Jobs and waiting list:* taking in jobs, priorities, favourites, duplicates and
  customer data. Jobs are there from the start.
* *Confirmation:* the derivation of tokens, the audit trail, review flags.
* *Planning:* scores, coordinates, cluster hints, the 25 points of a travel
  matrix, the expiry of runs, the version of a draft. Fixing a proposal of a
  route without chipper needs a client, of which run `planning` has none, so
  that the waiver of `CommitFix` is exercised by no run.
* *Identity:* the two steps of an enrolment, e-mail changes, budgets of attempts.
* *Voice:* the texts, the estimate of job data, the retries of the HTTP client.
* *Availability:* the days on which the clock changes.
* Message texts, providers, feeds, dashboards, geocoding, maps, web, command line
  and start-up; `PROJECT.json` gives the reason for each.

## 7. Plan

Written so far, in the order of the plan: scheduling with its reservation rows,
delivery, their first proofs; then voice, the abstract calendar with its
refinement, mails, identity, availability, planning, and the proofs about all of
them. What is left:

1. `Queue`, an abstract at-least-once queue with leases that both `Delivery` and
   `Voice` implement.
2. Enrolment and e-mail changes in `Identity`, with the verification behind the
   mails of `Delivery`.
3. A client in run `planning`, with the waiver, once the instance allows it.
4. Taking in jobs and finding duplicates, up to the commit of a voice draft.
