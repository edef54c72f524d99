---------------------------- MODULE Availability ----------------------------
(***************************************************************************)
(* The schedule of one driver and its two readers.  Rules, exceptions and  *)
(* the policy are edited by the driver service (driver.go,                 *)
(* driver_store.go).  The service resolves them into fragments by painting *)
(* layers over the time asked for; the planning transactions ask the query *)
(* PlanningDriverAvailable instead.  Time is counted in slots of the local *)
(* day; the two days a year on which the clock changes are left out.       *)
(***************************************************************************)
EXTENDS Integers, FiniteSets

CONSTANTS
  SlotsPerDay,     \* slots of a local day
  Days,            \* days of the horizon
  RuleDates,       \* days on which a rule may apply
  Types,           \* exception types in use
  Rows,            \* rows of availability_exceptions
  MaxRules,        \* bound on the rows of availability_rules
  PresetDays,      \* days of the vacation preset
  MaxResolveDays,  \* driver.MaxResolveDays
  MaxExceptions    \* driver.MaxExceptionsPerWindow

AllTypes == {"available_override", "other", "unavailable", "vacation", "sick"}

ASSUME AvailabilityAssumption ==
  /\ {SlotsPerDay, Days, PresetDays, MaxResolveDays, MaxExceptions} \subseteq Nat \ {0}
  /\ MaxRules \in Nat
  /\ RuleDates \subseteq 0 .. Days - 1
  /\ "vacation" \in Types /\ Types \subseteq AllTypes
  /\ IsFiniteSet(Rows)

VARIABLES
  profile,     \* drivers: active and availability_policy
  rules,       \* availability_rules, one element per occurrence in the horizon
  exceptions   \* availability_exceptions; Empty where a row is not in use

vars == <<profile, rules, exceptions>>

Policies == {"legacy_rules", "assumed_available", "explicit_dates"}
Dates == 0 .. Days - 1
Horizon == Days * SlotsPerDay
DateOf(slot) == slot \div SlotsPerDay
ClockOf(slot) == slot % SlotsPerDay

Windows == {w \in [from : 0 .. Horizon - 1, to : 1 .. Horizon] : w.from < w.to}
Midnight(date) == date * SlotsPerDay
WholeDay(date) == [from |-> Midnight(date), to |-> Midnight(date + 1)]

\* A time of a rule is HH:MM, so that a rule ends before midnight.
Rules == {r \in [date : RuleDates, start : 0 .. SlotsPerDay - 1, end : 0 .. SlotsPerDay - 1,
                 status : {"available", "limited"}] : r.start < r.end}

Empty == [kind |-> "empty"]
AllDays == [kind : {"all_day"}, type : Types, date : Dates]
Timed == {e \in [kind : {"timed"}, type : Types, window : Windows] :
            e.window.to - e.window.from <= MaxResolveDays * SlotsPerDay}
Exceptions == AllDays \cup Timed

Stored == {row \in Rows : exceptions[row] # Empty}

TimeOf(e) == IF e.kind = "all_day" THEN WholeDay(e.date) ELSE e.window

Overlaps(v, w) == v.from < w.to /\ w.from < v.to
Covers(v, w) == v.from <= w.from /\ w.to <= v.to

-----------------------------------------------------------------------------
(* Editing the schedule *)

\* Seeded fault: only an identical rule is refused.
RuleIsNew(rule, others) == rule \notin others

\* The exclusion constraint on availability_rules.
RuleFits(rule, others) ==
  \A r \in others : r.date = rule.date => r.end <= rule.start \/ rule.end <= r.start

\* Seeded fault: the range is not widened.
OwnRange(e) == TimeOf(e)

\* The range that must hold fewer than MaxExceptions other exceptions.
DensityWindow(e) ==
  [from |-> TimeOf(e).from - MaxResolveDays * SlotsPerDay,
   to |-> TimeOf(e).to + MaxResolveDays * SlotsPerDay]

\* The rows a query over a range finds: whole days by their date, the others by time.
Within(e, w) ==
  IF e.kind = "all_day" THEN e.date \in DateOf(w.from) .. DateOf(w.to - 1)
                        ELSE Overlaps(e.window, w)

\* enforceExceptionDensity, on the rows the transaction has written so far
DenseAround(e, excluded, table) ==
  Cardinality({row \in Rows \ {excluded} :
                 table[row] # Empty /\ Within(table[row], DensityWindow(e))}) >= MaxExceptions

\* Before its transaction a request also looks at the policy, which may be another
\* one by the time it writes: rows of every type meet every policy.
CreateRule(rule) ==
  /\ Cardinality(rules) < MaxRules
  /\ RuleFits(rule, rules)
  /\ rules' = rules \cup {rule}
  /\ UNCHANGED <<profile, exceptions>>

UpdateRule(old, rule) ==
  /\ RuleFits(rule, rules \ {old})
  /\ rules' = (rules \ {old}) \cup {rule}
  /\ UNCHANGED <<profile, exceptions>>

DeleteRule(rule) ==
  /\ rules' = rules \ {rule}
  /\ UNCHANGED <<profile, exceptions>>

ClearRulesForDay(date) ==
  /\ \E r \in rules : r.date = date
  /\ rules' = {r \in rules : r.date # date}
  /\ UNCHANGED <<profile, exceptions>>

\* CreateException and UpdateException: the row is new or the one being edited.
StoreException(row, e) ==
  /\ ~DenseAround(e, row, exceptions)
  /\ exceptions' = [exceptions EXCEPT ![row] = e]
  /\ UNCHANGED <<profile, rules>>

\* The vacation preset: one new row per day, counted before each is inserted.
CreateExceptions(place) ==
  LET vacation(date) == [kind |-> "all_day", type |-> "vacation", date |-> date]
      before(date) == [row \in Rows |->
        IF \E day \in DOMAIN place : day < date /\ place[day] = row
        THEN vacation(CHOOSE day \in DOMAIN place : place[day] = row) ELSE exceptions[row]]
  IN /\ \A date \in DOMAIN place : before(date)[place[date]] = Empty
     /\ \A date \in DOMAIN place : ~DenseAround(vacation(date), place[date], before(date))
     /\ exceptions' = before(Days)
     /\ UNCHANGED <<profile, rules>>

DeleteException(row) ==
  /\ row \in Stored
  /\ exceptions' = [exceptions EXCEPT ![row] = Empty]
  /\ UNCHANGED <<profile, rules>>

\* Only the main driver may be assumed available, which the request decides with it.
UpdateProfile(policy) ==
  /\ profile.active
  /\ profile' = [profile EXCEPT !.policy = policy]
  /\ UNCHANGED <<rules, exceptions>>

\* Another driver becomes the main driver.
Demote ==
  /\ profile.policy = "assumed_available"
  /\ profile' = [profile EXCEPT !.policy = "explicit_dates"]
  /\ UNCHANGED <<rules, exceptions>>

Deactivate ==
  /\ profile.active
  /\ profile' = [active |-> FALSE,
                 policy |-> IF profile.policy = "assumed_available"
                            THEN "explicit_dates" ELSE profile.policy]
  /\ UNCHANGED <<rules, exceptions>>

Init ==
  /\ profile = [active |-> TRUE, policy |-> "legacy_rules"]
  /\ rules = {}
  /\ exceptions = [row \in Rows |-> Empty]

Next ==
  \/ \E rule \in Rules : CreateRule(rule)
  \/ \E old \in rules, rule \in Rules : UpdateRule(old, rule)
  \/ \E rule \in rules : DeleteRule(rule)
  \/ \E date \in RuleDates : ClearRulesForDay(date)
  \/ \E e \in Exceptions, row \in Rows : StoreException(row, e)
  \/ \E from \in 0 .. Days - PresetDays :
       \E place \in [from .. from + PresetDays - 1 -> Rows] : CreateExceptions(place)
  \/ \E row \in Rows : DeleteException(row)
  \/ \E policy \in Policies : UpdateProfile(policy)
  \/ Demote
  \/ Deactivate

Spec == Init /\ [][Next]_vars

-----------------------------------------------------------------------------
(* The service: resolve and paint *)

Priority ==
  [available_override |-> 1, other |-> 2, unavailable |-> 3, vacation |-> 4, sick |-> 5]

Clipped(v, w) == [from |-> IF v.from < w.from THEN w.from ELSE v.from,
                  to |-> IF v.to > w.to THEN w.to ELSE v.to]

\* Rules lie below all exceptions, the earlier below the later; exceptions of one
\* type are equivalent and share their place.
Layer(v, w, status, order) ==
  [from |-> Clipped(v, w).from, to |-> Clipped(v, w).to, status |-> status, order |-> order]

RuleLayers(w) ==
  IF profile.policy = "explicit_dates" THEN {} ELSE
  {Layer([from |-> Midnight(r.date) + r.start, to |-> Midnight(r.date) + r.end], w, r.status,
         Midnight(r.date) + r.start - Horizon) :
     r \in {r \in rules : r.date \in DateOf(w.from) .. DateOf(w.to - 1)}}

Loaded(w) == {row \in Stored : Within(exceptions[row], w)}

Effective(w) ==
  {e \in {exceptions[row] : row \in Loaded(w)} :
     profile.policy = "explicit_dates" => e.type = "available_override"}

ExceptionLayers(w) ==
  {Layer(TimeOf(e), w,
         IF e.type = "available_override" THEN "available" ELSE "unavailable", Priority[e.type]) :
     e \in Effective(w)}

Layers(w) == {l \in RuleLayers(w) \cup ExceptionLayers(w) : l.from < l.to}

\* Seeded fault: at every instant the top alone is looked at once.
PopOnce(heap, at) ==
  {l \in heap : (\A m \in heap : m.order <= l.order) => l.to > at}

\* The heap of the sweep: only its top is removed when it has ended, so that
\* ended layers stay below a longer one.
PopEnded(heap, at) == {l \in heap : \E m \in heap : m.order >= l.order /\ m.to > at}

HeapAt(w) ==
  LET layers == Layers(w)
      heap[at \in w.from .. w.to - 1] ==
        PopEnded((IF at = w.from THEN {} ELSE heap[at - 1]) \cup {l \in layers : l.from = at}, at)
  IN heap

Painted(w) ==
  LET heap == HeapAt(w) IN
  [at \in w.from .. w.to - 1 |->
     IF heap[at] = {} THEN "unavailable"
     ELSE (CHOOSE l \in heap[at] : \A m \in heap[at] : m.order <= l.order).status]

Resolve(w) ==
  CASE ~profile.active -> [at \in w.from .. w.to - 1 |-> "unavailable"]
    [] profile.active /\ profile.policy = "assumed_available" ->
         [at \in w.from .. w.to - 1 |-> "available"]
    [] OTHER -> Painted(w)

ServiceAvailable(w) ==
  LET painted == Resolve(w) IN \A at \in w.from .. w.to - 1 : painted[at] = "available"

-----------------------------------------------------------------------------
(* The query: PlanningDriverAvailable *)

OnStartDate(e, w) == e.kind = "all_day" /\ e.date = DateOf(w.from)

OverrideCovers(w) ==
  \E row \in Stored : LET e == exceptions[row] IN
    /\ e.type = "available_override"
    /\ OnStartDate(e, w) \/ (e.kind = "timed" /\ Covers(e.window, w))

\* Seeded fault: only an absence within the time asked for counts.
AbsenceInside(w) ==
  \E row \in Stored : LET e == exceptions[row] IN
    /\ e.type # "available_override"
    /\ OnStartDate(e, w) \/ (e.kind = "timed" /\ Covers(w, e.window))

AbsenceTouches(w) ==
  \E row \in Stored : LET e == exceptions[row] IN
    /\ e.type # "available_override"
    /\ OnStartDate(e, w) \/ (e.kind = "timed" /\ Overlaps(e.window, w))

\* Both ends are compared as times of the day, whatever day they belong to.
RuleCovers(w) ==
  \E r \in rules :
    /\ r.status = "available"
    /\ r.date = DateOf(w.from)
    /\ r.start <= ClockOf(w.from)
    /\ r.end >= ClockOf(w.to)

SqlAvailable(w) ==
  /\ profile.active
  /\ \/ profile.policy = "assumed_available"
     \/ profile.policy = "explicit_dates" /\ OverrideCovers(w)
     \/ /\ profile.policy = "legacy_rules"
        /\ ~AbsenceTouches(w)
        /\ OverrideCovers(w) \/ RuleCovers(w)

-----------------------------------------------------------------------------
(* Properties *)

\* The rows have the types of their columns, rules of a driver do not overlap, and
\* only the active main driver counts as available by default.
TypeOK ==
  /\ profile \in [active : BOOLEAN, policy : Policies]
  /\ profile.policy = "assumed_available" => profile.active
  /\ rules \subseteq Rules
  /\ \A r, s \in rules : r # s /\ r.date = s.date => r.end <= s.start \/ s.end <= r.start
  /\ exceptions \in [Rows -> Exceptions \cup {Empty}]

\* The two readers agree on every time that stays within one day: what the query
\* accepts the service calls available, and what the service calls available the
\* query accepts as soon as the policy, one rule or one override covers it.
OneRowCovers(w) ==
  \/ profile.policy = "assumed_available"
  \/ OverrideCovers(w)
  \/ profile.policy = "legacy_rules" /\ RuleCovers(w)
WithinOneDay(w) == DateOf(w.from) = DateOf(w.to)

EvaluatorsAgree ==
  \A w \in Windows :
    WithinOneDay(w) => (SqlAvailable(w) <=> ServiceAvailable(w) /\ OneRowCovers(w))

\* The sweep of paint, which removes ended layers late, shows at every instant the
\* layer that was applied last among those that cover it.
Paints == profile.active /\ profile.policy # "assumed_available"

SweepShowsLastLayer ==
  Paints => \A w \in Windows :
    LET painted == Painted(w)
        layers == Layers(w)
    IN \A at \in w.from .. w.to - 1 :
         LET covering == {l \in layers : l.from <= at /\ at < l.to} IN
         IF covering = {} THEN painted[at] = "unavailable"
         ELSE \E l \in covering :
                /\ painted[at] = l.status
                /\ \A m \in covering : m.order <= l.order

\* However exceptions are added, moved and deleted, one resolution never has to
\* process more than MaxExceptions of them.
ResolutionBounded ==
  \A w \in Windows :
    w.to - w.from <= MaxResolveDays * SlotsPerDay => Cardinality(Loaded(w)) <= MaxExceptions

=============================================================================
