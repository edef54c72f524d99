------------------------- MODULE AvailabilityProofs -------------------------
(***************************************************************************)
(* Theorems about the schedule of a driver: what the sweep of the service  *)
(* paints, that the query agrees with it, and how much one resolution has  *)
(* to load.                                                                *)
(*                                                                         *)
(* Times and dates are related by one fact, DateOrder; everything about    *)
(* whole days follows from it.  The recursion of the sweep is solved by a  *)
(* closed form (Remaining), which a smallest instant at which the two      *)
(* differ would contradict.                                                *)
(***************************************************************************)
EXTENDS Availability, FiniteSetTheorems, WellFoundedInduction, TLAPS

-----------------------------------------------------------------------------
(* Numbers *)

\* A set of integers that is bounded from below has a least element.
LEMMA Least ==
  ASSUME NEW T \in SUBSET Int, NEW low \in Int, \A t \in T : low <= t, T # {}
  PROVE  \E t \in T : \A u \in T : t <= u
<1> DEFINE R == OpToRel(<, Nat)
           M == {n \in Nat : low + n \in T}
<1>1. IsWellFoundedOn(R, Nat)
  BY NatLessThanWellFounded
<1>2. M \subseteq Nat /\ M # {}
  <2>1. PICK t \in T : TRUE
    OBVIOUS
  <2>2. t - low \in M
    OBVIOUS
  <2>3. QED
    BY <2>2
<1>3. \A x, y \in Nat : y < x => <<y, x>> \in R
  BY DEF OpToRel
<1> HIDE DEF R, M
<1>4. PICK x \in M : \A y \in M : ~(<<y, x>> \in R)
  BY <1>1, <1>2, WFMin
<1>5. ASSUME NEW y \in M PROVE x <= y
  <2>1. x \in Nat /\ y \in Nat
    BY <1>2
  <2>2. ~(y < x)
    BY <2>1, <1>3, <1>4
  <2>3. QED
    BY <2>1, <2>2
<1>6. \A u \in T : u - low \in M
  BY DEF M
<1>7. QED
  BY <1>4, <1>5, <1>6 DEF M

\* A date is not after the date of a slot iff its midnight is not after the slot.
LEMMA DateOrder ==
  ASSUME NEW date \in Int, NEW slot \in Int
  PROVE  /\ DateOf(slot) \in Int /\ Midnight(date) \in Int
         /\ date <= DateOf(slot) <=> Midnight(date) <= slot
<1>1. SlotsPerDay \in Nat \ {0}
  BY AvailabilityAssumption
<1>2. /\ slot \div SlotsPerDay \in Int
      /\ SlotsPerDay * (slot \div SlotsPerDay) <= slot
      /\ slot < SlotsPerDay * (slot \div SlotsPerDay) + SlotsPerDay
  BY <1>1
<1>3. QED
  BY <1>1, <1>2 DEF DateOf, Midnight

\* A slot is its midnight and its time of the day.
LEMMA ClockOfSlot ==
  ASSUME NEW slot \in Int
  PROVE  ClockOf(slot) \in 0 .. SlotsPerDay - 1 /\ slot = Midnight(DateOf(slot)) + ClockOf(slot)
BY AvailabilityAssumption DEF DateOf, Midnight, ClockOf

\* The next midnight is one day later.
LEMMA NextMidnight ==
  ASSUME NEW date \in Int
  PROVE  Midnight(date + 1) = Midnight(date) + SlotsPerDay /\ SlotsPerDay \in Nat \ {0}
BY AvailabilityAssumption DEF Midnight

\* Bounds of the constants.
LEMMA Constants ==
  /\ SlotsPerDay \in Nat \ {0} /\ Days \in Nat \ {0} /\ Horizon \in Nat
  /\ MaxExceptions \in Nat \ {0} /\ MaxResolveDays * SlotsPerDay \in Nat
  /\ Horizon = Midnight(Days)
BY AvailabilityAssumption DEF Horizon, Midnight

\* Times are made of integers.
Span == [from : Int, to : Int]
LEMMA Times ==
  /\ \A e \in Exceptions : TimeOf(e) \in Span /\ e.type \in AllTypes
  /\ \A e \in Exceptions : e # Empty
  /\ Windows \subseteq Span
<1>1. Windows \subseteq Span
  BY Constants DEF Windows, Span
<1>2. ASSUME NEW e \in AllDays
      PROVE  TimeOf(e) \in Span /\ e.type \in AllTypes /\ e # Empty
  <2>1. /\ e.kind = "all_day" /\ e.date \in Dates /\ e.type \in AllTypes
    BY AvailabilityAssumption DEF AllDays
  <2>2. e.date \in Int /\ e.date + 1 \in Int
    BY <2>1, Constants DEF Dates
  <2>3. QED
    BY <2>1, <2>2, DateOrder DEF TimeOf, WholeDay, Span, Empty
<1>3. ASSUME NEW e \in Timed
      PROVE  TimeOf(e) \in Span /\ e.type \in AllTypes /\ e # Empty
  BY <1>1, AvailabilityAssumption DEF Timed, TimeOf, Empty
<1>4. QED
  BY <1>1, <1>2, <1>3 DEF Exceptions

\* What a query over a range finds is what overlaps it, whole days by their dates
\* as well as others.
LEMMA WithinOverlaps ==
  ASSUME NEW e \in Exceptions, NEW w \in Span
  PROVE  Within(e, w) <=> Overlaps(TimeOf(e), w)
<1>1. w.from \in Int /\ w.to \in Int /\ w.to - 1 \in Int
  BY DEF Span
<1>2. CASE e \in AllDays
  <2>1. e.kind = "all_day" /\ e.date \in Int /\ e.date + 1 \in Int
    BY <1>2, Constants DEF AllDays, Dates
  <2>2. e.date <= DateOf(w.to - 1) <=> Midnight(e.date) <= w.to - 1
    BY <1>1, <2>1, DateOrder
  <2>3. e.date + 1 <= DateOf(w.from) <=> Midnight(e.date + 1) <= w.from
    BY <1>1, <2>1, DateOrder
  <2>4. /\ DateOf(w.from) \in Int /\ DateOf(w.to - 1) \in Int
        /\ Midnight(e.date) \in Int /\ Midnight(e.date + 1) \in Int
    BY <1>1, <2>1, DateOrder
  <2>5. Within(e, w) <=> (DateOf(w.from) <= e.date /\ e.date <= DateOf(w.to - 1))
    BY <2>1, <2>4 DEF Within
  <2>6. Overlaps(TimeOf(e), w) <=> (Midnight(e.date) < w.to /\ w.from < Midnight(e.date + 1))
    BY <2>1 DEF Overlaps, TimeOf, WholeDay
  <2>7. QED
    BY <1>1, <2>1, <2>2, <2>3, <2>4, <2>5, <2>6
<1>3. CASE e \in Timed
  BY <1>3 DEF Timed, Within, TimeOf
<1>4. QED
  BY <1>2, <1>3 DEF Exceptions

-----------------------------------------------------------------------------
(* Types *)

Vacation(date) == [kind |-> "all_day", type |-> "vacation", date |-> date]

\* What the preset writes: row by row, a vacation or nothing.
LEMMA PresetRows ==
  ASSUME TypeOK, NEW from \in 0 .. Days - PresetDays,
         NEW place \in [from .. from + PresetDays - 1 -> Rows], CreateExceptions(place)
  PROVE  /\ \A row \in Rows :
              IF \E day \in DOMAIN place : place[day] = row
              THEN exceptions'[row] = Vacation(CHOOSE day \in DOMAIN place : place[day] = row)
              ELSE exceptions'[row] = exceptions[row]
         /\ exceptions' \in [Rows -> Exceptions \cup {Empty}]
         /\ DOMAIN place \subseteq Dates
<1>1. DOMAIN place \subseteq Dates
  BY AvailabilityAssumption DEF Dates
<1>2. \A day \in DOMAIN place : day < Days
  BY <1>1, Constants DEF Dates
<1>3. exceptions' = [row \in Rows |->
        IF \E day \in DOMAIN place : day < Days /\ place[day] = row
        THEN Vacation(CHOOSE day \in DOMAIN place : place[day] = row) ELSE exceptions[row]]
  BY DEF CreateExceptions, Vacation
<1>4. \A row \in Rows :
        IF \E day \in DOMAIN place : place[day] = row
        THEN exceptions'[row] = Vacation(CHOOSE day \in DOMAIN place : place[day] = row)
        ELSE exceptions'[row] = exceptions[row]
  BY <1>2, <1>3
<1>5. ASSUME NEW row \in Rows PROVE exceptions'[row] \in Exceptions \cup {Empty}
  <2>1. CASE \E day \in DOMAIN place : place[day] = row
    <3>1. (CHOOSE day \in DOMAIN place : place[day] = row) \in Dates
      BY <1>1, <2>1
    <3>2. \A date \in Dates : Vacation(date) \in AllDays
      BY AvailabilityAssumption DEF Vacation, AllDays
    <3>3. QED
      BY <1>4, <2>1, <3>1, <3>2 DEF Exceptions
  <2>2. CASE ~\E day \in DOMAIN place : place[day] = row
    BY <1>4, <2>2 DEF TypeOK
  <2>3. QED
    BY <2>1, <2>2
<1>6. QED
  BY <1>1, <1>3, <1>4, <1>5

\* Rules of a day stay apart when one is added that fits.
LEMMA RulesApart ==
  ASSUME NEW old, old \subseteq Rules, NEW rule \in Rules, RuleFits(rule, old),
         \A r, s \in old : r # s /\ r.date = s.date => r.end <= s.start \/ s.end <= r.start
  PROVE  LET new == old \cup {rule} IN
         /\ new \subseteq Rules
         /\ \A r, s \in new : r # s /\ r.date = s.date => r.end <= s.start \/ s.end <= r.start
BY DEF RuleFits

\* Every step keeps the types.
LEMMA NextTyped == TypeOK /\ [Next]_vars => TypeOK'
<1> SUFFICES ASSUME TypeOK, [Next]_vars PROVE TypeOK'
  OBVIOUS
<1>0. /\ rules \subseteq Rules
      /\ \A r, s \in rules : r # s /\ r.date = s.date => r.end <= s.start \/ s.end <= r.start
      /\ exceptions \in [Rows -> Exceptions \cup {Empty}]
      /\ profile \in [active : BOOLEAN, policy : Policies]
      /\ profile.policy = "assumed_available" => profile.active
  BY DEF TypeOK
<1>1. ASSUME NEW rule \in Rules, CreateRule(rule) PROVE TypeOK'
  BY <1>0, <1>1, RulesApart DEF CreateRule, TypeOK
<1>2. ASSUME NEW old \in rules, NEW rule \in Rules, UpdateRule(old, rule) PROVE TypeOK'
  <2> DEFINE left == rules \ {old}
  <2>1. left \subseteq Rules /\ RuleFits(rule, left) /\ rules' = left \cup {rule}
    BY <1>0, <1>2 DEF UpdateRule
  <2>2. \A r, s \in left : r # s /\ r.date = s.date => r.end <= s.start \/ s.end <= r.start
    BY <1>0
  <2> HIDE DEF left
  <2>3. QED
    BY <1>0, <1>2, <2>1, <2>2, RulesApart DEF UpdateRule, TypeOK
<1>3. ASSUME \/ \E rule \in rules : DeleteRule(rule)
             \/ \E date \in RuleDates : ClearRulesForDay(date)
      PROVE  TypeOK'
  <2>1. rules' \subseteq rules /\ UNCHANGED <<profile, exceptions>>
    BY <1>3 DEF DeleteRule, ClearRulesForDay
  <2>2. QED
    BY <1>0, <2>1 DEF TypeOK
<1>4. ASSUME NEW e \in Exceptions, NEW row \in Rows, StoreException(row, e) PROVE TypeOK'
  BY <1>0, <1>4 DEF StoreException, TypeOK
<1>5. ASSUME NEW from \in 0 .. Days - PresetDays,
             NEW place \in [from .. from + PresetDays - 1 -> Rows], CreateExceptions(place)
      PROVE  TypeOK'
  <2>1. exceptions' \in [Rows -> Exceptions \cup {Empty}]
    BY <1>5, PresetRows
  <2>2. UNCHANGED <<profile, rules>>
    BY <1>5 DEF CreateExceptions
  <2>3. QED
    BY <1>0, <2>1, <2>2 DEF TypeOK
<1>6. ASSUME NEW row \in Rows, DeleteException(row) PROVE TypeOK'
  BY <1>0, <1>6 DEF DeleteException, TypeOK
<1>7. ASSUME (\E policy \in Policies : UpdateProfile(policy)) \/ Demote \/ Deactivate
      PROVE  TypeOK'
  <2>1. /\ profile' \in [active : BOOLEAN, policy : Policies]
        /\ profile'.policy = "assumed_available" => profile'.active
    <3>1. ASSUME NEW policy \in Policies, profile.active,
                 profile' = [profile EXCEPT !.policy = policy]
          PROVE  /\ profile' \in [active : BOOLEAN, policy : Policies] /\ profile'.active
      BY <1>0, <3>1
    <3>2. CASE \E policy \in Policies : UpdateProfile(policy)
      BY <3>1, <3>2 DEF UpdateProfile
    <3>3. CASE Demote
      BY <1>0, <3>3 DEF Demote, Policies
    <3>4. CASE Deactivate
      BY <1>0, <3>4 DEF Deactivate, Policies
    <3>5. QED
      BY <1>7, <3>2, <3>3, <3>4
  <2>2. UNCHANGED <<rules, exceptions>>
    BY <1>7 DEF UpdateProfile, Demote, Deactivate
  <2>3. QED
    BY <1>0, <2>1, <2>2 DEF TypeOK
<1>8. CASE UNCHANGED vars
  BY <1>0, <1>8 DEF vars, TypeOK
<1>9. QED
  BY <1>1, <1>2, <1>3, <1>4, <1>5, <1>6, <1>7, <1>8 DEF Next

\* Rules, exceptions and policy keep the types of their columns, rules of a day
\* stay apart, and only an active driver counts as available by default, for any
\* horizon, any number of rows and any limits.
THEOREM AvailabilityTypeCorrect == Spec => []TypeOK
<1>1. Init => TypeOK
  BY DEF Init, TypeOK, Policies
<1>2. QED
  BY <1>1, NextTyped, PTL DEF Spec

-----------------------------------------------------------------------------
(* How much one resolution loads *)

Short(w) == w.to - w.from <= MaxResolveDays * SlotsPerDay

\* Of two exceptions that a short range finds, each lies in the range that is
\* searched before the other is stored.
LEMMA NearEachOther ==
  ASSUME NEW e \in Exceptions, NEW f \in Exceptions, NEW w \in Span, Short(w),
         Within(e, w), Within(f, w)
  PROVE  Within(f, DensityWindow(e))
<1>1. Overlaps(TimeOf(e), w) /\ Overlaps(TimeOf(f), w)
  BY WithinOverlaps
<1>2. TimeOf(e) \in Span /\ TimeOf(f) \in Span /\ MaxResolveDays * SlotsPerDay \in Nat
  BY Times, Constants
<1> DEFINE length == MaxResolveDays * SlotsPerDay
           t == TimeOf(e)
           u == TimeOf(f)
           near == [from |-> t.from - length, to |-> t.to + length]
<1>3. DensityWindow(e) = near
  BY DEF DensityWindow
<1>4. near \in Span
  BY <1>2 DEF Span
<1>5. Overlaps(u, near)
  <2>1. /\ t.from < w.to /\ w.from < t.to /\ u.from < w.to /\ w.from < u.to
        /\ w.to - w.from <= length
    BY <1>1 DEF Overlaps, Short
  <2>2. /\ t.from \in Int /\ t.to \in Int /\ u.from \in Int /\ u.to \in Int
        /\ w.from \in Int /\ w.to \in Int
    BY <1>2 DEF Span
  <2>3. near.from = t.from - length /\ near.to = t.to + length
    OBVIOUS
  <2> HIDE DEF near
  <2>4. length \in Nat
    BY <1>2
  <2> HIDE DEF length, t, u
  <2>5. u.from < t.to + length /\ t.from - length < u.to
    BY <2>1, <2>2, <2>4
  <2>6. QED
    BY <2>3, <2>5 DEF Overlaps
<1>6. QED
  BY <1>3, <1>4, <1>5, WithinOverlaps

\* Rows are finitely many; a set of them has no more than one element more than
\* it has without one of them.
LEMMA OneMore ==
  ASSUME NEW C \in SUBSET Rows, NEW D \in SUBSET Rows, NEW row, NEW n \in Nat,
         C \ {row} \subseteq D, Cardinality(D) < n
  PROVE  Cardinality(C) <= n
<1>1. IsFiniteSet(Rows)
  BY AvailabilityAssumption
<1>2. IsFiniteSet(C) /\ IsFiniteSet(D) /\ IsFiniteSet(C \ {row})
  BY <1>1, FS_Subset
<1>3. Cardinality(C \ {row}) <= Cardinality(D)
  BY <1>2, FS_Subset
<1>4. Cardinality(C \ {row}) = IF row \in C THEN Cardinality(C) - 1 ELSE Cardinality(C)
  BY <1>2, FS_RemoveElement
<1>5. Cardinality(C) \in Nat /\ Cardinality(D) \in Nat /\ Cardinality(C \ {row}) \in Nat
  BY <1>2, FS_CardinalityType
<1>6. QED
  BY <1>3, <1>4, <1>5

\* A row that was counted before it was written leaves enough room.
LEMMA CountedLast ==
  ASSUME TypeOK, TypeOK', NEW w \in Windows, Short(w), NEW row \in Rows, NEW e \in Exceptions,
         NEW table \in [Rows -> Exceptions \cup {Empty}],
         ~DenseAround(e, row, table), Within(e, w),
         \A r \in Loaded(w)' : r # row => table[r] = exceptions'[r]
  PROVE  Cardinality(Loaded(w)') <= MaxExceptions
<1> DEFINE D == {r \in Rows \ {row} : table[r] # Empty /\ Within(table[r], DensityWindow(e))}
<1>1. D \subseteq Rows /\ Cardinality(D) < MaxExceptions
  <2>1. D \subseteq Rows
    OBVIOUS
  <2>2. Cardinality(D) \in Nat
    <3>1. IsFiniteSet(D)
      BY <2>1, AvailabilityAssumption, FS_Subset
    <3>2. QED
      BY <3>1, FS_CardinalityType
  <2>3. ~(Cardinality(D) >= MaxExceptions)
    BY DEF DenseAround
  <2> HIDE DEF D
  <2>4. QED
    BY <2>1, <2>2, <2>3, Constants
<1>2. Loaded(w)' \subseteq Rows
  BY DEF Loaded, Stored
<1>3. ASSUME NEW r \in Loaded(w)', r # row PROVE r \in D
  <2>1. exceptions'[r] # Empty /\ Within(exceptions'[r], w) /\ r \in Rows
    BY DEF Loaded, Stored
  <2>2. exceptions'[r] \in Exceptions
    BY <2>1 DEF TypeOK
  <2>3. Within(exceptions'[r], DensityWindow(e))
    BY <2>1, <2>2, NearEachOther, Times
  <2>4. QED
    BY <1>3, <2>1, <2>3
<1> HIDE DEF D
<1>4. QED
  BY <1>1, <1>2, <1>3, OneMore, Constants

\* Fewer rows are no more than before.
LEMMA FewerLoaded ==
  ASSUME NEW w \in Windows, Cardinality(Loaded(w)) <= MaxExceptions,
         Loaded(w)' \subseteq Loaded(w)
  PROVE  Cardinality(Loaded(w)') <= MaxExceptions
<1>1. Loaded(w) \subseteq Rows
  BY DEF Loaded, Stored
<1>2. IsFiniteSet(Loaded(w))
  BY <1>1, AvailabilityAssumption, FS_Subset
<1>3. IsFiniteSet(Loaded(w)') /\ Cardinality(Loaded(w)') <= Cardinality(Loaded(w))
  BY <1>2, FS_Subset
<1>4. QED
  BY <1>2, <1>3, FS_CardinalityType, Constants

\* The preset: the last of its days within the range was counted after the others.
LEMMA PresetBounded ==
  ASSUME TypeOK, TypeOK', NEW w \in Windows, Short(w), Cardinality(Loaded(w)) <= MaxExceptions,
         NEW from \in 0 .. Days - PresetDays,
         NEW place \in [from .. from + PresetDays - 1 -> Rows], CreateExceptions(place)
  PROVE  Cardinality(Loaded(w)') <= MaxExceptions
<1> DEFINE of(row) == CHOOSE day \in DOMAIN place : place[day] = row
           first == DateOf(w.from)
           end == DateOf(w.to - 1)
           top == from + PresetDays - 1
           last == IF end < top THEN end ELSE top
           Placed(row) == \E day \in DOMAIN place : place[day] = row
<1>0. /\ w \in Span /\ w.from \in Int /\ w.to - 1 \in Int
      /\ first \in Int /\ end \in Int /\ top \in Int /\ from \in Int
      /\ DOMAIN place = from .. top
  <2>1. w \in Span /\ w.from \in Int /\ w.to - 1 \in Int
    BY Times DEF Span
  <2>2. first \in Int /\ end \in Int
    BY <2>1, DateOrder
  <2>3. PresetDays \in Nat \ {0} /\ Days \in Nat \ {0}
    BY AvailabilityAssumption
  <2>4. from \in Int /\ top \in Int
    BY <2>3
  <2>5. QED
    BY <2>1, <2>2, <2>4
<1>1. /\ \A row \in Rows : IF Placed(row) THEN exceptions'[row] = Vacation(of(row))
                                         ELSE exceptions'[row] = exceptions[row]
      /\ DOMAIN place \subseteq Dates
  BY PresetRows
<1>2. \A row \in Rows : Placed(row) => of(row) \in from .. top /\ place[of(row)] = row
  BY <1>0
<1>3. \A date \in Dates : Vacation(date) \in Exceptions
  BY AvailabilityAssumption DEF Vacation, AllDays, Exceptions
<1>4. \A date : Within(Vacation(date), w) <=> date \in first .. end
  BY DEF Within, Vacation
<1>5. CASE ~\E day \in from .. top : day \in first .. end
  <2>1. ASSUME NEW r \in Loaded(w)' PROVE r \in Loaded(w)
    <3> HIDE DEF of, first, end, top, Placed
    <3>1. r \in Rows /\ exceptions'[r] # Empty /\ Within(exceptions'[r], w)
      BY DEF Loaded, Stored
    <3>2. ~Placed(r)
      BY <1>1, <1>2, <1>4, <1>5, <3>1
    <3>3. QED
      BY <1>1, <3>1, <3>2 DEF Loaded, Stored
  <2>2. QED
    BY <2>1, FewerLoaded
<1>6. CASE \E day \in from .. top : day \in first .. end
  <2>1. /\ last \in from .. top /\ last \in first .. end
        /\ \A day \in from .. top : day \in first .. end => day <= last
    <3> HIDE DEF first, end, top
    <3>1. QED
      BY <1>0, <1>6
  <2> DEFINE table == [row \in Rows |->
                IF \E day \in DOMAIN place : day < last /\ place[day] = row
                THEN Vacation(of(row)) ELSE exceptions[row]]
  <2>2. ~DenseAround(Vacation(last), place[last], table)
    <3>1. \A date \in DOMAIN place :
            ~DenseAround([kind |-> "all_day", type |-> "vacation", date |-> date], place[date],
               [row \in Rows |->
                  IF \E day \in DOMAIN place : day < date /\ place[day] = row
                  THEN [kind |-> "all_day", type |-> "vacation",
                        date |-> CHOOSE day \in DOMAIN place : place[day] = row]
                  ELSE exceptions[row]])
      BY DEF CreateExceptions
    <3>2. last \in DOMAIN place
      BY <1>0, <2>1
    <3> HIDE DEF last
    <3>3. QED
      BY <3>1, <3>2 DEF Vacation
  <2>3. place[last] \in Rows /\ Vacation(last) \in Exceptions /\ Within(Vacation(last), w)
    <3> HIDE DEF last, first, end, top
    <3>1. QED
      BY <1>0, <1>1, <1>3, <1>4, <2>1
  <2> HIDE DEF of, last, first, end, top
  <2>4. table \in [Rows -> Exceptions \cup {Empty}]
    <3>1. \A row \in Rows : Placed(row) => Vacation(of(row)) \in Exceptions
      BY <1>0, <1>1, <1>2, <1>3
    <3>2. \A row \in Rows : exceptions[row] \in Exceptions \cup {Empty}
      BY DEF TypeOK
    <3>3. QED
      BY <3>1, <3>2
  <2>5. ASSUME NEW r \in Loaded(w)', r # place[last] PROVE table[r] = exceptions'[r]
    <3>1. r \in Rows /\ Within(exceptions'[r], w)
      BY DEF Loaded, Stored
    <3>2. CASE Placed(r)
      <4>1. exceptions'[r] = Vacation(of(r)) /\ of(r) \in from .. top /\ place[of(r)] = r
        BY <1>1, <1>2, <3>1, <3>2
      <4>2. of(r) \in first .. end
        BY <1>4, <3>1, <4>1
      <4>3. of(r) < last
        BY <1>0, <2>1, <2>5, <4>1, <4>2
      <4>4. QED
        BY <1>0, <3>1, <4>1, <4>3
    <3>3. CASE ~Placed(r)
      BY <1>1, <3>1, <3>3
    <3>4. QED
      BY <3>2, <3>3
  <2> HIDE DEF table
  <2>6. QED
    BY <2>2, <2>3, <2>4, <2>5, CountedLast
<1>7. QED
  BY <1>5, <1>6

\* No step makes a resolution load more than it may.
LEMMA NextBounded == TypeOK /\ ResolutionBounded /\ [Next]_vars => ResolutionBounded'
<1> SUFFICES ASSUME TypeOK, ResolutionBounded, [Next]_vars, NEW w \in Windows, Short(w)
             PROVE  Cardinality(Loaded(w)') <= MaxExceptions
  BY DEF ResolutionBounded, Short
<1>0. TypeOK' /\ Cardinality(Loaded(w)) <= MaxExceptions
  BY NextTyped DEF ResolutionBounded, Short
<1>1. ASSUME NEW row \in Rows, \A r \in Rows : r # row => exceptions'[r] = exceptions[r],
             exceptions'[row] = Empty \/ ~Within(exceptions'[row], w)
      PROVE  Cardinality(Loaded(w)') <= MaxExceptions
  BY <1>0, <1>1, FewerLoaded DEF Loaded, Stored
<1>2. ASSUME NEW e \in Exceptions, NEW row \in Rows, StoreException(row, e)
      PROVE  Cardinality(Loaded(w)') <= MaxExceptions
  <2>1. /\ ~DenseAround(e, row, exceptions)
        /\ exceptions'[row] = e
        /\ \A r \in Rows : r # row => exceptions'[r] = exceptions[r]
        /\ exceptions \in [Rows -> Exceptions \cup {Empty}]
    BY <1>2 DEF StoreException, TypeOK
  <2>2. CASE ~Within(e, w)
    BY <1>1, <2>1, <2>2
  <2>3. CASE Within(e, w)
    <3>1. Loaded(w)' \subseteq Rows
      BY DEF Loaded, Stored
    <3>2. QED
      BY <1>0, <2>1, <2>3, <3>1, CountedLast
  <2>4. QED
    BY <2>2, <2>3
<1>3. ASSUME NEW row \in Rows, DeleteException(row)
      PROVE  Cardinality(Loaded(w)') <= MaxExceptions
  BY <1>1, <1>3 DEF DeleteException, TypeOK
<1>4. ASSUME UNCHANGED exceptions PROVE Cardinality(Loaded(w)') <= MaxExceptions
  BY <1>0, <1>4 DEF Loaded, Stored
<1>5. QED
  BY <1>0, <1>2, <1>3, <1>4, PresetBounded
  DEF Next, vars, CreateRule, UpdateRule, DeleteRule, ClearRulesForDay, UpdateProfile, Demote,
      Deactivate

\* However exceptions are added, edited, preset and deleted, and around whichever
\* row they were counted, one resolution never has to process more of them than
\* the limit, whatever limits are configured.
THEOREM ResolutionAlwaysBounded == Spec => []ResolutionBounded
<1>1. Init => ResolutionBounded
  <2> SUFFICES ASSUME Init, NEW w \in Windows PROVE Cardinality(Loaded(w)) <= MaxExceptions
    BY DEF ResolutionBounded
  <2>1. Loaded(w) = {}
    BY DEF Init, Loaded, Stored
  <2>2. QED
    BY <2>1, FS_EmptySet, Constants
<1>2. QED
  BY <1>1, NextBounded, AvailabilityTypeCorrect, PTL DEF Spec

-----------------------------------------------------------------------------
(* The layers of a resolution *)

\* What the sweep may assume of its layers: they lie in the range, their orders
\* are bounded, and layers of the same order show the same.
Paintable(layers, w) ==
  /\ \A l \in layers :
       /\ l.from \in Int /\ l.to \in Int /\ l.order \in Int
       /\ w.from <= l.from /\ l.from < l.to /\ l.to <= w.to /\ l.order <= 5
  /\ \A l, m \in layers : l.order = m.order => l.status = m.status

ShownBy(e) == IF e.type = "available_override" THEN "available" ELSE "unavailable"
RuleSpan(r) == [from |-> Midnight(r.date) + r.start, to |-> Midnight(r.date) + r.end]

\* Orders of exception types: overrides lie lowest, no two types share a place.
LEMMA Priorities ==
  /\ \A t \in AllTypes : Priority[t] \in 1 .. 5
  /\ \A t \in AllTypes : Priority[t] = 1 <=> t = "available_override"
  /\ \A t, u \in AllTypes : Priority[t] = Priority[u] => t = u
BY DEF Priority, AllTypes

\* Clipping keeps what a time has in common with the range.
LEMMA ClippedTime ==
  ASSUME NEW v \in Span, NEW w \in Span
  PROVE  /\ Clipped(v, w) \in Span /\ w.from <= Clipped(v, w).from /\ Clipped(v, w).to <= w.to
         /\ \A at \in w.from .. w.to - 1 :
              (Clipped(v, w).from <= at /\ at < Clipped(v, w).to) <=> (v.from <= at /\ at < v.to)
         /\ w.from < w.to => (Clipped(v, w).from < Clipped(v, w).to <=> Overlaps(v, w) /\ v.from < v.to)
BY DEF Span, Clipped, Overlaps

\* Rules have dates and times of the day, and their order is negative.
LEMMA RuleTimes ==
  ASSUME NEW r \in Rules
  PROVE  /\ r.date \in Int /\ r.start \in Int /\ r.end \in Int
         /\ 0 <= r.start /\ r.start < r.end /\ r.end < SlotsPerDay
         /\ r.status \in {"available", "limited"}
         /\ RuleSpan(r) \in Span /\ Midnight(r.date) \in Int
         /\ Midnight(r.date) + r.start - Horizon < 0
<1>1. /\ r.date \in RuleDates /\ r.start \in 0 .. SlotsPerDay - 1 /\ r.end \in 0 .. SlotsPerDay - 1
      /\ r.start < r.end /\ r.status \in {"available", "limited"}
  BY DEF Rules
<1>2. r.date \in 0 .. Days - 1
  BY <1>1, AvailabilityAssumption
<1>3. /\ r.date \in Int /\ r.start \in Int /\ r.end \in Int /\ r.date + 1 \in Int
      /\ 0 <= r.start /\ r.end < SlotsPerDay
  BY <1>1, <1>2, Constants
<1>4. Midnight(r.date) \in Int /\ Midnight(r.date + 1) = Midnight(r.date) + SlotsPerDay
  BY <1>3, DateOrder, NextMidnight
<1>5. Midnight(r.date + 1) <= Midnight(Days)
  <2>1. r.date + 1 <= Days /\ Days \in Int
    BY <1>2, Constants
  <2>2. SlotsPerDay \in Nat
    BY Constants
  <2>3. QED
    BY <2>1, <2>2, <1>3 DEF Midnight
<1>6. Midnight(r.date) + r.start - Horizon < 0
  <2>1. Midnight(Days) = Horizon /\ Horizon \in Int
    BY Constants
  <2>2. r.start < SlotsPerDay /\ SlotsPerDay \in Int
    BY <1>1, <1>3, Constants
  <2>3. QED
    BY <1>3, <1>4, <1>5, <2>1, <2>2
<1>7. QED
  BY <1>1, <1>3, <1>4, <1>6 DEF RuleSpan, Span

\* The date of a rule's start is its date: rules with the same order are one.
LEMMA RuleOrder ==
  ASSUME TypeOK, NEW r \in rules, NEW s \in rules,
         Midnight(r.date) + r.start = Midnight(s.date) + s.start
  PROVE  r = s
<1>1. r \in Rules /\ s \in Rules
  BY DEF TypeOK
<1>2. ASSUME NEW t \in Rules PROVE DateOf(Midnight(t.date) + t.start) = t.date
  <2> DEFINE slot == Midnight(t.date) + t.start
  <2>1. slot \in Int /\ t.date \in Int /\ t.date + 1 \in Int
    BY RuleTimes
  <2>2. t.date <= DateOf(slot)
    BY <2>1, DateOrder, RuleTimes
  <2>3. ~(t.date + 1 <= DateOf(slot))
    <3>1. Midnight(t.date + 1) = Midnight(t.date) + SlotsPerDay /\ SlotsPerDay \in Int
      BY <2>1, NextMidnight
    <3>2. slot < Midnight(t.date + 1) /\ Midnight(t.date + 1) \in Int
      BY <2>1, <3>1, RuleTimes
    <3>3. QED
      BY <2>1, <3>2, DateOrder
  <2>4. DateOf(slot) \in Int
    BY <2>1, DateOrder
  <2>5. QED
    BY <2>1, <2>2, <2>3, <2>4
<1>3. r.date = s.date
  BY <1>1, <1>2
<1>4. r.start = s.start
  BY <1>1, <1>3, RuleTimes
<1>5. ~(r.end <= s.start) /\ ~(s.end <= r.start)
  BY <1>1, <1>4, RuleTimes
<1>6. QED
  BY <1>3, <1>5 DEF TypeOK

\* A layer comes from a rule, below, or from an exception, above.
OfRule(l, w, r) ==
  /\ profile.policy # "explicit_dates"
  /\ r.date \in DateOf(w.from) .. DateOf(w.to - 1)
  /\ l = Layer(RuleSpan(r), w, r.status, Midnight(r.date) + r.start - Horizon)

OfException(l, w, row) ==
  /\ profile.policy = "explicit_dates" => exceptions[row].type = "available_override"
  /\ l = Layer(TimeOf(exceptions[row]), w, ShownBy(exceptions[row]), Priority[exceptions[row].type])

LEMMA LayerSources ==
  ASSUME NEW w
  PROVE  /\ \A l \in Layers(w) :
              \/ \E r \in rules : OfRule(l, w, r)
              \/ \E row \in Loaded(w) : OfException(l, w, row)
         /\ \A l : /\ l.from < l.to
                   /\ \/ \E r \in rules : OfRule(l, w, r)
                      \/ \E row \in Loaded(w) : OfException(l, w, row)
                   => l \in Layers(w)
<1>1. \A l : l \in RuleLayers(w) <=> \E r \in rules : OfRule(l, w, r)
  BY DEF RuleLayers, OfRule, RuleSpan
<1>2. \A l : l \in ExceptionLayers(w) <=> \E row \in Loaded(w) : OfException(l, w, row)
  BY DEF ExceptionLayers, Effective, OfException, ShownBy
<1>3. QED
  BY <1>1, <1>2 DEF Layers

\* What layers of rules and of exceptions look like.
LEMMA RuleLayer ==
  ASSUME TypeOK, NEW w \in Windows, NEW r \in rules, NEW l, OfRule(l, w, r)
  PROVE  /\ l.from \in Int /\ l.to \in Int /\ w.from <= l.from /\ l.to <= w.to
         /\ l.order = Midnight(r.date) + r.start - Horizon
         /\ l.order \in Int /\ l.order < 0 /\ l.status = r.status
         /\ \A at \in w.from .. w.to - 1 :
              (l.from <= at /\ at < l.to) <=> (RuleSpan(r).from <= at /\ at < RuleSpan(r).to)
<1>1. r \in Rules /\ w \in Span
  BY Times DEF TypeOK
<1>2. RuleSpan(r) \in Span
  BY <1>1, RuleTimes
<1>3. /\ l.from = Clipped(RuleSpan(r), w).from /\ l.to = Clipped(RuleSpan(r), w).to
      /\ l.status = r.status /\ l.order = Midnight(r.date) + r.start - Horizon
  BY DEF OfRule, Layer
<1>4. Clipped(RuleSpan(r), w).from \in Int /\ Clipped(RuleSpan(r), w).to \in Int
  BY <1>1, <1>2, ClippedTime DEF Span
<1>5. l.order \in Int /\ l.order < 0
  BY <1>1, <1>3, RuleTimes, Constants
<1>6. QED
  BY <1>1, <1>2, <1>3, <1>4, <1>5, ClippedTime

LEMMA ExceptionLayer ==
  ASSUME TypeOK, NEW w \in Windows, NEW row \in Loaded(w), NEW l, OfException(l, w, row)
  PROVE  /\ exceptions[row] \in Exceptions /\ row \in Stored
         /\ l.from \in Int /\ l.to \in Int /\ w.from <= l.from /\ l.to <= w.to
         /\ l.order = Priority[exceptions[row].type] /\ l.order \in 1 .. 5
         /\ l.status = ShownBy(exceptions[row])
         /\ l.order = 1 <=> exceptions[row].type = "available_override"
         /\ \A at \in w.from .. w.to - 1 :
              (l.from <= at /\ at < l.to) <=>
                (TimeOf(exceptions[row]).from <= at /\ at < TimeOf(exceptions[row]).to)
<1> DEFINE e == exceptions[row]
<1>1. row \in Stored /\ e \in Exceptions /\ w \in Span
  BY Times DEF TypeOK, Loaded, Stored
<1>2. TimeOf(e) \in Span /\ e.type \in AllTypes
  BY <1>1, Times
<1>3. /\ l.from = Clipped(TimeOf(e), w).from /\ l.to = Clipped(TimeOf(e), w).to
      /\ l.status = ShownBy(e) /\ l.order = Priority[e.type]
  BY DEF OfException, Layer
<1>4. Clipped(TimeOf(e), w).from \in Int /\ Clipped(TimeOf(e), w).to \in Int
  BY <1>1, <1>2, ClippedTime DEF Span
<1> HIDE DEF e
<1>5. QED
  BY <1>1, <1>2, <1>3, <1>4, ClippedTime, Priorities DEF e

LEMMA LayersPaintable == ASSUME TypeOK, NEW w \in Windows PROVE Paintable(Layers(w), w)
<1>1. ASSUME NEW l \in Layers(w)
      PROVE  /\ l.from \in Int /\ l.to \in Int /\ l.order \in Int
             /\ w.from <= l.from /\ l.from < l.to /\ l.to <= w.to /\ l.order <= 5
  <2>1. l.from < l.to
    BY DEF Layers
  <2>2. ASSUME NEW r \in rules, OfRule(l, w, r)
        PROVE  /\ l.from \in Int /\ l.to \in Int /\ l.order \in Int
               /\ w.from <= l.from /\ l.to <= w.to /\ l.order <= 5
    BY <2>2, RuleLayer
  <2>3. ASSUME NEW row \in Loaded(w), OfException(l, w, row)
        PROVE  /\ l.from \in Int /\ l.to \in Int /\ l.order \in Int
               /\ w.from <= l.from /\ l.to <= w.to /\ l.order <= 5
    BY <2>3, ExceptionLayer
  <2>4. QED
    BY <2>1, <2>2, <2>3, LayerSources
<1>2. ASSUME NEW l \in Layers(w), NEW m \in Layers(w), l.order = m.order PROVE l.status = m.status
  <2>1. ASSUME NEW r \in rules, OfRule(l, w, r), NEW s \in rules, OfRule(m, w, s)
        PROVE  l.status = m.status
    <3>1. r \in Rules /\ s \in Rules
      BY DEF TypeOK
    <3>2. /\ l.order = Midnight(r.date) + r.start - Horizon /\ l.status = r.status
          /\ m.order = Midnight(s.date) + s.start - Horizon /\ m.status = s.status
      BY <2>1, RuleLayer
    <3>3. Midnight(r.date) + r.start = Midnight(s.date) + s.start
      <4>1. /\ Midnight(r.date) \in Int /\ r.start \in Int /\ Horizon \in Int
            /\ Midnight(s.date) \in Int /\ s.start \in Int
        BY <3>1, RuleTimes, Constants
      <4>2. Midnight(r.date) + r.start - Horizon = Midnight(s.date) + s.start - Horizon
        BY <1>2, <3>2
      <4>3. PICK x \in Int, y \in Int, a \in Int, b \in Int, h \in Int :
              x = Midnight(r.date) /\ y = Midnight(s.date) /\ a = r.start /\ b = s.start /\ h = Horizon
        BY <4>1
      <4>4. x + a - h = y + b - h
        BY <4>2, <4>3
      <4>5. x + a = y + b
        BY <4>4
      <4>6. QED
        BY <4>3, <4>5
    <3>4. QED
      BY <3>2, <3>3, RuleOrder
  <2>2. ASSUME NEW row \in Loaded(w), OfException(l, w, row),
               NEW other \in Loaded(w), OfException(m, w, other)
        PROVE  l.status = m.status
    BY <1>2, <2>2, ExceptionLayer DEF ShownBy
  <2>3. \A r \in rules : (OfRule(l, w, r) => l.order < 0) /\ (OfRule(m, w, r) => m.order < 0)
    BY RuleLayer
  <2>4. \A row \in Loaded(w) : /\ OfException(l, w, row) => l.order \in 1 .. 5
                               /\ OfException(m, w, row) => m.order \in 1 .. 5
    BY ExceptionLayer
  <2>5. QED
    BY <1>2, <2>1, <2>2, <2>3, <2>4, LayerSources
<1>3. QED
  BY <1>1, <1>2 DEF Paintable

-----------------------------------------------------------------------------
(* The sweep *)

\* What is left on the heap at an instant: the layers that began, unless at some
\* instant since then nothing at their height or above was going on.
Remaining(layers, at) ==
  {l \in layers :
     /\ l.from <= at
     /\ \A b \in l.from .. at : \E m \in layers : m.from <= b /\ m.order >= l.order /\ m.to > b}

Swept(heap, layers, w) ==
  heap = [at \in w.from .. w.to - 1 |->
            PopEnded((IF at = w.from THEN {} ELSE heap[at - 1]) \cup {l \in layers : l.from = at}, at)]

\* This is what one instant leaves of the heap of the instant before.
LEMMA RemainingStep ==
  ASSUME NEW w \in Span, NEW layers, Paintable(layers, w), NEW at \in w.from .. w.to - 1
  PROVE  Remaining(layers, at) =
           PopEnded((IF at = w.from THEN {} ELSE Remaining(layers, at - 1))
                      \cup {l \in layers : l.from = at}, at)
<1> DEFINE before == (IF at = w.from THEN {} ELSE Remaining(layers, at - 1))
                       \cup {l \in layers : l.from = at}
<1>0. /\ at \in Int /\ w.from \in Int /\ w.from <= at
      /\ \A l \in layers : l.from \in Int /\ l.to \in Int /\ l.order \in Int /\ w.from <= l.from
  BY DEF Span, Paintable
<1>1. \A l \in before : l \in layers /\ l.from <= at
  BY <1>0 DEF Remaining
<1>2. ASSUME NEW l \in Remaining(layers, at) PROVE l \in PopEnded(before, at)
  <2>1. /\ l \in layers /\ l.from <= at
        /\ \A b \in l.from .. at : \E m \in layers : m.from <= b /\ m.order >= l.order /\ m.to > b
    BY DEF Remaining
  <2>2. ASSUME NEW n \in layers, n.from <= at,
               \A b \in n.from .. at - 1 :
                 \E m \in layers : m.from <= b /\ m.order >= n.order /\ m.to > b
        PROVE  n \in before
    <3>1. CASE n.from = at
      BY <3>1
    <3>2. CASE n.from # at
      <4>1. n.from <= at - 1 /\ at # w.from
        BY <1>0, <2>2, <3>2
      <4>2. n \in Remaining(layers, at - 1)
        BY <2>2, <4>1 DEF Remaining
      <4>3. QED
        BY <4>1, <4>2
    <3>3. QED
      BY <3>1, <3>2
  <2> HIDE DEF before
  <2>3. \A b \in l.from .. at - 1 : b \in l.from .. at
    BY <1>0, <2>1
  <2>4. l \in before
    BY <2>1, <2>2, <2>3
  <2>5. PICK m \in layers : m.from <= at /\ m.order >= l.order /\ m.to > at
    <3>1. at \in l.from .. at
      BY <1>0, <2>1
    <3>2. QED
      BY <2>1, <3>1
  <2>6. \A b \in m.from .. at - 1 : m.from <= b /\ m.order >= m.order /\ m.to > b
    BY <1>0, <2>5
  <2>7. m \in before
    BY <2>2, <2>5, <2>6
  <2>8. QED
    BY <2>4, <2>5, <2>7 DEF PopEnded
<1>3. ASSUME NEW l \in PopEnded(before, at) PROVE l \in Remaining(layers, at)
  <2>1. PICK m \in before : m.order >= l.order /\ m.to > at
    BY DEF PopEnded
  <2>2. l \in before
    BY DEF PopEnded
  <2>3. /\ m \in layers /\ m.from <= at /\ l \in layers /\ l.from <= at
    BY <1>1, <2>1, <2>2
  <2>4. ASSUME NEW b \in l.from .. at
        PROVE  \E n \in layers : n.from <= b /\ n.order >= l.order /\ n.to > b
    <3>1. CASE b = at
      BY <2>1, <2>3, <3>1
    <3>2. CASE b # at
      <4>1. b <= at - 1 /\ l.from <= b /\ l.from # at /\ b \in Int
        BY <1>0, <2>3, <3>2
      <4>2. l \in Remaining(layers, at - 1)
        BY <2>2, <4>1
      <4>3. b \in l.from .. at - 1
        BY <1>0, <2>3, <4>1
      <4>4. QED
        BY <4>2, <4>3 DEF Remaining
    <3>3. QED
      BY <3>1, <3>2
  <2>5. QED
    BY <2>3, <2>4 DEF Remaining
<1> HIDE DEF before
<1>4. Remaining(layers, at) = PopEnded(before, at)
  BY <1>2, <1>3
<1>5. QED
  BY <1>4 DEF before

\* The recursion of the sweep has this as its solution, and no other.
LEMMA HeapIsRemaining ==
  ASSUME TypeOK, NEW w \in Windows, NEW at \in w.from .. w.to - 1
  PROVE  HeapAt(w)[at] = Remaining(Layers(w), at)
<1> DEFINE layers == Layers(w)
           closed == [b \in w.from .. w.to - 1 |-> Remaining(layers, b)]
           heap == HeapAt(w)
<1>1. w \in Span /\ Paintable(layers, w) /\ w.from \in Int /\ w.to \in Int
  BY Times, LayersPaintable DEF Span
<1>2. Swept(closed, layers, w)
  <2>1. \A b \in w.from .. w.to - 1 : b # w.from => b - 1 \in w.from .. w.to - 1
    BY <1>1
  <2> HIDE DEF layers
  <2>2. ASSUME NEW b \in w.from .. w.to - 1
        PROVE  closed[b] = PopEnded((IF b = w.from THEN {} ELSE closed[b - 1])
                                      \cup {l \in layers : l.from = b}, b)
    <3>1. Remaining(layers, b) = PopEnded((IF b = w.from THEN {} ELSE Remaining(layers, b - 1))
                                            \cup {l \in layers : l.from = b}, b)
      BY <1>1, RemainingStep
    <3>2. QED
      BY <2>1, <3>1
  <2>3. QED
    BY <2>2 DEF Swept
<1>3. Swept(heap, layers, w)
  <2>1. heap = CHOOSE f : Swept(f, layers, w)
    BY DEF HeapAt, Swept
  <2> HIDE DEF heap, closed, layers
  <2>2. QED
    BY <1>2, <2>1
<1> DEFINE T == {b \in w.from .. w.to - 1 : heap[b] # closed[b]}
<1>4. CASE T # {}
  <2>1. T \in SUBSET Int /\ \A b \in T : w.from <= b
    BY <1>1
  <2> HIDE DEF T
  <2>2. PICK b \in T : \A c \in T : b <= c
    BY <1>1, <1>4, <2>1, Least
  <2> USE DEF T
  <2>3. b \in w.from .. w.to - 1 /\ heap[b] # closed[b]
    BY <2>2
  <2>4. b # w.from => b - 1 \in w.from .. w.to - 1 /\ heap[b - 1] = closed[b - 1]
    <3>1. b # w.from => b - 1 \in w.from .. w.to - 1 /\ ~(b <= b - 1)
      BY <1>1, <2>3
    <3>2. b # w.from => b - 1 \notin T
      BY <2>2, <3>1
    <3>3. QED
      BY <3>1, <3>2
  <2> HIDE DEF T, heap, closed, layers
  <2>5. heap[b] = PopEnded((IF b = w.from THEN {} ELSE heap[b - 1]) \cup {l \in layers : l.from = b}, b)
    BY <1>3, <2>3 DEF Swept
  <2>6. closed[b] = PopEnded((IF b = w.from THEN {} ELSE closed[b - 1]) \cup {l \in layers : l.from = b}, b)
    BY <1>2, <2>3 DEF Swept
  <2>7. QED
    BY <2>3, <2>4, <2>5, <2>6
<1>5. QED
  BY <1>4

\* The highest of bounded orders exists.
LEMMA Top ==
  ASSUME NEW w, NEW layers, Paintable(layers, w), NEW heap \in SUBSET layers, heap # {}
  PROVE  \E l \in heap : \A m \in heap : m.order <= l.order
<1> DEFINE T == {0 - l.order : l \in heap}
<1>1. \A l \in heap : l.order \in Int /\ l.order <= 5
  BY DEF Paintable
<1>2. T \in SUBSET Int /\ T # {} /\ \A t \in T : -5 <= t
  BY <1>1
<1> HIDE DEF T
<1>3. PICK t \in T : \A u \in T : t <= u
  BY <1>2, Least
<1> USE DEF T
<1>4. PICK l \in heap : t = 0 - l.order
  BY <1>3
<1>5. \A m \in heap : 0 - l.order <= 0 - m.order
  BY <1>3, <1>4
<1>6. QED
  BY <1>1, <1>5

Covering(w, at) == {l \in Layers(w) : l.from <= at /\ at < l.to}

\* What is painted: the status of the last layer that covers an instant, of which
\* the sweep may see one that ended but lies at the same height.
LEMMA PaintedLast ==
  ASSUME TypeOK, NEW w \in Windows, NEW at \in w.from .. w.to - 1
  PROVE  /\ Covering(w, at) = {} => Painted(w)[at] = "unavailable"
         /\ Covering(w, at) # {} =>
              \E l \in Covering(w, at) :
                /\ Painted(w)[at] = l.status
                /\ \A m \in Covering(w, at) : m.order <= l.order
<1> DEFINE layers == Layers(w)
           heap == Remaining(layers, at)
           covering == Covering(w, at)
           top == CHOOSE l \in heap : \A m \in heap : m.order <= l.order
<1>1. /\ Paintable(layers, w) /\ at \in Int
      /\ \A l \in layers : l.from \in Int /\ l.to \in Int /\ l.order \in Int
  <2>1. w.from \in Int /\ w.to \in Int
    BY Times DEF Span
  <2>2. QED
    BY <2>1, LayersPaintable DEF Paintable
<1>2. Painted(w)[at] = IF heap = {} THEN "unavailable" ELSE top.status
  <2>1. HeapAt(w)[at] = heap
    BY HeapIsRemaining
  <2>2. Painted(w)[at] =
          IF HeapAt(w)[at] = {} THEN "unavailable"
          ELSE (CHOOSE l \in HeapAt(w)[at] : \A m \in HeapAt(w)[at] : m.order <= l.order).status
    BY DEF Painted
  <2> HIDE DEF heap
  <2>3. QED
    BY <2>1, <2>2
<1>3. \A l \in covering : l \in layers /\ l.from <= at /\ at < l.to
  BY DEF Covering
<1>4. ASSUME NEW l \in covering PROVE l \in heap
  <2>1. \A b \in l.from .. at : l.from <= b /\ l.order >= l.order /\ l.to > b
    BY <1>1, <1>3
  <2>2. QED
    BY <1>3, <2>1 DEF Remaining
<1>5. ASSUME NEW l \in heap PROVE \E m \in covering : m.order >= l.order
  <2>1. l \in layers /\ l.from <= at
    BY DEF Remaining
  <2>2. at \in l.from .. at
    BY <1>1, <2>1
  <2>3. QED
    BY <2>2 DEF Remaining, Covering
<1>6. heap \subseteq layers
  BY DEF Remaining
<1> HIDE DEF layers, heap, covering
<1>7. CASE heap = {}
  BY <1>2, <1>4, <1>7 DEF covering
<1>8. CASE heap # {}
  <2>1. top \in heap /\ \A m \in heap : m.order <= top.order
    BY <1>1, <1>6, <1>8, Top
  <2> HIDE DEF top
  <2>2. PICK l \in covering : l.order >= top.order
    BY <1>5, <2>1
  <2>3. l.order = top.order /\ l.status = top.status
    <3>1. l \in heap /\ l \in layers /\ top \in layers
      BY <1>4, <1>6, <2>1, <2>2
    <3>2. l.order = top.order
      BY <1>1, <2>1, <2>2, <3>1
    <3>3. QED
      BY <1>1, <3>1, <3>2 DEF Paintable
  <2>4. \A m \in covering : m.order <= l.order
    BY <1>4, <2>1, <2>3
  <2>5. Painted(w)[at] = l.status
    BY <1>2, <1>8, <2>3
  <2>6. QED
    BY <2>2, <2>4, <2>5 DEF covering
<1>9. QED
  BY <1>7, <1>8

\* The sweep removes ended layers late and only from the top, and still shows at
\* every instant the layer that was applied last among those that cover it: for
\* any rules and exceptions, any policy and any range.
THEOREM SweepAlwaysShowsLastLayer == Spec => []SweepShowsLastLayer
<1>1. TypeOK => SweepShowsLastLayer
  <2> SUFFICES ASSUME TypeOK, NEW w \in Windows, NEW at \in w.from .. w.to - 1
               PROVE  LET covering == {l \in Layers(w) : l.from <= at /\ at < l.to} IN
                      IF covering = {} THEN Painted(w)[at] = "unavailable"
                      ELSE \E l \in covering :
                             /\ Painted(w)[at] = l.status
                             /\ \A m \in covering : m.order <= l.order
    BY DEF SweepShowsLastLayer
  <2>1. QED
    BY PaintedLast DEF Covering
<1>2. QED
  BY <1>1, AvailabilityTypeCorrect, PTL

-----------------------------------------------------------------------------
(* The two evaluations *)

\* Within one day, a whole day that is met at all is the day asked for and covers it.
LEMMA DayCovers ==
  ASSUME TypeOK, NEW w \in Windows, WithinOneDay(w), NEW row \in Stored
  PROVE  LET e == exceptions[row] IN
         /\ e \in Exceptions
         /\ (OnStartDate(e, w) \/ (e.kind = "timed" /\ Covers(e.window, w)))
              <=> Covers(TimeOf(e), w)
         /\ (OnStartDate(e, w) \/ (e.kind = "timed" /\ Overlaps(e.window, w)))
              <=> Overlaps(TimeOf(e), w)
<1> DEFINE e == exceptions[row]
<1>1. e \in Exceptions
  BY DEF TypeOK, Stored
<1>2. CASE e \in Timed
  BY <1>1, <1>2 DEF Timed, OnStartDate, TimeOf
<1>3. CASE e \in AllDays
  <2>1. /\ e.kind = "all_day" /\ e.date \in Int /\ e.date + 1 \in Int
        /\ TimeOf(e) = WholeDay(e.date)
    BY <1>3, Constants DEF AllDays, Dates, TimeOf
  <2>2. w.from \in Int /\ w.to \in Int /\ w.from < w.to
    BY Times DEF Span, Windows
  <2>3. PICK day \in Int : day = DateOf(w.from) /\ day = DateOf(w.to)
    BY <2>2, DateOrder DEF WithinOneDay
  <2>4. /\ e.date <= day <=> Midnight(e.date) <= w.from
        /\ e.date <= day <=> Midnight(e.date) <= w.to
        /\ e.date + 1 <= day <=> Midnight(e.date + 1) <= w.from
        /\ e.date + 1 <= day <=> Midnight(e.date + 1) <= w.to
        /\ Midnight(e.date) \in Int /\ Midnight(e.date + 1) \in Int
    BY <2>1, <2>2, <2>3, DateOrder
  <2>5. Midnight(e.date) # w.to
    <3>1. Midnight(e.date) = w.to => Midnight(e.date) <= w.from
      BY <2>4, <2>2
    <3>2. QED
      BY <3>1, <2>2
  <2>6. /\ OnStartDate(e, w) <=> e.date = day
        /\ Covers(TimeOf(e), w) <=> (Midnight(e.date) <= w.from /\ w.to <= Midnight(e.date + 1))
        /\ Overlaps(TimeOf(e), w) <=> (Midnight(e.date) < w.to /\ w.from < Midnight(e.date + 1))
    BY <2>1, <2>3 DEF OnStartDate, Covers, Overlaps, WholeDay
  <2> HIDE DEF e
  <2>7. PICK from \in Int, to \in Int, date \in Int :
          from = Midnight(e.date) /\ to = Midnight(e.date + 1) /\ date = e.date
    BY <2>1, <2>4
  <2>8. /\ date <= day <=> from <= w.from
        /\ date <= day <=> from <= w.to
        /\ date + 1 <= day <=> to <= w.from
        /\ date + 1 <= day <=> to <= w.to
        /\ from # w.to
    BY <2>4, <2>5, <2>7
  <2>9. /\ date = day <=> (from <= w.from /\ w.to <= to)
        /\ date = day <=> (from < w.to /\ w.from < to)
    BY <2>2, <2>8
  <2>10. e.kind # "timed"
    BY <2>1
  <2>11. QED
    BY <1>1, <2>6, <2>7, <2>9, <2>10 DEF e
<1>4. QED
  BY <1>1, <1>2, <1>3 DEF Exceptions

\* So the query asks whether an override covers the time, whether an absence
\* overlaps it, and whether a rule of that day covers it.
LEMMA QueryMeans ==
  ASSUME TypeOK, NEW w \in Windows, WithinOneDay(w)
  PROVE  /\ OverrideCovers(w) <=>
              \E row \in Stored : /\ exceptions[row].type = "available_override"
                                  /\ Covers(TimeOf(exceptions[row]), w)
         /\ AbsenceTouches(w) <=>
              \E row \in Loaded(w) : exceptions[row].type # "available_override"
         /\ RuleCovers(w) <=>
              \E r \in rules : /\ r.status = "available" /\ r.date = DateOf(w.from)
                               /\ Covers(RuleSpan(r), w)
<1>0. w \in Span /\ w.from \in Int /\ w.to \in Int
  BY Times DEF Span
<1>1. OverrideCovers(w) <=>
        \E row \in Stored : /\ exceptions[row].type = "available_override"
                            /\ Covers(TimeOf(exceptions[row]), w)
  BY DayCovers DEF OverrideCovers
<1>2. AbsenceTouches(w) <=> \E row \in Loaded(w) : exceptions[row].type # "available_override"
  <2>1. \A row \in Stored : exceptions[row] \in Exceptions
    BY DEF TypeOK, Stored
  <2>2. \A row \in Stored : row \in Loaded(w) <=> Overlaps(TimeOf(exceptions[row]), w)
    BY <1>0, <2>1, WithinOverlaps DEF Loaded
  <2>3. Loaded(w) \subseteq Stored
    BY DEF Loaded
  <2>4. AbsenceTouches(w) <=>
          \E row \in Stored : /\ exceptions[row].type # "available_override"
                              /\ Overlaps(TimeOf(exceptions[row]), w)
    BY DayCovers DEF AbsenceTouches
  <2>5. QED
    BY <2>2, <2>3, <2>4
<1>3. ASSUME NEW r \in rules, r.date = DateOf(w.from)
      PROVE  (r.start <= ClockOf(w.from) /\ r.end >= ClockOf(w.to)) <=> Covers(RuleSpan(r), w)
  <2>1. r \in Rules
    BY DEF TypeOK
  <2>2. /\ RuleSpan(r).from = Midnight(r.date) + r.start /\ RuleSpan(r).to = Midnight(r.date) + r.end
        /\ w.from = Midnight(r.date) + ClockOf(w.from) /\ w.to = Midnight(r.date) + ClockOf(w.to)
        /\ ClockOf(w.from) \in Int /\ ClockOf(w.to) \in Int
    BY <1>0, <1>3, ClockOfSlot, Constants DEF RuleSpan, WithinOneDay
  <2>3. PICK m \in Int, from \in Int, to \in Int, start \in Int, end \in Int :
          /\ m = Midnight(r.date) /\ from = ClockOf(w.from) /\ to = ClockOf(w.to)
          /\ start = r.start /\ end = r.end
    BY <2>1, <2>2, RuleTimes
  <2>4. (start <= from /\ end >= to) <=> (m + start <= m + from /\ m + to <= m + end)
    OBVIOUS
  <2>5. Covers(RuleSpan(r), w) <=> (m + start <= m + from /\ m + to <= m + end)
    BY <2>2, <2>3 DEF Covers
  <2>6. QED
    BY <2>3, <2>4, <2>5
<1>4. RuleCovers(w) <=> \E r \in rules : /\ r.status = "available" /\ r.date = DateOf(w.from)
                                         /\ Covers(RuleSpan(r), w)
  BY <1>3 DEF RuleCovers
<1>5. QED
  BY <1>1, <1>2, <1>4

\* A time that covers the range is a layer over all of it.
LEMMA LayerCovers ==
  ASSUME NEW v \in Span, NEW w \in Windows, Covers(v, w), NEW status, NEW order
  PROVE  LET l == Layer(v, w, status, order) IN
         /\ l.from = w.from /\ l.to = w.to /\ l.from < l.to /\ Overlaps(v, w)
<1>1. w \in Span /\ w.from < w.to
  BY Times DEF Windows
<1>2. QED
  BY <1>1 DEF Span, Layer, Clipped, Covers, Overlaps

\* A covering override or rule is a layer at every instant of the range.
LEMMA CoverIsLayer ==
  ASSUME TypeOK, NEW w \in Windows, WithinOneDay(w)
  PROVE  /\ \A row \in Stored :
              (/\ exceptions[row].type = "available_override"
               /\ Covers(TimeOf(exceptions[row]), w)) =>
                \A at \in w.from .. w.to - 1 : \E l \in Covering(w, at) : l.order = 1
         /\ profile.policy # "explicit_dates" =>
              \A r \in rules :
                (r.date = DateOf(w.from) /\ Covers(RuleSpan(r), w)) =>
                  \A at \in w.from .. w.to - 1 : \E l \in Covering(w, at) : OfRule(l, w, r)
<1>0. w \in Span /\ w.from \in Int /\ w.to \in Int /\ w.from < w.to
  BY Times DEF Span, Windows
<1>1. ASSUME NEW l \in Layers(w), l.from = w.from, l.to = w.to, NEW at \in w.from .. w.to - 1
      PROVE  l \in Covering(w, at)
  BY <1>0, <1>1 DEF Covering
<1>2. ASSUME NEW row \in Stored, exceptions[row].type = "available_override",
             Covers(TimeOf(exceptions[row]), w), NEW at \in w.from .. w.to - 1
      PROVE  \E l \in Covering(w, at) : l.order = 1
  <2> DEFINE e == exceptions[row]
             l == Layer(TimeOf(e), w, ShownBy(e), Priority[e.type])
  <2>1. e \in Exceptions
    BY DEF TypeOK, Stored
  <2>2. l.from = w.from /\ l.to = w.to /\ l.from < l.to /\ Overlaps(TimeOf(e), w)
    BY <1>2, <2>1, LayerCovers, Times
  <2>3. row \in Loaded(w) /\ OfException(l, w, row)
    BY <1>0, <1>2, <2>1, <2>2, WithinOverlaps DEF Loaded, OfException
  <2>4. l.order = 1
    BY <1>2 DEF Layer, Priority
  <2> HIDE DEF l
  <2>5. l \in Layers(w)
    BY <2>2, <2>3, LayerSources
  <2>6. QED
    BY <1>1, <2>2, <2>4, <2>5
<1>3. ASSUME profile.policy # "explicit_dates", NEW r \in rules, r.date = DateOf(w.from),
             Covers(RuleSpan(r), w), NEW at \in w.from .. w.to - 1
      PROVE  \E l \in Covering(w, at) : OfRule(l, w, r)
  <2> DEFINE l == Layer(RuleSpan(r), w, r.status, Midnight(r.date) + r.start - Horizon)
  <2>1. RuleSpan(r) \in Span
    BY RuleTimes DEF TypeOK
  <2>2. l.from = w.from /\ l.to = w.to /\ l.from < l.to
    BY <1>3, <2>1, LayerCovers
  <2>3. r.date \in DateOf(w.from) .. DateOf(w.to - 1)
    <3>1. /\ DateOf(w.from) \in Int /\ DateOf(w.to - 1) \in Int
          /\ Midnight(DateOf(w.from)) <= w.from
      BY <1>0, DateOrder
    <3>2. DateOf(w.from) <= DateOf(w.to - 1)
      BY <1>0, <3>1, DateOrder
    <3>3. QED
      BY <1>3, <3>1, <3>2
  <2>4. OfRule(l, w, r)
    BY <1>3, <2>3 DEF OfRule
  <2> HIDE DEF l
  <2>5. l \in Layers(w)
    BY <2>2, <2>4, LayerSources
  <2>6. QED
    BY <1>1, <2>2, <2>4, <2>5
<1>4. QED
  BY <1>2, <1>3

\* What the service paints over a time within one day.
PaintedAvailable(w) == \A at \in w.from .. w.to - 1 : Painted(w)[at] = "available"

\* An absence that touches the time is seen at some instant.
LEMMA AbsenceIsPainted ==
  ASSUME TypeOK, NEW w \in Windows, WithinOneDay(w), profile.policy = "legacy_rules",
         AbsenceTouches(w)
  PROVE  ~PaintedAvailable(w)
<1>0. w \in Span /\ w.from \in Int /\ w.to \in Int /\ w.from < w.to
  BY Times DEF Span, Windows
<1>1. PICK row \in Loaded(w) : exceptions[row].type # "available_override"
  BY QueryMeans
<1> DEFINE e == exceptions[row]
           l == Layer(TimeOf(e), w, ShownBy(e), Priority[e.type])
<1>2. row \in Stored /\ e \in Exceptions
  BY DEF Loaded, Stored, TypeOK
<1>3. OfException(l, w, row)
  BY DEF OfException
<1>4. Overlaps(TimeOf(e), w) /\ TimeOf(e) \in Span /\ TimeOf(e).from < TimeOf(e).to
  <2>1. Overlaps(TimeOf(e), w) /\ TimeOf(e) \in Span
    BY <1>0, <1>2, WithinOverlaps, Times DEF Loaded
  <2>2. CASE e \in Timed
    BY <2>1, <2>2 DEF Timed, TimeOf, Windows
  <2>3. CASE e \in AllDays
    <3>1. e.kind = "all_day" /\ e.date \in Int
      BY <2>3, Constants DEF AllDays, Dates
    <3>2. /\ Midnight(e.date + 1) = Midnight(e.date) + SlotsPerDay /\ SlotsPerDay \in Nat \ {0}
          /\ Midnight(e.date) \in Int
      BY <3>1, NextMidnight, DateOrder
    <3>3. Midnight(e.date) < Midnight(e.date + 1)
      BY <3>2
    <3>4. QED
      BY <2>1, <3>1, <3>3 DEF TimeOf, WholeDay
  <2>4. QED
    BY <1>2, <2>1, <2>2, <2>3 DEF Exceptions
<1>5. l.from = Clipped(TimeOf(e), w).from /\ l.to = Clipped(TimeOf(e), w).to
  BY DEF Layer
<1> HIDE DEF l
<1>6. /\ l.from \in Int /\ l.to \in Int /\ w.from <= l.from /\ l.to <= w.to
      /\ l.order \in 1 .. 5 /\ l.order # 1
  BY <1>1, <1>3, ExceptionLayer
<1>7. l.from < l.to
  BY <1>0, <1>4, <1>5, ClippedTime
<1>8. l \in Layers(w)
  BY <1>3, <1>7, LayerSources
<1>9. l.from \in w.from .. w.to - 1 /\ l \in Covering(w, l.from)
  BY <1>0, <1>6, <1>7, <1>8 DEF Covering
<1>10. PICK m \in Covering(w, l.from) :
         Painted(w)[l.from] = m.status /\ \A n \in Covering(w, l.from) : n.order <= m.order
  BY <1>9, PaintedLast
<1>11. m \in Layers(w) /\ l.order <= m.order
  BY <1>9, <1>10 DEF Covering
<1>12. m.order \in Int /\ m.order >= 2
  BY <1>6, <1>11, LayersPaintable DEF Paintable
<1>13. PICK other \in Loaded(w) : OfException(m, w, other)
  <2>1. \A r \in rules : OfRule(m, w, r) => m.order < 0
    BY RuleLayer
  <2>2. QED
    BY <1>11, <1>12, <2>1, LayerSources
<1>14. m.status = "unavailable"
  BY <1>12, <1>13, ExceptionLayer DEF ShownBy
<1>15. QED
  BY <1>9, <1>10, <1>14 DEF PaintedAvailable

\* Without one, whatever covers the time shows: an override, or the one rule that
\* can cover an instant of it.
LEMMA CoverIsPainted ==
  ASSUME TypeOK, NEW w \in Windows, WithinOneDay(w), profile.policy # "assumed_available",
         profile.policy = "legacy_rules" => ~AbsenceTouches(w),
         OverrideCovers(w) \/ (profile.policy = "legacy_rules" /\ RuleCovers(w))
  PROVE  PaintedAvailable(w)
<1> SUFFICES ASSUME NEW at \in w.from .. w.to - 1 PROVE Painted(w)[at] = "available"
  BY DEF PaintedAvailable
<1>0. w.from \in Int /\ w.to \in Int /\ at \in Int /\ profile.policy \in Policies
  BY Times DEF Span, TypeOK
<1>1. ASSUME NEW row \in Loaded(w), NEW l, OfException(l, w, row)
      PROVE  l.order = 1 /\ l.status = "available"
  <2>1. exceptions[row].type = "available_override"
    BY <1>0, <1>1, QueryMeans DEF OfException, Policies
  <2>2. QED
    BY <1>1, <2>1, ExceptionLayer DEF ShownBy
<1>2. ASSUME NEW c \in Covering(w, at),
             \A r \in rules : \A l \in Covering(w, at) :
               (OfRule(l, w, r) /\ c.order <= l.order) => l.status = "available"
      PROVE  Painted(w)[at] = "available"
  <2>1. PICK l \in Covering(w, at) :
          Painted(w)[at] = l.status /\ \A n \in Covering(w, at) : n.order <= l.order
    BY <1>2, PaintedLast
  <2>2. l \in Layers(w) /\ c.order <= l.order
    BY <2>1 DEF Covering
  <2>3. CASE \E r \in rules : OfRule(l, w, r)
    BY <1>2, <2>1, <2>2, <2>3
  <2>4. CASE \E row \in Loaded(w) : OfException(l, w, row)
    BY <1>1, <2>1, <2>4
  <2>5. QED
    BY <2>2, <2>3, <2>4, LayerSources
<1>3. CASE OverrideCovers(w)
  <2>1. PICK c \in Covering(w, at) : c.order = 1
    BY <1>3, QueryMeans, CoverIsLayer
  <2>2. \A r \in rules : \A l : OfRule(l, w, r) => l.order \in Int /\ l.order < 0
    BY RuleLayer
  <2>3. \A r \in rules : \A l : OfRule(l, w, r) => ~(c.order <= l.order)
    BY <2>1, <2>2
  <2>4. QED
    BY <1>2, <2>3
<1>4. CASE profile.policy = "legacy_rules" /\ RuleCovers(w)
  <2>1. PICK r \in rules : r.status = "available" /\ r.date = DateOf(w.from) /\ Covers(RuleSpan(r), w)
    BY <1>4, QueryMeans
  <2>2. PICK c \in Covering(w, at) : OfRule(c, w, r)
    BY <1>4, <2>1, CoverIsLayer
  <2>3. ASSUME NEW s \in rules, NEW l \in Covering(w, at), OfRule(l, w, s)
        PROVE  s = r
    <3>1. /\ RuleSpan(s).from <= at /\ at < RuleSpan(s).to
          /\ RuleSpan(r).from <= at /\ at < RuleSpan(r).to
      BY <2>2, <2>3, RuleLayer DEF Covering
    <3>2. s.date = r.date
      <4>1. s.date \in DateOf(w.from) .. DateOf(w.to - 1)
        BY <2>3 DEF OfRule
      <4>2. DateOf(w.to - 1) <= DateOf(w.to) /\ DateOf(w.from) = DateOf(w.to)
        <5>1. /\ DateOf(w.to) \in Int /\ DateOf(w.to - 1) \in Int
              /\ Midnight(DateOf(w.to - 1)) \in Int /\ Midnight(DateOf(w.to - 1)) <= w.to - 1
          BY <1>0, DateOrder
        <5>2. Midnight(DateOf(w.to - 1)) <= w.to
          BY <1>0, <5>1
        <5>3. QED
          BY <1>0, <5>1, <5>2, DateOrder DEF WithinOneDay
      <4>3. DateOf(w.to) \in Int /\ DateOf(w.to - 1) \in Int
        BY <1>0, DateOrder
      <4>4. QED
        BY <2>1, <4>1, <4>2, <4>3
    <3>3. PICK m \in Int, a \in Int, b \in Int, c1 \in Int, d \in Int :
            m = Midnight(r.date) /\ a = s.start /\ b = s.end /\ c1 = r.start /\ d = r.end
      BY RuleTimes DEF TypeOK
    <3>4. m + a <= at /\ at < m + b /\ m + c1 <= at /\ at < m + d
      BY <3>1, <3>2, <3>3 DEF RuleSpan
    <3>5. ~(b <= c1) /\ ~(d <= a)
      BY <1>0, <3>4
    <3>6. QED
      BY <3>2, <3>3, <3>5 DEF TypeOK
  <2>4. ASSUME NEW s \in rules, NEW l \in Covering(w, at), OfRule(l, w, s)
        PROVE  l.status = "available"
    BY <2>1, <2>3, <2>4, RuleLayer
  <2>5. QED
    BY <1>2, <2>2, <2>4
<1>5. QED
  BY <1>3, <1>4

\* The service and the query agree on every time within one day, whatever rules,
\* exceptions and policies were edited in whatever order: what the query accepts
\* is painted available throughout, and what is painted available the query
\* accepts if one row covers it.
THEOREM EvaluatorsAlwaysAgree == Spec => []EvaluatorsAgree
<1>1. TypeOK => EvaluatorsAgree
  <2> SUFFICES ASSUME TypeOK, NEW w \in Windows, WithinOneDay(w)
               PROVE  SqlAvailable(w) <=> ServiceAvailable(w) /\ OneRowCovers(w)
    BY DEF EvaluatorsAgree
  <2>0. /\ w.from \in Int /\ w.to \in Int /\ w.from < w.to
        /\ profile.policy \in Policies /\ profile.active \in BOOLEAN
    BY Times DEF Span, Windows, TypeOK
  <2>1. CASE ~profile.active
    <3>1. Resolve(w)[w.from] = "unavailable"
      BY <2>0, <2>1 DEF Resolve
    <3>2. ~ServiceAvailable(w)
      BY <2>0, <3>1 DEF ServiceAvailable
    <3>3. QED
      BY <2>1, <3>2 DEF SqlAvailable
  <2>2. CASE profile.active /\ profile.policy = "assumed_available"
    <3>1. ServiceAvailable(w)
      BY <2>2 DEF ServiceAvailable, Resolve
    <3>2. QED
      BY <2>2, <3>1 DEF SqlAvailable, OneRowCovers
  <2>3. CASE profile.active /\ profile.policy # "assumed_available"
    <3>1. ServiceAvailable(w) <=> PaintedAvailable(w)
      <4>1. Resolve(w) = Painted(w)
        BY <2>3 DEF Resolve
      <4>2. QED
        BY <4>1 DEF ServiceAvailable, PaintedAvailable
    <3>2. SqlAvailable(w) => PaintedAvailable(w) /\ OneRowCovers(w)
      <4>1. SqlAvailable(w) => OneRowCovers(w)
        BY DEF SqlAvailable, OneRowCovers
      <4>2. SqlAvailable(w) =>
              /\ profile.policy = "legacy_rules" => ~AbsenceTouches(w)
              /\ OverrideCovers(w) \/ (profile.policy = "legacy_rules" /\ RuleCovers(w))
        BY <2>3 DEF SqlAvailable
      <4>3. QED
        BY <2>3, <4>1, <4>2, CoverIsPainted
    <3>3. PaintedAvailable(w) /\ OneRowCovers(w) => SqlAvailable(w)
      <4>1. PaintedAvailable(w) => (profile.policy = "legacy_rules" => ~AbsenceTouches(w))
        BY AbsenceIsPainted
      <4>2. QED
        BY <2>0, <2>3, <4>1 DEF SqlAvailable, OneRowCovers, Policies
    <3>4. QED
      BY <3>1, <3>2, <3>3
  <2>4. QED
    BY <2>0, <2>1, <2>2, <2>3
<1>2. QED
  BY <1>1, AvailabilityTypeCorrect, PTL
=============================================================================
