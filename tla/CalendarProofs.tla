--------------------------- MODULE CalendarProofs ---------------------------
(***************************************************************************)
(* Scheduling implements Calendar: what the transactions do to tables and  *)
(* rows is, seen through BookingOf, a step of the calendar.                *)
(***************************************************************************)
EXTENDS SchedulingProofs

Bookings == [a \in Appointments |-> BookingOf(a)]

Sound == TypeOK /\ RowsSound

-----------------------------------------------------------------------------
(* Bookings that a step does not touch *)

\* A booking only depends on the plan of its appointment, on its rows and on the
\* exclusive flags of what it reserves.
LEMMA BookingKept ==
  ASSUME NEW a \in Appointments, SamePlan(appointments[a], appointments'[a]),
         RowsOf(driverRows', a) = RowsOf(driverRows, a),
         RowsOf(resourceRows', a) = RowsOf(resourceRows, a),
         ReservingNow(a) => \A row \in RowsOf(resourceRows, a) :
           resources'[row.resource].exclusive = resources[row.resource].exclusive
  PROVE  BookingOf(a)' = BookingOf(a)
<1>1. /\ ReservingNow(a)' = ReservingNow(a)
      /\ From(appointments'[a]) = From(appointments[a])
      /\ To(appointments'[a]) = To(appointments[a])
  BY DEF SamePlan, ReservingNow, From, To
<1>2. CrewOf(a)' = CrewOf(a) /\ EquipmentOf(a)' = EquipmentOf(a)
  BY DEF CrewOf, EquipmentOf
<1>3. ReservingNow(a) => \A e \in EquipmentOf(a) :
        resources'[e.resource].exclusive = resources[e.resource].exclusive
  BY DEF EquipmentOf
<1>4. ReservingNow(a) => ExclusiveEquipmentOf(a)' = ExclusiveEquipmentOf(a)
  BY <1>2, <1>3 DEF ExclusiveEquipmentOf
<1>5. QED
  BY <1>1, <1>2, <1>4 DEF BookingOf

\* Rewriting the rows of one appointment leaves those of the others.
LEMMA OtherRefreshed ==
  ASSUME NEW drows, NEW rrows, NEW a, NEW ap, NEW exclusive, NEW b, a # b
  PROVE  /\ RowsOf(RefreshDrivers(drows, a, ap), b) = RowsOf(drows, b)
         /\ RowsOf(RefreshResources(rrows, a, ap, exclusive), b) = RowsOf(rrows, b)
<1>1. \A row \in {DriverRow(a, ap, r.driver) : r \in RowsOf(drows, a)} : row.appointment = a
  BY DEF DriverRow
<1>2. \A row \in {ResourceRow(a, ap, r.resource, r.purpose, exclusive[r.resource]) :
                    r \in RowsOf(rrows, a)} : row.appointment = a
  BY DEF ResourceRow
<1>3. RowsOf(RefreshDrivers(drows, a, ap), b) = RowsOf(drows, b)
  <2> DEFINE new == {DriverRow(a, ap, r.driver) : r \in RowsOf(drows, a)}
  <2>1. RefreshDrivers(drows, a, ap) = RowsOfOthers(drows, a) \cup new
    BY DEF RefreshDrivers
  <2>2. \A row \in new : row.appointment = a
    BY <1>1
  <2> HIDE DEF new
  <2>3. QED
    BY <2>1, <2>2 DEF RowsOf, RowsOfOthers
<1>4. RowsOf(RefreshResources(rrows, a, ap, exclusive), b) = RowsOf(rrows, b)
  <2> DEFINE new == {ResourceRow(a, ap, r.resource, r.purpose, exclusive[r.resource]) :
                       r \in RowsOf(rrows, a)}
  <2>1. RefreshResources(rrows, a, ap, exclusive) = RowsOfOthers(rrows, a) \cup new
    BY DEF RefreshResources
  <2>2. \A row \in new : row.appointment = a
    BY <1>2
  <2> HIDE DEF new
  <2>3. QED
    BY <2>1, <2>2 DEF RowsOf, RowsOfOthers
<1>5. QED
  BY <1>3, <1>4

\* Refreshing the rows of an appointment keeps its crew and its equipment.
LEMMA TeamRefreshed ==
  ASSUME NEW drows, NEW rrows, NEW a, NEW ap, NEW exclusive
  PROVE  /\ {row.driver : row \in RowsOf(RefreshDrivers(drows, a, ap), a)} =
              {row.driver : row \in RowsOf(drows, a)}
         /\ {[resource |-> row.resource, purpose |-> row.purpose] :
               row \in RowsOf(RefreshResources(rrows, a, ap, exclusive), a)} =
              {[resource |-> row.resource, purpose |-> row.purpose] : row \in RowsOf(rrows, a)}
<1>1. RowsOf(RefreshDrivers(drows, a, ap), a) = {DriverRow(a, ap, r.driver) : r \in RowsOf(drows, a)}
  BY DEF RefreshDrivers, RowsOf, RowsOfOthers, DriverRow
<1>2. RowsOf(RefreshResources(rrows, a, ap, exclusive), a) =
        {ResourceRow(a, ap, r.resource, r.purpose, exclusive[r.resource]) : r \in RowsOf(rrows, a)}
  BY DEF RefreshResources, RowsOf, RowsOfOthers, ResourceRow
<1>3. \A d : DriverRow(a, ap, d).driver = d
  BY DEF DriverRow
<1>4. \A e, purpose, x : /\ ResourceRow(a, ap, e, purpose, x).resource = e
                        /\ ResourceRow(a, ap, e, purpose, x).purpose = purpose
  BY DEF ResourceRow
<1>5. QED
  BY <1>1, <1>2, <1>3, <1>4

\* Saving an appointment, with or without a new team, touches no other booking.
LEMMA SaveElsewhere ==
  ASSUME TypeOK, NEW a \in Appointments, NEW ap,
         Save(a, ap) \/ \E team : SaveTeam(a, ap, team), UNCHANGED resources,
         NEW b \in Appointments, b # a
  PROVE  BookingOf(b)' = BookingOf(b)
<1>1. appointments' = [appointments EXCEPT ![a] = ap]
  BY DEF Save, SaveTeam, Write
<1>2. SamePlan(appointments[b], appointments'[b])
  BY <1>1 DEF SamePlan, TypeOK
<1>3. /\ RowsOf(driverRows', b) = RowsOf(driverRows, b)
      /\ RowsOf(resourceRows', b) = RowsOf(resourceRows, b)
  <2>1. CASE Save(a, ap)
    BY <2>1, OtherRefreshed DEF Save, Write
  <2>2. ASSUME NEW team, SaveTeam(a, ap, team)
        PROVE  /\ RowsOf(driverRows', b) = RowsOf(driverRows, b)
               /\ RowsOf(resourceRows', b) = RowsOf(resourceRows, b)
    <3> DEFINE drows == {DriverRow(a, ap, d) : d \in team.drivers}
               rrows == {ResourceRow(a, ap, e.resource, e.purpose, Exclusive[e.resource]) :
                           e \in team.equipment}
    <3>1. /\ driverRows' = RowsOfOthers(driverRows, a) \cup drows
          /\ resourceRows' = RowsOfOthers(resourceRows, a) \cup rrows
      BY <2>2 DEF SaveTeam, Write
    <3>2. \A row \in drows : row.appointment = a
      BY DEF DriverRow
    <3>3. \A row \in rrows : row.appointment = a
      BY DEF ResourceRow
    <3> HIDE DEF drows, rrows
    <3>4. QED
      BY <3>1, <3>2, <3>3 DEF RowsOf, RowsOfOthers
  <2>3. QED
    BY <2>1, <2>2
<1>4. QED
  BY <1>2, <1>3, BookingKept

-----------------------------------------------------------------------------
(* Steps of the calendar *)

\* Sound rows allow no clash of bookings.
LEMMA SoundMeansClashFree == Sound => Promises!ClashFree
<1> SUFFICES ASSUME Sound, NEW a \in Appointments, NEW b \in Appointments, a # b,
                    Promises!Clash(BookingOf(a), BookingOf(b))
             PROVE  FALSE
  BY DEF Promises!ClashFree
<1>1. ReservingNow(a) /\ ReservingNow(b)
  BY DEF Promises!Clash, BookingOf
<1>2. /\ From(appointments[a]) < To(appointments[b])
      /\ From(appointments[b]) < To(appointments[a])
  BY <1>1 DEF Promises!Clash, BookingOf
<1>3. \/ CrewOf(a) \cap CrewOf(b) # {}
      \/ ExclusiveEquipmentOf(a) \cap ExclusiveEquipmentOf(b) # {}
  BY <1>1 DEF Promises!Clash, BookingOf
<1>4. SharesDriver(a, b) \/ SharesExclusiveResource(a, b)
  BY <1>3 DEF SharesDriver, SharesExclusiveResource, ExclusiveEquipmentOf
<1>5. Disjoint(a, b)
  BY <1>1, <1>4, SoundParts, SoundMeansDisjoint DEF Sound
<1>6. appointments[a] \in Appointment /\ appointments[b] \in Appointment
  BY DEF Sound, TypeOK
<1>7. /\ From(appointments[a]) \in Int /\ To(appointments[a]) \in Int
      /\ From(appointments[b]) \in Int /\ To(appointments[b]) \in Int
  BY <1>6 DEF From, To, Appointment
<1>8. QED
  BY <1>2, <1>5, <1>7 DEF Disjoint

\* A step that touches one booking at most is a step of the calendar.
LEMMA OneBookingStep ==
  ASSUME Sound', NEW a \in Appointments,
         \A b \in Appointments : b # a => BookingOf(b)' = BookingOf(b)
  PROVE  [Promises!Next]_Bookings
<1>1. Promises!ClashFree'
  BY SoundMeansClashFree, PTL
<1>2. Promises!OthersKept({a})
  BY DEF Promises!OthersKept
<1>3. CASE ReservingNow(a) /\ ReservingNow(a)'
  <2>1. Promises!Rebook(a)
    BY <1>2, <1>3 DEF Promises!Rebook, Promises!Taken, BookingOf
  <2>2. QED
    BY <2>1, <1>1 DEF Promises!Next
<1>4. CASE ReservingNow(a) /\ ~ReservingNow(a)'
  <2>1. Promises!Release(a)
    BY <1>2, <1>4 DEF Promises!Release, Promises!Taken, BookingOf
  <2>2. QED
    BY <2>1, <1>1 DEF Promises!Next
<1>5. CASE ~ReservingNow(a) /\ ReservingNow(a)'
  <2>1. Promises!Book({a})
    BY <1>2, <1>5 DEF Promises!Book, Promises!Taken, BookingOf
  <2>2. QED
    BY <2>1, <1>1 DEF Promises!Next
<1>6. CASE ~ReservingNow(a) /\ ~ReservingNow(a)'
  <2>1. ReservingNow(a) = FALSE /\ ReservingNow(a)' = FALSE
    BY <1>6 DEF ReservingNow, Reserving
  <2>2. BookingOf(a)' = BookingOf(a)
    BY <2>1 DEF BookingOf
  <2>3. QED
    BY <2>2 DEF Bookings
<1>7. QED
  BY <1>3, <1>4, <1>5, <1>6

\* A step that touches no booking is none of the calendar.
LEMMA NoBookingStep ==
  ASSUME \A b \in Appointments : BookingOf(b)' = BookingOf(b)
  PROVE  UNCHANGED Bookings
BY DEF Bookings

\* So is one that leaves rows and flags alone and moves no appointment.
LEMMA QuietStep ==
  ASSUME UNCHANGED <<driverRows, resourceRows>>,
         \A a \in Appointments : SamePlan(appointments[a], appointments'[a]),
         \A a \in Appointments : \A row \in RowsOf(resourceRows, a) :
           ReservingNow(a) => resources'[row.resource].exclusive = resources[row.resource].exclusive
  PROVE  UNCHANGED Bookings
BY BookingKept, NoBookingStep

\* An appointment that keeps its life, team and length keeps all of its booking
\* but the time, and a free one stays free.
LEMMA ShiftedBooking ==
  ASSUME NEW a \in Appointments, UNCHANGED resources,
         appointments'[a].life = appointments[a].life,
         CrewOf(a)' = CrewOf(a), EquipmentOf(a)' = EquipmentOf(a)
  PROVE  /\ ~ReservingNow(a) => BookingOf(a)' = BookingOf(a)
         /\ ReservingNow(a) =>
              /\ BookingOf(a).held /\ BookingOf(a)'.held
              /\ BookingOf(a)'.crew = BookingOf(a).crew
              /\ BookingOf(a)'.equipment = BookingOf(a).equipment
              /\ BookingOf(a).from = From(appointments[a])
              /\ BookingOf(a).to = To(appointments[a])
              /\ BookingOf(a)'.from = From(appointments'[a])
              /\ BookingOf(a)'.to = To(appointments'[a])
<1>1. /\ ReservingNow(a) <=> Reserving(appointments[a].life)
      /\ ReservingNow(a)' <=> Reserving(appointments[a].life)
  BY DEF ReservingNow
<1>2. ExclusiveEquipmentOf(a)' = ExclusiveEquipmentOf(a)
  BY DEF ExclusiveEquipmentOf
<1>3. CASE ~ReservingNow(a)
  <2>1. ReservingNow(a) = FALSE /\ ReservingNow(a)' = FALSE
    BY <1>1, <1>3 DEF ReservingNow, Reserving
  <2>2. QED
    BY <2>1, <1>3 DEF BookingOf
<1>4. CASE ReservingNow(a)
  BY <1>1, <1>2, <1>4 DEF BookingOf
<1>5. QED
  BY <1>3, <1>4

-----------------------------------------------------------------------------
(* The steps of Scheduling *)

\* Every transaction of the appointment store is a step of the calendar.
LEMMA CommitIsBooking ==
  ASSUME Sound, Sound', NEW c \in Clients, Commit(c)
  PROVE  [Promises!Next]_Bookings
<1> DEFINE call == calls[c]
<1>0. CallsTyped /\ appointments \in [Appointments -> Appointment]
  BY DEF Sound, TypeOK, CallsTyped
<1>a. \A op : Take(c, op) => call.op = op
  BY DEF Take
<1>b. ASSUME NEW a \in Appointments, NEW ap, UNCHANGED resources,
             Save(a, ap) \/ \E team : SaveTeam(a, ap, team)
      PROVE  [Promises!Next]_Bookings
  BY <1>b, SaveElsewhere, OneBookingStep DEF Sound
<1>1. ASSUME NEW a \in Appointments, CommitPlan(c, a) PROVE [Promises!Next]_Bookings
  BY <1>1, <1>b DEF CommitPlan, staff
<1>2. ASSUME CommitAssign(c) PROVE [Promises!Next]_Bookings
  <2>1. Take(c, "assign") /\ UNCHANGED resources /\ \E ap, team : SaveTeam(call.id, ap, team)
    BY <1>2 DEF CommitAssign, staff
  <2>2. QED
    BY <2>1, <1>0, <1>a, <1>b, CallFields
<1>3. ASSUME \/ CommitPropose(c) \/ CommitCancel(c) \/ CommitReopen(c) \/ CommitComplete(c)
             \/ \E reachable \in BOOLEAN : CommitReschedule(c, reachable) \/ CommitFix(c, reachable)
      PROVE  [Promises!Next]_Bookings
  <2>1. /\ \E op \in {"propose", "cancel", "reopen", "complete", "reschedule", "fix"} : Take(c, op)
        /\ UNCHANGED resources
        /\ \E ap : Save(call.id, ap)
    BY <1>3 DEF CommitPropose, CommitCancel, CommitReopen, CommitComplete, CommitReschedule,
                CommitFix, staff
  <2>2. QED
    BY <2>1, <1>0, <1>a, <1>b, CallFields
<1>4. ASSUME CommitSwap(c) PROVE [Promises!Next]_Bookings
  <2>1. PICK a \in Appointments, b \in Appointments : call.id = a /\ call.other = b
    BY <1>4, <1>0, <1>a, CallFields DEF CommitSwap
  <2> DEFINE first == [Bumped(appointments[a]) EXCEPT !.start = appointments[b].start]
             second == [Bumped(appointments[b]) EXCEPT !.start = appointments[a].start]
             drows == RefreshDrivers(driverRows, a, first)
             rrows == RefreshResources(resourceRows, a, first, Exclusive)
  <2>2. /\ appointments' = [appointments EXCEPT ![a] = first, ![b] = second]
        /\ driverRows' = RefreshDrivers(drows, b, second)
        /\ resourceRows' = RefreshResources(rrows, b, second, Exclusive)
        /\ UNCHANGED resources
    BY <1>4, <2>1 DEF CommitSwap, Write, staff
  <2>3. appointments[a] \in Appointment /\ appointments[b] \in Appointment
    BY <1>0
  <2>4. ASSUME NEW d \in Appointments, d # a, d # b PROVE BookingOf(d)' = BookingOf(d)
    <3>1. /\ RowsOf(driverRows', d) = RowsOf(driverRows, d)
          /\ RowsOf(resourceRows', d) = RowsOf(resourceRows, d)
      BY <2>2, <2>4, OtherRefreshed
    <3>2. SamePlan(appointments[d], appointments'[d])
      BY <2>2, <2>4, <1>0 DEF SamePlan
    <3>3. QED
      BY <3>1, <3>2, <2>2, BookingKept
  <2>5. ASSUME a = b PROVE [Promises!Next]_Bookings
    BY <2>4, <2>5, OneBookingStep
  <2>6. ASSUME a # b PROVE [Promises!Next]_Bookings
    <3>1. /\ appointments'[a] = first /\ appointments'[b] = second
      BY <2>2, <2>6, <1>0
    <3>2. /\ first.life = appointments[a].life /\ second.life = appointments[b].life
          /\ To(first) - From(first) = To(appointments[a]) - From(appointments[a])
          /\ To(second) - From(second) = To(appointments[b]) - From(appointments[b])
      BY <2>3 DEF Bumped, From, To, Appointment
    <3> HIDE DEF first, second
    <3>3. /\ RowsOf(driverRows', a) = RowsOf(drows, a)
          /\ RowsOf(resourceRows', a) = RowsOf(rrows, a)
          /\ RowsOf(drows, b) = RowsOf(driverRows, b)
          /\ RowsOf(rrows, b) = RowsOf(resourceRows, b)
      BY <2>2, <2>6, OtherRefreshed
    <3>4. CrewOf(a)' = CrewOf(a) /\ EquipmentOf(a)' = EquipmentOf(a)
      <4>1. /\ {row.driver : row \in RowsOf(drows, a)} = {row.driver : row \in RowsOf(driverRows, a)}
            /\ {[resource |-> row.resource, purpose |-> row.purpose] : row \in RowsOf(rrows, a)} =
                 {[resource |-> row.resource, purpose |-> row.purpose] : row \in RowsOf(resourceRows, a)}
        BY TeamRefreshed
      <4> HIDE DEF drows, rrows
      <4>2. QED
        BY <4>1, <3>3 DEF CrewOf, EquipmentOf
    <3>5. CrewOf(b)' = CrewOf(b) /\ EquipmentOf(b)' = EquipmentOf(b)
      <4>1. /\ {row.driver : row \in RowsOf(driverRows', b)} = {row.driver : row \in RowsOf(driverRows, b)}
            /\ {[resource |-> row.resource, purpose |-> row.purpose] : row \in RowsOf(resourceRows', b)} =
                 {[resource |-> row.resource, purpose |-> row.purpose] : row \in RowsOf(resourceRows, b)}
        BY <2>2, <3>3, TeamRefreshed
      <4>2. QED
        BY <4>1 DEF CrewOf, EquipmentOf
    <3> HIDE DEF drows, rrows
    <3>6. CASE ReservingNow(a) /\ ReservingNow(b)
      <4>1. Promises!OthersKept({a, b})
        BY <2>4 DEF Promises!OthersKept
      <4>2. \A x \in {a, b} :
              /\ BookingOf(x).held /\ BookingOf(x)'.held
              /\ BookingOf(x)'.crew = BookingOf(x).crew
              /\ BookingOf(x)'.equipment = BookingOf(x).equipment
              /\ BookingOf(x)'.to - BookingOf(x)'.from = BookingOf(x).to - BookingOf(x).from
        BY <2>2, <3>1, <3>2, <3>4, <3>5, <3>6, ShiftedBooking
      <4>3. Promises!Exchange(a, b)
        BY <4>1, <4>2 DEF Promises!Exchange, Promises!Taken
      <4>4. Promises!ClashFree'
        BY SoundMeansClashFree, PTL
      <4>5. QED
        BY <4>3, <4>4 DEF Promises!Next
    <3>7. CASE ~ReservingNow(a)
      <4>1. BookingOf(a)' = BookingOf(a)
        BY <2>2, <3>1, <3>2, <3>4, <3>7, ShiftedBooking
      <4>2. QED
        BY <4>1, <2>4, OneBookingStep
    <3>8. CASE ~ReservingNow(b)
      <4>1. BookingOf(b)' = BookingOf(b)
        BY <2>2, <3>1, <3>2, <3>5, <3>8, ShiftedBooking
      <4>2. QED
        BY <4>1, <2>4, OneBookingStep
    <3>9. QED
      BY <3>6, <3>7, <3>8
  <2>7. QED
    BY <2>5, <2>6
<1>5. QED
  BY <1>1, <1>2, <1>3, <1>4, Commit(c) DEF Commit

\* Editing staff, jobs and answers changes no booking, nor does a draft.
LEMMA RestIsQuiet ==
  ASSUME Sound, Sound', ManageStaff \/ ManageJobs \/ Confirm
  PROVE  [Promises!Next]_Bookings
<1>0. appointments \in [Appointments -> Appointment]
  BY DEF Sound, TypeOK
<1>1. ASSUME ManageStaff PROVE UNCHANGED Bookings
  <2>1. UNCHANGED bookings
    BY <1>1 DEF ManageStaff, DeactivateDriver, UpdateDriver, ChangeAvailability, UpdateResource,
                DeactivateResource
  <2>2. \A a \in Appointments : SamePlan(appointments[a], appointments'[a])
    BY <2>1 DEF bookings, SamePlan
  <2>3. ASSUME NEW a \in Appointments, NEW row \in RowsOf(resourceRows, a), ReservingNow(a)
        PROVE  resources'[row.resource].exclusive = resources[row.resource].exclusive
    <3>1. row \in resourceRows /\ row.appointment = a /\ row.resource \in Resources
      BY DEF RowsOf, Sound, TypeOK, ResourceReservation
    <3>2. row = ResourceRow(a, appointments[a], row.resource, row.purpose, row.exclusive)
      BY <3>1 DEF Sound, RowsSound, ResourcesAgree
    <3>3. row.active
      BY <2>3, <3>2 DEF ResourceRow, ReservingNow
    <3>4. ResourceReserved(row.resource)
      BY <3>1, <3>3, <2>3 DEF ResourceReserved, Holds, ReservingNow
    <3>5. ASSUME NEW r \in Resources, NEW edit \in Edits, UpdateResource(r, edit)
          PROVE  resources'[row.resource].exclusive = resources[row.resource].exclusive
      BY <3>1, <3>4, <3>5 DEF UpdateResource, Sound, TypeOK
    <3>6. ASSUME NEW r \in Resources, DeactivateResource(r)
          PROVE  resources'[row.resource].exclusive = resources[row.resource].exclusive
      BY <3>1, <3>6 DEF DeactivateResource, Sound, TypeOK
    <3>7. QED
      BY <1>1, <3>5, <3>6 DEF ManageStaff, DeactivateDriver, UpdateDriver, ChangeAvailability
  <2>4. QED
    BY <2>1, <2>2, <2>3, QuietStep DEF bookings
<1>2. ASSUME NEW a \in Appointments, NEW j \in Jobs, NEW start, NEW dur, NEW buffer,
             CreateDraft(a, j, start, dur, buffer)
      PROVE  [Promises!Next]_Bookings
  <2>1. /\ UNCHANGED <<driverRows, resourceRows, resources>>
        /\ appointments' = [appointments EXCEPT ![a] = NewAppointment(j, start, dur, buffer)]
    BY <1>2 DEF CreateDraft, Write, staff
  <2>2. ASSUME NEW b \in Appointments, b # a PROVE BookingOf(b)' = BookingOf(b)
    <3>1. SamePlan(appointments[b], appointments'[b])
      BY <2>1, <2>2, <1>0 DEF SamePlan
    <3>2. QED
      BY <2>1, <3>1, BookingKept
  <2>3. QED
    BY <2>2, OneBookingStep
<1>3. ASSUME NEW j \in Jobs, NEW data, UpdateJob(j, data) PROVE UNCHANGED Bookings
  <2>1. UNCHANGED <<driverRows, resourceRows, resources>>
    BY <1>3 DEF UpdateJob, staff
  <2>2. ASSUME NEW a \in Appointments PROVE SamePlan(appointments[a], appointments'[a])
    <3>1. \/ appointments'[a] = [Bumped(appointments[a]) EXCEPT !.conf = "not_requested"]
          \/ appointments'[a] = appointments[a]
      BY <1>3 DEF UpdateJob
    <3>2. QED
      BY <3>1, <1>0 DEF SamePlan, Bumped, Appointment
  <2>3. QED
    BY <2>1, <2>2, QuietStep
<1>4. ASSUME NEW j \in Jobs, ArchiveJob(j) \/ RemoveWaitlist(j) PROVE UNCHANGED Bookings
  <2>1. UNCHANGED <<bookings, resources>>
    BY <1>4 DEF ArchiveJob, RemoveWaitlist, staff
  <2>2. QED
    BY <2>1, QuietStep DEF bookings, SamePlan
<1>5. ASSUME Confirm PROVE UNCHANGED Bookings
  <2>1. UNCHANGED <<driverRows, resourceRows, resources>>
    BY <1>5 DEF Confirm, Respond, ResetResponse, Reissue, Expire, bookings, staff
  <2>2. ASSUME NEW a \in Appointments, NEW conf, SetConfirmation(a, conf)
        PROVE  \A b \in Appointments : SamePlan(appointments[b], appointments'[b])
    BY <2>2, <1>0 DEF SetConfirmation, SamePlan, Bumped, Appointment
  <2>3. ASSUME NEW a \in Appointments, Reissue(a)
        PROVE  \A b \in Appointments : SamePlan(appointments[b], appointments'[b])
    BY <2>3, <1>0 DEF Reissue, SamePlan, Bumped, WithConfirmation, Appointment
  <2>4. ASSUME NEW a \in Appointments, NEW i, Expire(a, i)
        PROVE  \A b \in Appointments : SamePlan(appointments[b], appointments'[b])
    BY <2>4 DEF Expire, bookings, SamePlan
  <2>5. \A b \in Appointments : SamePlan(appointments[b], appointments'[b])
    BY <2>2, <2>3, <2>4, <1>5 DEF Confirm, Respond, ResetResponse
  <2>6. QED
    BY <2>1, <2>5, QuietStep
<1>6. QED
  BY <1>1, <1>2, <1>3, <1>4, <1>5 DEF ManageJobs

\* A step of Scheduling is a step of the calendar or none.
LEMMA StepIsBooking == Sound /\ Sound' /\ [Next]_vars => [Promises!Next]_Bookings
<1> SUFFICES ASSUME Sound, Sound', [Next]_vars PROVE [Promises!Next]_Bookings
  OBVIOUS
<1>a. UNCHANGED <<bookings, resources>> => UNCHANGED Bookings
  BY QuietStep DEF bookings, SamePlan
<1>1. ASSUME NEW c \in Clients, Submit(c) \/ Fail(c) PROVE UNCHANGED Bookings
  BY <1>1, <1>a, SubmitIsQuiet DEF Fail, staff
<1>2. CASE UNCHANGED vars
  BY <1>2, <1>a DEF vars, staff
<1>3. QED
  BY <1>1, <1>2, CommitIsBooking, RestIsQuiet DEF Next

\* At first nothing is booked.
LEMMA InitIsFree == Init => Promises!Init
<1> SUFFICES ASSUME Init, NEW a \in Appointments PROVE BookingOf(a) = Promises!Free
  BY DEF Promises!Init
<1>1. ReservingNow(a) = FALSE
  BY DEF Init, NoAppointment, ReservingNow, Reserving
<1>2. QED
  BY <1>1 DEF BookingOf, Promises!Free

\* The appointment service with its races, tables and rows implements the
\* calendar: it books, rebooks, releases and exchanges, one booking at a time
\* and never into a clash.
THEOREM CalendarImplemented == Spec => CalendarKept
<1>1. Init => Sound /\ Promises!Init
  BY InitTyped, InitSound, InitIsFree DEF Sound
<1>2. Sound /\ [Next]_vars => Sound'
  BY NextTyped, NextSound DEF Sound
<1>3. Sound /\ Sound' /\ [Next]_vars => [Promises!Next]_Bookings
  BY StepIsBooking
<1>4. QED
  BY <1>1, <1>2, <1>3, PTL DEF Spec, CalendarKept, Promises!Spec, Bookings
=============================================================================
