------------------------------ MODULE Calendar ------------------------------
(***************************************************************************)
(* What the calendar promises, without rows, versions, jobs or requests:   *)
(* every appointment is either free or holds a crew and equipment for one  *)
(* stretch of time, and no two appointments hold the same driver or the    *)
(* same machine at the same time.  Bookings change one at a time, except   *)
(* that one step may book several appointments (a route) or exchange the   *)
(* times of two.                                                           *)
(***************************************************************************)
EXTENDS Integers

CONSTANT Owners

VARIABLE booking

Free == [held |-> FALSE, crew |-> {}, equipment |-> {}, from |-> 0, to |-> 0]
Taken(a) == booking[a].held

Clash(b, c) ==
  /\ b.held /\ c.held
  /\ b.crew \cap c.crew # {} \/ b.equipment \cap c.equipment # {}
  /\ b.from < c.to /\ c.from < b.to

ClashFree == \A a, b \in Owners : a # b => ~Clash(booking[a], booking[b])

OthersKept(owners) == \A a \in Owners \ owners : booking'[a] = booking[a]

Init == booking = [a \in Owners |-> Free]

Book(owners) ==
  /\ \A a \in owners : ~Taken(a) /\ Taken(a)'
  /\ OthersKept(owners)

Rebook(a) == Taken(a) /\ Taken(a)' /\ OthersKept({a})

Release(a) == Taken(a) /\ ~Taken(a)' /\ OthersKept({a})

\* Both keep their teams and their lengths.
Exchange(a, b) ==
  /\ \A c \in {a, b} :
       /\ Taken(c) /\ Taken(c)'
       /\ booking'[c].crew = booking[c].crew
       /\ booking'[c].equipment = booking[c].equipment
       /\ booking'[c].to - booking'[c].from = booking[c].to - booking[c].from
  /\ OthersKept({a, b})

Next ==
  /\ \/ \E owners \in SUBSET Owners : Book(owners)
     \/ \E a \in Owners : Rebook(a) \/ Release(a)
     \/ \E a, b \in Owners : Exchange(a, b)
  /\ ClashFree'

Spec == Init /\ [][Next]_booking
=============================================================================
