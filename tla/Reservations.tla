---------------------------- MODULE Reservations ----------------------------
(***************************************************************************)
(* The reservation rows of PostgreSQL: appointment_drivers and             *)
(* appointment_resources repeat, for every driver and resource of an       *)
(* appointment, the buffered range of that appointment and whether it      *)
(* reserves.  The exclusion constraints of the schema look at these rows   *)
(* and at nothing else, so an appointment whose rows were not refreshed is *)
(* invisible to them.                                                      *)
(*                                                                         *)
(* An appointment is a record with at least the fields life, start, dur,   *)
(* before and after; time is counted in whole slots.                       *)
(***************************************************************************)
EXTENDS Integers

Reserving(life) == life \in {"proposal", "fixed"}

From(ap) == ap.start - ap.before
To(ap) == ap.start + ap.dur + ap.after

DriverRow(a, ap, d) ==
  [appointment |-> a, driver |-> d,
   active |-> Reserving(ap.life), from |-> From(ap), to |-> To(ap)]

ResourceRow(a, ap, r, purpose, exclusive) ==
  [appointment |-> a, resource |-> r, purpose |-> purpose, exclusive |-> exclusive,
   active |-> Reserving(ap.life), from |-> From(ap), to |-> To(ap)]

RowsOf(rows, a) == {row \in rows : row.appointment = a}
RowsOfOthers(rows, a) == {row \in rows : row.appointment # a}

\* Rows rewritten from the appointment, as both Refresh... queries do.
RefreshDrivers(rows, a, ap) ==
  RowsOfOthers(rows, a) \cup {DriverRow(a, ap, row.driver) : row \in RowsOf(rows, a)}

\* Seeded fault: the refresh leaves the exclusive flag as it was inserted.
RefreshedRanges(rows, a, ap, exclusive) ==
  RowsOfOthers(rows, a) \cup
    {ResourceRow(a, ap, row.resource, row.purpose, row.exclusive) : row \in RowsOf(rows, a)}

RefreshResources(rows, a, ap, exclusive) ==
  RowsOfOthers(rows, a) \cup
    {ResourceRow(a, ap, row.resource, row.purpose, exclusive[row.resource]) :
       row \in RowsOf(rows, a)}

\* Seeded fault: two ranges that begin together are not seen to overlap.
OverlapAfterBegin(r, s) == r.from < s.from /\ s.from < r.to

\* reserved_range is half open: back-to-back appointments do not collide.
Overlap(r, s) == r.from < s.to /\ s.from < r.to

\* EXCLUDE USING gist (driver_id WITH =, reserved_range WITH &&) WHERE (active)
DriverExclusion(rows) ==
  \A r, s \in rows :
    (r # s /\ r.driver = s.driver /\ r.active /\ s.active) => ~Overlap(r, s)

\* EXCLUDE USING gist (resource_id WITH =, reserved_range WITH &&) WHERE (active AND exclusive)
ResourceExclusion(rows) ==
  \A r, s \in rows :
    (/\ r # s /\ r.resource = s.resource
     /\ r.active /\ r.exclusive /\ s.active /\ s.exclusive) => ~Overlap(r, s)
=============================================================================
