--------------------------- MODULE MCAvailability ---------------------------
(***************************************************************************)
(* Availability for TLC: the rows of the exceptions are interchangeable.   *)
(***************************************************************************)
EXTENDS Availability, TLC

RowSymmetry == Permutations(Rows)
=============================================================================
