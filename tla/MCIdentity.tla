----------------------------- MODULE MCIdentity -----------------------------
(***************************************************************************)
(* A small instance of Identity.                                           *)
(***************************************************************************)
EXTENDS Identity, TLC

CONSTANTS u1, u2, e1, e2

\* One edit deactivates the administrator who logs in, one demotes the other one.
DeactivateOrDemote ==
  (e1 :> {[user |-> u1, role |-> "admin", active |-> FALSE]}) @@
  (e2 :> {[user |-> u2, role |-> "driver", active |-> TRUE]})

\* Login requests are alike.
Symmetry == Permutations(Logins)
=============================================================================
