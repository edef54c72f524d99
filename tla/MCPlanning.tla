----------------------------- MODULE MCPlanning -----------------------------
(***************************************************************************)
(* Small instances of Planning.                                            *)
(***************************************************************************)
EXTENDS Planning, TLC

CONSTANTS c1, d1, r1, a1, a2, j1, j2, g1, t1, t2

NoBuffers == {[before |-> 0, after |-> 0]}
Chipping(r) == [resource |-> r, purpose |-> "chipping"]
Chipper == [type |-> "chipper", exclusive |-> TRUE]
OneTeam == {[drivers |-> {d1}, equipment |-> {Chipping(r1)}]}
OneChipper == (r1 :> Chipper)

Data(transport, minutes) == [transport |-> transport, minutes |-> minutes, volume |-> 1]

\* Two of one run and two routes compete for one driver, while jobs change and an
\* absence is entered and withdrawn.
PlanningData == {Data("none", 1), Data("none", 2)}
NoCalls == <<>>
PlanningAmbient == {"updateJob", "changeAvailability"}
PlanningAbsences == {{0}, {}}

\* A client plans while a run is being computed.
OvertakingData == {Data("none", 1)}
OvertakingCalls == (c1 :> {"plan"})

Same == Permutations(Appointments) \cup Permutations(Routes)
=============================================================================
