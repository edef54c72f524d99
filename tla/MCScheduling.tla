---------------------------- MODULE MCScheduling ----------------------------
(***************************************************************************)
(* Small instances of Scheduling, one group of definitions per question.   *)
(* A run turns on the operations its question is about.                    *)
(***************************************************************************)
EXTENDS SchedulingSafety, TLC

CONSTANTS c1, c2, d1, d2, r1, r2, a1, a2, j1, j2

NoBuffers == {[before |-> 0, after |-> 0]}
TravelBuffers == {[before |-> 0, after |-> 1]}

Chipping(r) == [resource |-> r, purpose |-> "chipping"]
Transporting(r) == [resource |-> r, purpose |-> "transport"]
Chipper == [type |-> "chipper", exclusive |-> TRUE]
Truck == [type |-> "transport_vehicle", exclusive |-> TRUE]

Data(transport, minutes, volume) ==
  [transport |-> transport, minutes |-> minutes, volume |-> volume]

PlainData == {Data("none", 1, 1)}
OneTeam == {[drivers |-> {d1}, equipment |-> {Chipping(r1)}]}
OneChipper == (r1 :> Chipper)
ChipperAndTruck == (r1 :> Chipper) @@ (r2 :> Truck)

\* Two clients race for one driver and one chipper, whose exclusive flag is edited;
\* nobody gives a reason, so that a fixed appointment can only be cancelled by a race.
RaceCalls == (c1 :> {"plan", "reschedule", "fix"}) @@ (c2 :> {"propose", "swap", "cancel", "reopen"})
RaceAmbient == {"createDraft", "updateResource"}
RaceEdits == {[type |-> "chipper", exclusive |-> e] : e \in BOOLEAN}

\* One appointment, the answers of its customer and edits of its job.
AnswerCalls == (c1 :> {"plan", "reschedule", "fix", "cancel", "reopen", "complete"})
AnswerAmbient == {"updateJob", "respond", "resetResponse", "reissue", "expire"}
TwoVolumes == {Data("none", 1, 1), Data("none", 1, 2)}

\* Drivers and resources change while one appointment is planned.
StaffCalls == (c1 :> {"plan", "assign", "fix", "cancel", "reopen", "complete"})
StaffAmbient ==
  {"deactivateDriver", "updateDriver", "changeAvailability", "updateResource",
   "deactivateResource"}
StaffTeams ==
  {[drivers |-> {d1}, equipment |-> {Chipping(r1), Transporting(r2)}],
   [drivers |-> {d1, d2}, equipment |-> {Chipping(r1), Transporting(r2)}]}
StaffEdits == {[type |-> "other", exclusive |-> TRUE]}
HauledData == {Data("internal", 1, 1)}
OneAbsence == {{0}}

\* One job and two appointments for it, one after the other.
JobCalls == (c1 :> {"plan", "assign", "propose", "fix", "cancel", "reopen", "complete"})
JobAmbient == {"createDraft", "updateJob", "archiveJob", "removeWaitlist"}
JobKinds == {Data("none", 1, 1), Data("internal", 1, 1), Data("none", 2, 1)}

\* A job is archived while an administrator works on its draft.
ArchiveCalls == (c1 :> {"assign", "propose"})
ArchiveAmbient == {"createDraft", "archiveJob"}

\* Which identity an appointment gets does not matter.
SameAppointments == Permutations(Appointments)
=============================================================================
