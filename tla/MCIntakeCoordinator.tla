------------------------ MODULE MCIntakeCoordinator ------------------------
(* Small instances of the coordinator for TLC.                             *)
EXTENDS IntakeCoordinator, TLC

MCJobs == {1, 2}
MCOneSecond == {1}

\* Every original in a case of its own.
MCOwnCases == [c \in Contents |-> c]

MCSymmetry == Permutations(Sources) \cup Permutations(Contents)
MCPairSymmetry == MCSymmetry \cup Permutations(Coordinators)
=============================================================================
