--------------------------- MODULE MCIntakeQueue ---------------------------
(* Small instances of the intake queue for TLC.                            *)
EXTENDS IntakeQueue, TLC

MCJobs == {1, 2}
MCOneSecond == {1}

\* Every original in a case of its own.
MCOwnCases == [c \in Contents |-> c]

\* Connections, source identifiers and contents are interchangeable; job
\* identifiers are not, a claim compares them.
MCSymmetry ==
  Permutations(Callers) \cup Permutations(Sources) \cup Permutations(Contents)
=============================================================================
