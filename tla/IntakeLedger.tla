---------------------------- MODULE IntakeLedger ----------------------------
(***************************************************************************)
(* What the intake queue promises, without tables, calls or attempts: a    *)
(* job waits, is worked on, and either stops (and may wait again) or       *)
(* delivers its original, which enters the evidence in the very step that  *)
(* ends the job, once, and never leaves it.                                *)
(***************************************************************************)
CONSTANTS Jobs, Contents

VARIABLES
  phase,     \* per job: absent, waiting, working, stopped or delivered
  bringing,  \* per job: the content it is for
  bringers   \* per content: the jobs that delivered it, never more than one

vars == <<phase, bringing, bringers>>

Init ==
  /\ phase = [j \in Jobs |-> "absent"]
  /\ bringing = [j \in Jobs |-> "none"]
  /\ bringers = [c \in Contents |-> {}]

Submit(j, c) ==
  /\ phase[j] = "absent"
  /\ phase' = [phase EXCEPT ![j] = "waiting"]
  /\ bringing' = [bringing EXCEPT ![j] = c]
  /\ UNCHANGED bringers

Begin(j) ==
  /\ phase[j] = "waiting"
  /\ phase' = [phase EXCEPT ![j] = "working"]
  /\ UNCHANGED <<bringing, bringers>>

\* One job fails, or a restart stops every job being worked on.
Stop(S) ==
  /\ S # {}
  /\ \A j \in S : phase[j] = "working"
  /\ phase' = [j \in Jobs |-> IF j \in S THEN "stopped" ELSE phase[j]]
  /\ UNCHANGED <<bringing, bringers>>

Resubmit(j) ==
  /\ phase[j] = "stopped"
  /\ phase' = [phase EXCEPT ![j] = "waiting"]
  /\ UNCHANGED <<bringing, bringers>>

Deliver(j) ==
  /\ phase[j] = "working"
  /\ bringers[bringing[j]] = {}
  /\ phase' = [phase EXCEPT ![j] = "delivered"]
  /\ bringers' = [bringers EXCEPT ![bringing[j]] = {j}]
  /\ UNCHANGED bringing

\* Every step of the ledger moves a job.
Next ==
  /\ phase' # phase
  /\ \/ \E j \in Jobs, c \in Contents : Submit(j, c)
     \/ \E j \in Jobs : Begin(j) \/ Resubmit(j) \/ Deliver(j)
     \/ \E S \in SUBSET Jobs : Stop(S)

Spec == Init /\ [][Next]_vars
=============================================================================
