-------------------------- MODULE IntakeCoordinator --------------------------
(***************************************************************************)
(* The background coordinator of src/coordinator.rs over the intake queue: *)
(* one thread per coordinator claims a job, runs its adapter as a child    *)
(* process, follows the child's output line by line, and records the       *)
(* result.  Windows queue and retry jobs meanwhile.  A coordinator may die *)
(* at any step and be started again; two may serve one database file (two  *)
(* workspaces, or a window that reopens the file).                         *)
(*                                                                         *)
(* The two second poll and the wake-up channel are left out: both only     *)
(* bring an idle coordinator back to its claim.                            *)
(***************************************************************************)
EXTENDS Naturals, FiniteSets

CONSTANTS Callers, Jobs, Sources, Contents, CaseOf, MaxAttempt, Times,
          StaleViews, ExclusiveOwner, OneSpelling,
          Coordinators,   \* the connections that are coordinator threads
          StoreMayRefuse  \* can a write meet a database that stays locked?

ASSUME JobsAssumption == Jobs \subseteq Nat
ASSUME AttemptAssumption == MaxAttempt \in Nat \ {0}
ASSUME CoordinatorsAssumption == Coordinators \subseteq Callers
ASSUME StoreMayRefuseAssumption == StoreMayRefuse \in BOOLEAN

VARIABLES state, attempt, dir, request, created, progress,
          sources, locations, artifacts, call,
  pc,     \* where each coordinator is in drain_queue and execute_job
  held,   \* the job row each coordinator read when it claimed
  child   \* the adapter process and its log: see Children

Queue == INSTANCE IntakeQueue

Windows == Callers \ Coordinators

jobVars == <<state, attempt, dir, request, created, progress>>
evidenceVars == <<sources, locations, artifacts>>
queueVars == <<jobVars, evidenceVars, call>>
vars == <<queueVars, pc, held, child>>

Steps == {"off", "idle", "claimed", "starting", "streaming", "exited",
          "marking", "validating", "committing", "failing", "recording"}

\* "sound" and "unsound" both exited with success: the result file of the
\* first passes every check of commit_intake_result on its own.
Children == {"none", "logged", "running", "killed", "failed", "sound", "unsound"}
Exits == {"failed", "sound", "unsound"}

Holds == [job : Jobs, dir : 0 .. MaxAttempt, attempt : 0 .. MaxAttempt]
NoHold == [job |-> 0, dir |-> 0, attempt |-> 0]

Init ==
  /\ Queue!Init
  /\ pc = [c \in Coordinators |-> "off"]
  /\ held = [c \in Coordinators |-> NoHold]
  /\ child = [c \in Coordinators |-> "none"]

\* c goes from one step to another; what happens to the adapter is said apart.
Goto(c, from, to) == pc[c] = from /\ pc' = [pc EXCEPT ![c] = to]

\* The calls a coordinator makes while it keeps its job.
Keeps(c, from, to) == Goto(c, from, to) /\ UNCHANGED held

----------------------------------------------------------------------------
(* IntakeCoordinator::start: recover whatever is marked active, then serve. *)

\* Mutant: rows left active by an earlier process stay active.
StartWithoutRecovery(c) ==
  /\ Goto(c, "off", "idle")
  /\ UNCHANGED <<queueVars, held, child>>

Start(c) ==
  /\ Goto(c, "off", "idle")
  /\ Queue!RecoverInterrupted
  /\ UNCHANGED <<held, child>>

\* The claim is one transaction; the row is read again after its commit.
Claim(c, j) ==
  /\ Goto(c, "idle", "claimed")
  /\ Queue!ClaimNext(j)
  /\ held' = [held EXCEPT ![c] = [job |-> j, dir |-> 0, attempt |-> 0]]
  /\ UNCHANGED child

ReadClaimed(c) ==
  /\ Goto(c, "claimed", "starting")
  /\ LET j == held[c].job
     IN held' = [held EXCEPT ![c] = [job |-> j, dir |-> dir[j], attempt |-> attempt[j]]]
  /\ UNCHANGED <<queueVars, child>>

----------------------------------------------------------------------------
(* execute_job: the attempt directory, the log file, then the child.        *)

Spawn(c) ==
  /\ Keeps(c, "starting", "streaming")
  /\ child' = [child EXCEPT ![c] = "running"]
  /\ UNCHANGED queueVars

SpawnFails(c) ==
  /\ Keeps(c, "starting", "failing")
  /\ \E log \in {"none", "logged"} : child' = [child EXCEPT ![c] = log]
  /\ UNCHANGED queueVars

\* A well formed line for this job, and the row still says running.
EventAccepted(c) ==
  /\ pc[c] = "streaming"
  /\ Queue!UpdateProgress(held[c].job, held[c].attempt)
  /\ UNCHANGED <<pc, held, child>>

EventRefused(c) ==
  /\ Keeps(c, "streaming", "failing")
  /\ state[held[c].job] # "running"
  /\ child' = [child EXCEPT ![c] = "killed"]
  /\ UNCHANGED queueVars

\* A malformed line, or one that names another job.
EventMalformed(c) ==
  /\ Keeps(c, "streaming", "failing")
  /\ child' = [child EXCEPT ![c] = "killed"]
  /\ UNCHANGED queueVars

\* A line that is not UTF-8 ends the job and leaves its adapter running.
LineUnreadable(c) == Keeps(c, "streaming", "failing") /\ UNCHANGED <<queueVars, child>>

ChildExits(c, exit) ==
  /\ Keeps(c, "streaming", "exited")
  /\ child' = [child EXCEPT ![c] = exit]
  /\ UNCHANGED queueVars

\* The log is registered before the exit status is looked at.
ReadResult(c) ==
  /\ Keeps(c, "exited", "marking")
  /\ child[c] \in {"sound", "unsound"}
  /\ Queue!RegisterLog(held[c].job, held[c].dir)
  /\ UNCHANGED child

NoResult(c) ==
  /\ Keeps(c, "exited", "failing")
  /\ child[c] \in {"failed", "unsound"}
  /\ Queue!RegisterLog(held[c].job, held[c].dir)
  /\ UNCHANGED child

Mark(c) ==
  /\ Keeps(c, "marking", "validating")
  /\ Queue!MarkImporting(held[c].job)
  /\ UNCHANGED child

MarkRefused(c) ==
  /\ Keeps(c, "marking", "failing")
  /\ state[held[c].job] # "running"
  /\ UNCHANGED <<queueVars, child>>

\* The manifest lists the log as well: execute_job pushes it.
Validate(c) ==
  /\ Keeps(c, "validating", "committing")
  /\ child[c] = "sound"
  /\ Queue!CommitValidate(c, held[c].job, held[c].dir, TRUE)
  /\ UNCHANGED child

ValidateRefused(c) ==
  /\ Keeps(c, "validating", "failing")
  /\ \/ child[c] = "unsound"
     \/ state[held[c].job] # "importing"
     \/ ~ Queue!Confined(held[c].job, held[c].dir)
  /\ UNCHANGED <<queueVars, child>>

Release(c) ==
  /\ held' = [held EXCEPT ![c] = NoHold]
  /\ child' = [child EXCEPT ![c] = "none"]

Commit(c) ==
  /\ pc[c] = "committing"
  /\ \/ Queue!CommitImport(c) /\ Goto(c, "committing", "idle") /\ Release(c)
     \/ Queue!CommitRefused(c) /\ Keeps(c, "committing", "failing") /\ UNCHANGED child

----------------------------------------------------------------------------
(* drain_queue: what follows an error.  Both calls' own errors are dropped. *)

RegisterFailureLog(c) ==
  /\ Keeps(c, "failing", "recording")
  /\ IF child[c] = "none"
     THEN UNCHANGED queueVars
     ELSE Queue!RegisterLog(held[c].job, held[c].dir)
  /\ UNCHANGED child

\* Mutant: the failure is written whatever became of the row.
RecordInAnyState(c) ==
  /\ Goto(c, "recording", "idle")
  /\ Release(c)
  /\ state' = [state EXCEPT ![held[c].job] = "failed"]
  /\ UNCHANGED <<attempt, dir, request, created, progress, evidenceVars, call>>

\* Mutant: a failed job goes back to the queue by itself.
Requeue(c) ==
  /\ Goto(c, "recording", "idle")
  /\ Release(c)
  /\ state' = [state EXCEPT ![held[c].job] = "queued"]
  /\ UNCHANGED <<attempt, dir, request, created, progress, evidenceVars, call>>

RecordFailure(c) ==
  /\ Goto(c, "recording", "idle")
  /\ Release(c)
  /\ IF state[held[c].job] \in Queue!Active
     THEN Queue!FailJob(held[c].job)
     ELSE UNCHANGED queueVars

\* The database stays locked past the busy timeout: the call at hand fails.
Refusable == {"exited", "marking", "validating", "committing"}

StoreRefuses(c) ==
  /\ StoreMayRefuse
  /\ pc[c] \in Refusable
  /\ pc' = [pc EXCEPT ![c] = "failing"]
  /\ call' = [call EXCEPT ![c] = Queue!NoCall]
  /\ UNCHANGED <<jobVars, evidenceVars, held, child>>

\* Neither the row just claimed nor the failure to record is tried again.
Abandon(c) ==
  /\ StoreMayRefuse
  /\ Goto(c, "claimed", "idle") \/ Goto(c, "recording", "idle")
  /\ Release(c)
  /\ UNCHANGED queueVars

\* The process dies; SQLite rolls back whatever was not committed.
Crash(c) ==
  /\ pc[c] # "off"
  /\ pc' = [pc EXCEPT ![c] = "off"]
  /\ Release(c)
  /\ call' = [call EXCEPT ![c] = Queue!NoCall]
  /\ UNCHANGED <<jobVars, evidenceVars>>

----------------------------------------------------------------------------

Window(w) ==
  /\ \/ \E j \in Jobs, r \in Queue!Requests : Queue!EnqueueCheck(w, j, r)
     \/ \E t \in Times : Queue!EnqueueInsert(w, t)
     \/ Queue!EnqueueRefused(w)
  /\ UNCHANGED <<pc, held, child>>

RetryFromWindow ==
  /\ \E j \in Jobs, d \in Queue!Attempts : Queue!Retry(j, d)
  /\ UNCHANGED <<pc, held, child>>

Execute(c) ==
  \/ \E j \in Jobs : Claim(c, j)
  \/ ReadClaimed(c)
  \/ Spawn(c) \/ SpawnFails(c)
  \/ EventAccepted(c) \/ EventRefused(c) \/ EventMalformed(c) \/ LineUnreadable(c)
  \/ \E exit \in Exits : ChildExits(c, exit)
  \/ ReadResult(c) \/ NoResult(c)
  \/ Mark(c) \/ MarkRefused(c)
  \/ Validate(c) \/ ValidateRefused(c)
  \/ Commit(c)
  \/ RegisterFailureLog(c) \/ RecordFailure(c)

Next ==
  \/ \E c \in Coordinators :
       Start(c) \/ Execute(c) \/ StoreRefuses(c) \/ Abandon(c) \/ Crash(c)
  \/ \E w \in Windows : Window(w)
  \/ RetryFromWindow

Spec == Init /\ [][Next]_vars

\* A thread that runs goes on running, and an adapter's output ends: the code
\* has no timeout of its own, so this is what it relies on.
Fairness ==
  \A c \in Coordinators :
    /\ WF_vars(\E j \in Jobs : Claim(c, j))
    /\ WF_vars(ReadClaimed(c))
    /\ WF_vars(Spawn(c) \/ SpawnFails(c))
    /\ WF_vars(\/ EventRefused(c) \/ EventMalformed(c) \/ LineUnreadable(c)
               \/ \E exit \in Exits : ChildExits(c, exit))
    /\ WF_vars(ReadResult(c) \/ NoResult(c))
    /\ WF_vars(Mark(c) \/ MarkRefused(c))
    /\ WF_vars(Validate(c) \/ ValidateRefused(c))
    /\ WF_vars(Commit(c))
    /\ WF_vars(RegisterFailureLog(c))
    /\ WF_vars(RecordFailure(c))

FairSpec == Spec /\ Fairness

----------------------------------------------------------------------------
(* Properties.                                                             *)

TypeOK ==
  /\ Queue!TypeOK
  /\ pc \in [Coordinators -> Steps]
  /\ held \in [Coordinators -> Holds \cup {NoHold}]
  /\ child \in [Coordinators -> Children]

\* Every step of the coordinator is a call of the store, or none of its
\* business: nothing is written to the queue's tables behind the store's back.
ImplementsQueue == Queue!Spec

Works(c) == pc[c] \notin {"off", "idle"}
Runs(c) == Works(c) /\ pc[c] # "claimed"

\* "Whether a process/import currently owns this database's GPU slot": while a
\* coordinator serves, a row it finds active is one a coordinator is working on.
ActiveIsOwned ==
  (\E c \in Coordinators : pc[c] # "off") =>
    \A j \in Jobs :
      state[j] \in Queue!Active => \E c \in Coordinators : Works(c) /\ held[c].job = j

\* "Application exited before the adapter reached a terminal state": no
\* coordinator is still following the adapter of an interrupted attempt.  It
\* does not hold: a coordinator started beside another one calls its attempt
\* interrupted.
InterruptedHasExited ==
  \A j \in Jobs, c \in Coordinators :
    state[j] = "interrupted" => ~ (Runs(c) /\ held[c].job = j /\ held[c].attempt = attempt[j])

\* "Queue a new immutable attempt after failure or interruption": a failure is
\* recorded for the attempt that failed.  It does not hold between two
\* coordinators: an attempt called interrupted while it ran fails when its retry
\* is running.
FailuresAreOwn ==
  [][\A c \in Coordinators :
       pc[c] = "recording" /\ pc'[c] = "idle" /\ state' # state =>
         held[c].attempt = attempt[held[c].job]]_vars

\* An adapter's sound result for a job nobody else has touched is imported: it
\* is never turned into a failure by the coordinator's own bookkeeping.
SoundResultIsImported ==
  \A c \in Coordinators :
    LET j == held[c].job
    IN pc[c] = "failing" /\ child[c] = "sound" =>
         \/ state[j] # "importing"
         \/ ~ Queue!Importable(request[j].source, request[j].content)
         \/ Queue!MayCollide([job |-> j])

\* A coordinator that stays up settles every queued job, one failing job after
\* another: the queue is never blocked behind a job that cannot be imported.
QueuedIsSettled ==
  \A j \in Jobs :
    (\E c \in Coordinators : <>[](pc[c] # "off")) =>
      (state[j] = "queued" ~> state[j] \in Queue!Retryable \cup {"completed"})
=============================================================================
