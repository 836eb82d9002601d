---------------------------- MODULE IntakeQueue ----------------------------
(***************************************************************************)
(* The persistent intake queue of the evidence store: the tables           *)
(* intake_jobs, intake_artifacts and source_locations, the identity        *)
(* columns of sources, and the calls of src/store.rs that write them.      *)
(*                                                                         *)
(* Several connections (the windows, the coordinator threads, the command  *)
(* line) call the store at once.  A call that checks first and writes      *)
(* later (enqueue_intake_job, commit_intake_result) is two steps here, and *)
(* `call' remembers what the first one saw; a call that is one SQL         *)
(* statement, or one guarded by its own WHERE clause, is one step.  A call *)
(* the store refuses changes nothing and is not a step of its own.         *)
(***************************************************************************)
EXTENDS Naturals, FiniteSets

CONSTANTS
  Callers,        \* connections to the database file
  Jobs,           \* intake job identifiers, compared by ORDER BY ..., id
  Sources,        \* source identifiers
  Contents,       \* a case and the SHA-256 of an original in it
  CaseOf,         \* per content, the case it is in
  MaxAttempt,     \* bound: how often one job is tried
  Times,          \* bound: the seconds CURRENT_TIMESTAMP can return
  StaleViews,     \* may a window retry from a row read before the last attempt?
  ExclusiveOwner, \* is a job left alone by others while its commit is in flight?
  OneSpelling     \* is the SHA-256 of an original always written the same way?

ASSUME JobsAssumption == Jobs \subseteq Nat
ASSUME TimesAssumption == Times \subseteq Nat
ASSUME AttemptAssumption == MaxAttempt \in Nat \ {0}
ASSUME ContentsAssumption == "none" \notin Contents
ASSUME FlagsAssumption ==
  StaleViews \in BOOLEAN /\ ExclusiveOwner \in BOOLEAN /\ OneSpelling \in BOOLEAN

VARIABLES
  state,      \* intake_jobs.state, "absent" where there is no row
  attempt,    \* intake_jobs.attempt
  dir,        \* intake_jobs.artifact_dir: the number of the attempt directory
  request,    \* source_id and original identity of intake_jobs.request_json
  created,    \* intake_jobs.created_at
  progress,   \* the attempt whose adapter wrote the progress columns, or 0
  sources,    \* sources: the content each source identifier names
  locations,  \* source_locations.source_id
  artifacts,  \* intake_artifacts: job, attempt directory and kind
  call        \* per connection: the call between its checks and its write

jobVars == <<state, attempt, dir, request, created, progress>>
evidenceVars == <<sources, locations, artifacts>>
vars == <<jobVars, evidenceVars, call>>

States == {"queued", "running", "importing", "completed", "failed", "interrupted"}
Active == {"running", "importing"}
Retryable == {"failed", "interrupted"}

Attempts == 1 .. MaxAttempt
Kinds == {"log", "batch"}
Requests == [source : Sources, content : Contents]
NoRequest == [source |-> "none", content |-> "none"]
NoContent == "none"

NoCall == [op |-> "none"]
EnqueueCalls == [op : {"enqueue"}, job : Jobs, request : Requests]
CommitCalls == [op : {"commit"}, job : Jobs, dir : Attempts, log : BOOLEAN]

Present == {j \in Jobs : state[j] # "absent"}

Init ==
  /\ state = [j \in Jobs |-> "absent"]
  /\ attempt = [j \in Jobs |-> 0]
  /\ dir = [j \in Jobs |-> 0]
  /\ request = [j \in Jobs |-> NoRequest]
  /\ created = [j \in Jobs |-> 0]
  /\ progress = [j \in Jobs |-> 0]
  /\ sources = [s \in Sources |-> NoContent]
  /\ locations = {}
  /\ artifacts = {}
  /\ call = [w \in Callers |-> NoCall]

----------------------------------------------------------------------------
(* enqueue_intake_job: the duplicate checks, then one INSERT.              *)

IsImported(c) == \E s \in Sources : sources[s] = c

HasLiveJob(c) ==
  \E k \in Jobs : state[k] \in Active \cup {"queued", "completed"} /\ request[k].content = c

EnqueueCheck(w, j, r) ==
  /\ call[w] = NoCall
  /\ state[j] = "absent"
  /\ ~ IsImported(r.content)
  /\ ~ HasLiveJob(r.content)
  /\ call' = [call EXCEPT ![w] = [op |-> "enqueue", job |-> j, request |-> r]]
  /\ UNCHANGED <<jobVars, evidenceVars>>

\* The primary key and UNIQUE(case_id, source_id) of intake_jobs: the jobs of
\* two cases may propose one source identifier.
RowIsFree(j, r) ==
  /\ state[j] = "absent"
  /\ \A k \in Present :
       request[k].source = r.source => CaseOf[request[k].content] # CaseOf[r.content]

\* A row's creation second is never before the one of an earlier row.
IsNow(t) == \A k \in Present : created[k] <= t

EnqueueInsert(w, t) ==
  /\ call[w].op = "enqueue"
  /\ IsNow(t)
  /\ LET j == call[w].job
         r == call[w].request
     IN /\ RowIsFree(j, r)
        /\ state' = [state EXCEPT ![j] = "queued"]
        /\ attempt' = [attempt EXCEPT ![j] = 1]
        /\ dir' = [dir EXCEPT ![j] = 1]
        /\ request' = [request EXCEPT ![j] = r]
        /\ created' = [created EXCEPT ![j] = t]
  /\ call' = [call EXCEPT ![w] = NoCall]
  /\ UNCHANGED <<progress, evidenceVars>>

EnqueueRefused(w) ==
  /\ call[w].op = "enqueue"
  /\ ~ RowIsFree(call[w].job, call[w].request)
  /\ call' = [call EXCEPT ![w] = NoCall]
  /\ UNCHANGED <<jobVars, evidenceVars>>

----------------------------------------------------------------------------
(* The calls that move a job along.                                        *)

\* ORDER BY created_at, id
Before(i, j) == created[i] < created[j] \/ (created[i] = created[j] /\ i < j)

IsOldestQueued(j) ==
  /\ state[j] = "queued"
  /\ \A k \in Jobs : state[k] = "queued" /\ k # j => Before(j, k)

ClaimNext(j) ==
  /\ IsOldestQueued(j)
  /\ state' = [state EXCEPT ![j] = "running"]
  /\ progress' = [progress EXCEPT ![j] = 0]
  /\ UNCHANGED <<attempt, dir, request, created, evidenceVars, call>>

\* `a' is the attempt whose adapter printed the event; the statement matches
\* the event to the row by job identifier and by state alone.
UpdateProgress(j, a) ==
  /\ state[j] = "running"
  /\ progress' = [progress EXCEPT ![j] = a]
  /\ UNCHANGED <<state, attempt, dir, request, created, evidenceVars, call>>

MarkImporting(j) ==
  /\ state[j] = "running"
  /\ state' = [state EXCEPT ![j] = "importing"]
  /\ UNCHANGED <<attempt, dir, request, created, progress, evidenceVars, call>>

FailJob(j) ==
  /\ state[j] \in Active
  /\ state' = [state EXCEPT ![j] = "failed"]
  /\ UNCHANGED <<attempt, dir, request, created, progress, evidenceVars, call>>

RecoverInterrupted ==
  /\ state' = [j \in Jobs |-> IF state[j] \in Active THEN "interrupted" ELSE state[j]]
  /\ UNCHANGED <<attempt, dir, request, created, progress, evidenceVars, call>>

\* A window rewrites nothing of the request but its directory, which it names
\* from the row it shows: perhaps the row of an earlier failed attempt.
RetryDirs(j) == IF StaleViews THEN 2 .. attempt[j] + 1 ELSE {attempt[j] + 1}

Retry(j, d) ==
  /\ state[j] \in Retryable
  /\ attempt[j] < MaxAttempt
  /\ d \in RetryDirs(j)
  /\ state' = [state EXCEPT ![j] = "queued"]
  /\ attempt' = [attempt EXCEPT ![j] = @ + 1]
  /\ dir' = [dir EXCEPT ![j] = d]
  /\ progress' = [progress EXCEPT ![j] = 0]
  /\ UNCHANGED <<request, created, evidenceVars, call>>

RegisterLog(j, d) ==
  /\ state[j] # "absent"
  /\ artifacts' = artifacts \cup {<<j, d, "log">>}
  /\ UNCHANGED <<jobVars, sources, locations, call>>

----------------------------------------------------------------------------
(* commit_intake_result: the file and identity checks, then one            *)
(* transaction over all four tables.                                       *)

\* The manifest is confined to the directory the row names at this moment.
Confined(j, d) == dir[j] = d

CommitValidate(w, j, d, log) ==
  /\ call[w] = NoCall
  /\ state[j] = "importing"
  /\ Confined(j, d)
  /\ call' = [call EXCEPT ![w] = [op |-> "commit", job |-> j, dir |-> d, log |-> log]]
  /\ UNCHANGED <<jobVars, evidenceVars>>

\* UNIQUE(case_id, sha256) compares the hexadecimal text as it is written; the
\* hash of a batch may be written in either case.
Repeats(c) == OneSpelling /\ IsImported(c)

\* import_normalized_tx: a held source must match, a new one must not repeat
\* the content of another.
Importable(s, c) ==
  \/ sources[s] = c
  \/ sources[s] = NoContent /\ ~ Repeats(c)

\* Mutant: the UPDATE inside the transaction does not ask for the state.
CommitInAnyState(m) ==
  /\ Importable(request[m.job].source, request[m.job].content)
  /\ request[m.job].source \notin locations
  /\ m.log => <<m.job, m.dir, "log">> \notin artifacts

CommitAccepted(m) ==
  /\ state[m.job] = "importing"
  /\ Importable(request[m.job].source, request[m.job].content)
  /\ request[m.job].source \notin locations
  /\ m.log => <<m.job, m.dir, "log">> \notin artifacts

\* Mutant: the path of a source is written by a relink alone.
CommitWithoutLocation(m) ==
  LET r == request[m.job]
      kinds == {"batch"} \cup (IF m.log THEN {"log"} ELSE {})
  IN /\ sources' = [sources EXCEPT ![r.source] = r.content]
     /\ artifacts' = artifacts \cup {<<m.job, m.dir, k>> : k \in kinds}
     /\ state' = [state EXCEPT ![m.job] = "completed"]
     /\ UNCHANGED <<attempt, dir, request, created, progress, locations>>

\* What the transaction writes, on top of what the job's row and the
\* manifest's kinds leave behind.
CommitWrites(m) ==
  LET r == request[m.job]
      kinds == {"batch"} \cup (IF m.log THEN {"log"} ELSE {})
  IN /\ sources' = [sources EXCEPT ![r.source] = r.content]
     /\ locations' = locations \cup {r.source}
     /\ artifacts' = artifacts \cup {<<m.job, m.dir, k>> : k \in kinds}
     /\ state' = [state EXCEPT ![m.job] = "completed"]
     /\ UNCHANGED <<attempt, dir, request, created, progress>>

CommitImport(w) ==
  /\ call[w].op = "commit"
  /\ CommitAccepted(call[w])
  /\ CommitWrites(call[w])
  /\ call' = [call EXCEPT ![w] = NoCall]

\* A held source may hold a segment of the batch, another one its very hash.
MayCollide(m) == IsImported(request[m.job].content)

CommitRefused(w) ==
  /\ call[w].op = "commit"
  /\ ~ CommitAccepted(call[w]) \/ MayCollide(call[w])
  /\ call' = [call EXCEPT ![w] = NoCall]
  /\ UNCHANGED <<jobVars, evidenceVars>>

\* The process ends between a call's checks and its write.
CallLost(w) ==
  /\ call[w] # NoCall
  /\ call' = [call EXCEPT ![w] = NoCall]
  /\ UNCHANGED <<jobVars, evidenceVars>>

----------------------------------------------------------------------------
(* Calls outside the queue that write the same tables.                     *)

ImportNormalized(s, c) ==
  /\ sources[s] = NoContent
  /\ ~ Repeats(c)
  /\ sources' = [sources EXCEPT ![s] = c]
  /\ UNCHANGED <<jobVars, locations, artifacts, call>>

RelinkSource(s) ==
  /\ sources[s] # NoContent
  /\ locations' = locations \cup {s}
  /\ UNCHANGED <<jobVars, sources, artifacts, call>>

----------------------------------------------------------------------------

\* With ExclusiveOwner no other caller ends a job whose commit is in flight.
MayEnd(S) ==
  ExclusiveOwner => \A w \in Callers : call[w].op = "commit" => call[w].job \notin S

OneStatement ==
  \/ \E j \in Jobs : ClaimNext(j)
  \/ \E j \in Jobs : \E a \in 1 .. attempt[j] : UpdateProgress(j, a)
  \/ \E j \in Jobs : MarkImporting(j)
  \/ \E j \in Jobs : MayEnd({j}) /\ FailJob(j)
  \/ MayEnd(Jobs) /\ RecoverInterrupted
  \/ \E j \in Jobs, d \in Attempts : Retry(j, d)
  \/ \E j \in Jobs : \E d \in 1 .. attempt[j] : RegisterLog(j, d)
  \/ \E s \in Sources, c \in Contents : ImportNormalized(s, c)
  \/ \E s \in Sources : RelinkSource(s)

TwoStatements ==
  \E w \in Callers :
    \/ \E j \in Jobs, r \in Requests : EnqueueCheck(w, j, r)
    \/ \E t \in Times : EnqueueInsert(w, t)
    \/ EnqueueRefused(w)
    \/ \E j \in Jobs, d \in Attempts, log \in BOOLEAN : CommitValidate(w, j, d, log)
    \/ CommitImport(w)
    \/ CommitRefused(w)
    \/ CallLost(w)

Next == OneStatement \/ TwoStatements

Spec == Init /\ [][Next]_vars
----------------------------------------------------------------------------
(* Properties.                                                             *)

\* Every column keeps its type, a call in flight is one of the two kinds, and a
\* job has a whole row or none: no statement meets a job that is not there.
TypeOK ==
  /\ state \in [Jobs -> States \cup {"absent"}]
  /\ attempt \in [Jobs -> 0 .. MaxAttempt]
  /\ dir \in [Jobs -> 0 .. MaxAttempt]
  /\ request \in [Jobs -> Requests \cup {NoRequest}]
  /\ created \in [Jobs -> Nat]
  /\ progress \in [Jobs -> 0 .. MaxAttempt]
  /\ sources \in [Sources -> Contents \cup {NoContent}]
  /\ locations \subseteq Sources
  /\ artifacts \subseteq Jobs \X Attempts \X Kinds
  /\ call \in [Callers -> {NoCall} \cup EnqueueCalls \cup CommitCalls]
  /\ \A j \in Present : attempt[j] > 0 /\ dir[j] > 0 /\ request[j] \in Requests

\* A completed job has its original in the evidence under the identity it was
\* queued with, a path to reopen it, and the batch it came from:
\* commit_intake_result writes all of them or none, whatever other connections
\* import, relink, fail, retry or recover meanwhile.
CompletedIsWhole ==
  \A j \in Jobs :
    state[j] = "completed" =>
      /\ sources[request[j].source] = request[j].content
      /\ request[j].source \in locations
      /\ \E d \in Attempts : <<j, d, "batch">> \in artifacts

\* No original is brought in by two jobs, though enqueue_intake_job checks for
\* a duplicate before it inserts, and a retry does not check again.
CompletedOncePerContent ==
  \A i, j \in Jobs :
    state[i] = "completed" /\ state[j] = "completed" /\ i # j =>
      request[i].content # request[j].content

\* "Existing identifiers or source hashes are rejected": no original is in the
\* evidence under two source identifiers.
OneSourcePerContent ==
  \A s, t \in Sources : sources[s] = sources[t] /\ sources[s] # NoContent => s = t

\* The batch a completed job keeps is in the directory its row names, so the
\* files of the attempt the row describes are the files that were imported.
\* commit_intake_result checks the directory against the row before its
\* transaction, which looks at the state alone.
ResultIsConfined ==
  \A j \in Jobs : state[j] = "completed" => <<j, dir[j], "batch">> \in artifacts

\* A job still waiting for its first attempt is overtaken by no later one:
\* the claim takes the oldest queued row, and a retry keeps created_at.
FirstAttemptsInOrder ==
  \A i, j \in Present :
    /\ created[i] < created[j]
    /\ state[i] = "queued"
    /\ attempt[i] = 1
    => state[j] = "queued" /\ attempt[j] = 1

\* Completion is final: no late failure, recovery or retry, and no commit of a
\* job of another case that names the same source identifier, touches the row,
\* the location or the source of a completed job.
CompletedIsFinal ==
  [][\A j \in Jobs :
       state[j] = "completed" =>
         /\ state'[j] = "completed"
         /\ attempt'[j] = attempt[j]
         /\ dir'[j] = dir[j]
         /\ progress'[j] = progress[j]
         /\ request[j].source \in locations'
         /\ sources'[request[j].source] = sources[request[j].source]]_vars

\* The ledger this queue implements.
PhaseOf(s) ==
  CASE s = "queued" -> "waiting"
    [] s \in Active -> "working"
    [] s \in Retryable -> "stopped"
    [] s = "completed" -> "delivered"
    [] s = "absent" -> "absent"

Bringers(c) == {j \in Jobs : state[j] = "completed" /\ request[j].content = c}

Ledger == INSTANCE IntakeLedger WITH
  phase <- [j \in Jobs |-> PhaseOf(state[j])],
  bringing <- [j \in Jobs |-> request[j].content],
  bringers <- [c \in Contents |-> Bringers(c)]

\* Every step of the tables is a step of the ledger or none: an original
\* enters the evidence through a job exactly when that job is delivered.
ImplementsLedger == Ledger!Spec
=============================================================================
