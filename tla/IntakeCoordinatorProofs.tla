------------------------ MODULE IntakeCoordinatorProofs ------------------------
(***************************************************************************)
(* Theorems about the coordinators for any number of connections, jobs and *)
(* attempts: they touch the queue through the store alone, and a           *)
(* coordinator that is the only one of its database owns what is active.   *)
(***************************************************************************)
EXTENDS IntakeCoordinator, TLAPS

\* Neither fail_intake_job nor recover_interrupted_intake_jobs asks who works
\* on the row: the code knows no owner.
NobodyOwns == ~ ExclusiveOwner

----------------------------------------------------------------------------
(* The invariant: rows keep their type and never lose an attempt, and what *)
(* a coordinator holds was read from a row that is still there.            *)

Rows ==
  /\ state \in [Jobs -> Queue!States \cup {"absent"}]
  /\ attempt \in [Jobs -> 0 .. MaxAttempt]
  /\ dir \in [Jobs -> 0 .. MaxAttempt]
  /\ call = [w \in Callers |-> call[w]]
  /\ \A j \in Jobs : state[j] # "absent" => dir[j] \in 1 .. attempt[j]

HoldsRead ==
  /\ pc \in [Coordinators -> Steps]
  /\ held \in [Coordinators -> Holds \cup {NoHold}]
  /\ child \in [Coordinators -> Children]
  /\ \A c \in Coordinators :
       /\ Works(c) => held[c].job \in Jobs /\ state[held[c].job] # "absent"
       /\ Runs(c) => /\ held[c].dir \in 1 .. attempt[held[c].job]
                     /\ held[c].attempt \in 1 .. attempt[held[c].job]

RInv == Rows /\ HoldsRead

\* No row disappears and no attempt is taken back.
RowsGrow ==
  \A j \in Jobs : state[j] # "absent" => state'[j] # "absent" /\ attempt[j] <= attempt'[j]

LEMMA InitRInv == Init => RInv
<1> SUFFICES ASSUME Init PROVE RInv
  OBVIOUS
<1>1. Rows
  BY AttemptAssumption DEF Init, Queue!Init, Rows
<1>2. HoldsRead
  BY DEF Init, HoldsRead, Steps, Children, Works, Runs
<1>3. QED
  BY <1>1, <1>2 DEF RInv

LEMMA StoreCallKeepsRows ==
  ASSUME Rows, [Queue!Next]_(Queue!vars)
  PROVE  Rows' /\ RowsGrow
<1>1. CASE \E j \in Jobs, d \in Queue!Attempts : Queue!Retry(j, d)
  <2>1. PICK j \in Jobs, d \in Queue!Attempts : Queue!Retry(j, d)
    BY <1>1
  <2>2. /\ attempt[j] + 1 \in 0 .. MaxAttempt
        /\ d \in 1 .. attempt[j] + 1 /\ d \in 0 .. MaxAttempt
    BY <2>1, AttemptAssumption DEF Rows, Queue!Retry, Queue!RetryDirs, Queue!Attempts, Queue!Retryable
  <2>3. QED
    BY <2>1, <2>2, AttemptAssumption DEF Rows, RowsGrow, Queue!Retry, Queue!States, Queue!Retryable
<1>2. CASE \E w \in Callers, t \in Times : Queue!EnqueueInsert(w, t)
  <2>1. PICK w \in Callers, t \in Times : Queue!EnqueueInsert(w, t)
    BY <1>2
  <2> DEFINE k == call[w].job
  <2>2. /\ state[k] = "absent"
        /\ state' = [state EXCEPT ![k] = "queued"]
        /\ attempt' = [attempt EXCEPT ![k] = 1]
        /\ dir' = [dir EXCEPT ![k] = 1]
        /\ call' = [call EXCEPT ![w] = Queue!NoCall]
    BY <2>1 DEF Queue!EnqueueInsert, Queue!RowIsFree
  <2>3. call' = [x \in Callers |-> call'[x]]
    BY <2>2 DEF Rows
  <2> HIDE DEF k
  <2>4. /\ state' \in [Jobs -> Queue!States \cup {"absent"}]
        /\ attempt' \in [Jobs -> 0 .. MaxAttempt]
        /\ dir' \in [Jobs -> 0 .. MaxAttempt]
    <3>1. 1 \in 0 .. MaxAttempt /\ "queued" \in Queue!States
      BY AttemptAssumption DEF Queue!States
    <3>2. QED
      BY <2>2, <3>1 DEF Rows
  <2>5. \A j \in Jobs : state'[j] # "absent" => dir'[j] \in 1 .. attempt'[j]
    BY <2>2, AttemptAssumption DEF Rows
  <2>6. RowsGrow
    BY <2>2, AttemptAssumption DEF Rows, RowsGrow
  <2>7. QED
    BY <2>3, <2>4, <2>5, <2>6 DEF Rows
<1>3. CASE \E w \in Callers : Queue!CommitImport(w)
  <2>1. PICK w \in Callers : Queue!CommitImport(w)
    BY <1>3
  <2> DEFINE k == call[w].job
  <2>2. /\ state[k] = "importing"
        /\ state' = [state EXCEPT ![k] = "completed"]
        /\ UNCHANGED <<attempt, dir>>
        /\ call' = [call EXCEPT ![w] = Queue!NoCall]
    BY <2>1 DEF Queue!CommitImport, Queue!CommitAccepted, Queue!CommitWrites
  <2>3. call' = [x \in Callers |-> call'[x]]
    BY <2>2 DEF Rows
  <2> HIDE DEF k
  <2>4. state' \in [Jobs -> Queue!States \cup {"absent"}]
    BY <2>2 DEF Rows, Queue!States
  <2>5. \A j \in Jobs : state'[j] # "absent" => state[j] # "absent"
    BY <2>2 DEF Rows
  <2>6. RowsGrow
    BY <2>2 DEF Rows, RowsGrow
  <2>7. QED
    BY <2>2, <2>3, <2>4, <2>5, <2>6 DEF Rows
<1>4. CASE \E j \in Jobs : Queue!ClaimNext(j) \/ Queue!MarkImporting(j) \/ Queue!FailJob(j)
  BY <1>4 DEF Rows, RowsGrow, Queue!ClaimNext, Queue!IsOldestQueued, Queue!MarkImporting, Queue!FailJob, Queue!Active, Queue!States
<1>5. CASE Queue!RecoverInterrupted
  BY <1>5 DEF Rows, RowsGrow, Queue!RecoverInterrupted, Queue!Active, Queue!States
<1>6. CASE \E w \in Callers :
             \/ \E j \in Jobs, r \in Queue!Requests : Queue!EnqueueCheck(w, j, r)
             \/ Queue!EnqueueRefused(w)
             \/ \E j \in Jobs, d \in Queue!Attempts, log \in BOOLEAN : Queue!CommitValidate(w, j, d, log)
             \/ Queue!CommitRefused(w)
             \/ Queue!CallLost(w)
  <2>1. UNCHANGED <<state, attempt, dir>>
    BY <1>6 DEF Queue!EnqueueCheck, Queue!EnqueueRefused, Queue!CommitValidate,
                Queue!CommitRefused, Queue!CallLost, Queue!jobVars
  <2>2. call' = [w \in Callers |-> call'[w]]
    BY <1>6 DEF Rows, Queue!EnqueueCheck, Queue!EnqueueRefused, Queue!CommitValidate,
                Queue!CommitRefused, Queue!CallLost
  <2>3. QED
    BY <2>1, <2>2 DEF Rows, RowsGrow
<1>7. CASE \/ \E j \in Jobs : \E a \in 1 .. attempt[j] : Queue!UpdateProgress(j, a)
           \/ \E j \in Jobs : \E d \in 1 .. attempt[j] : Queue!RegisterLog(j, d)
           \/ \E s \in Sources, c \in Contents : Queue!ImportNormalized(s, c)
           \/ \E s \in Sources : Queue!RelinkSource(s)
           \/ UNCHANGED Queue!vars
  <2>1. UNCHANGED <<state, attempt, dir, call>>
    BY <1>7 DEF Queue!UpdateProgress, Queue!RegisterLog, Queue!ImportNormalized,
                Queue!RelinkSource, Queue!vars, Queue!jobVars, Queue!evidenceVars
  <2>2. QED
    BY <2>1 DEF Rows, RowsGrow
<1>8. QED
  BY <1>1, <1>2, <1>3, <1>4, <1>5, <1>6, <1>7
     DEF Queue!Next, Queue!OneStatement, Queue!TwoStatements

----------------------------------------------------------------------------
(* Refinement: whatever a coordinator or a window does to the tables is one *)
(* of the store's calls.                                                    *)

\* What a coordinator holds was read from a row, so it names a job, and an
\* attempt and a directory that row has had.
LEMMA HeldIsRead ==
  ASSUME RInv, NEW c \in Coordinators
  PROVE  /\ c \in Callers
         /\ Works(c) => held[c].job \in Jobs /\ state[held[c].job] # "absent"
         /\ Runs(c) => /\ held[c].dir \in 1 .. attempt[held[c].job]
                       /\ held[c].attempt \in 1 .. attempt[held[c].job]
                       /\ held[c].dir \in Queue!Attempts
<1>1. /\ c \in Callers
      /\ Works(c) => held[c].job \in Jobs /\ state[held[c].job] # "absent"
      /\ Runs(c) => /\ held[c].dir \in 1 .. attempt[held[c].job]
                    /\ held[c].attempt \in 1 .. attempt[held[c].job]
  BY CoordinatorsAssumption DEF RInv, HoldsRead
<1>2. ASSUME Runs(c) PROVE held[c].dir \in 1 .. MaxAttempt
  <2>1. held[c].job \in Jobs /\ held[c].dir \in 1 .. attempt[held[c].job]
    BY <1>1, <1>2 DEF Runs
  <2>2. attempt[held[c].job] \in 0 .. MaxAttempt
    BY <2>1 DEF RInv, Rows
  <2>3. QED
    BY <2>1, <2>2, AttemptAssumption
<1>3. QED
  BY <1>1, <1>2 DEF Queue!Attempts

LEMMA LostCallIsStoreCall ==
  ASSUME RInv, NEW c \in Callers,
         call' = [call EXCEPT ![c] = Queue!NoCall],
         UNCHANGED <<jobVars, evidenceVars>>
  PROVE  [Queue!Next]_(Queue!vars)
<1>1. CASE call[c] = Queue!NoCall
  <2>1. call' = call
    BY <1>1 DEF RInv, Rows
  <2>2. QED
    BY <2>1 DEF Queue!vars, Queue!jobVars, Queue!evidenceVars, jobVars, evidenceVars
<1>2. CASE call[c] # Queue!NoCall
  <2>1. Queue!CallLost(c)
    BY <1>2 DEF Queue!CallLost, Queue!jobVars, Queue!evidenceVars, jobVars, evidenceVars
  <2>2. QED
    BY <2>1 DEF Queue!Next, Queue!TwoStatements
<1>3. QED
  BY <1>1, <1>2

LEMMA QuietIsStoreCall ==
  ASSUME UNCHANGED queueVars
  PROVE  [Queue!Next]_(Queue!vars)
BY DEF queueVars, jobVars, evidenceVars, Queue!vars, Queue!jobVars, Queue!evidenceVars

LEMMA LogIsStoreCall ==
  ASSUME RInv, NEW c \in Coordinators, Runs(c), Queue!RegisterLog(held[c].job, held[c].dir)
  PROVE  Queue!Next
<1>1. held[c].job \in Jobs /\ held[c].dir \in 1 .. attempt[held[c].job]
  BY HeldIsRead DEF Runs
<1>2. QED
  BY <1>1 DEF Queue!Next, Queue!OneStatement

LEMMA ExecuteIsStoreCall ==
  ASSUME NobodyOwns, RInv, NEW c \in Coordinators, Execute(c)
  PROVE  [Queue!Next]_(Queue!vars)
<1>1. CASE \E j \in Jobs : Claim(c, j)
  BY <1>1 DEF Claim, Queue!Next, Queue!OneStatement
<1>2. CASE \/ ReadClaimed(c) \/ Spawn(c) \/ SpawnFails(c)
           \/ EventRefused(c) \/ EventMalformed(c) \/ LineUnreadable(c)
           \/ \E exit \in Exits : ChildExits(c, exit)
           \/ MarkRefused(c) \/ ValidateRefused(c)
  <2>1. UNCHANGED queueVars
    BY <1>2 DEF ReadClaimed, Spawn, SpawnFails, EventRefused, EventMalformed,
                LineUnreadable, ChildExits, MarkRefused, ValidateRefused
  <2>2. QED
    BY <2>1, QuietIsStoreCall
<1>3. CASE EventAccepted(c)
  <2>1. Runs(c)
    BY <1>3 DEF EventAccepted, Runs, Works
  <2>2. held[c].job \in Jobs /\ held[c].attempt \in 1 .. attempt[held[c].job]
    BY <2>1, HeldIsRead DEF Runs
  <2>3. QED
    BY <2>2, <1>3 DEF EventAccepted, Queue!Next, Queue!OneStatement
<1>4. CASE ReadResult(c) \/ NoResult(c)
  <2>1. Runs(c) /\ Queue!RegisterLog(held[c].job, held[c].dir)
    BY <1>4 DEF ReadResult, NoResult, Keeps, Goto, Runs, Works
  <2>2. QED
    BY <2>1, LogIsStoreCall
<1>5. CASE Mark(c)
  <2>1. held[c].job \in Jobs
    BY <1>5, HeldIsRead DEF Mark, Keeps, Goto, Works
  <2>2. QED
    BY <2>1, <1>5 DEF Mark, Queue!Next, Queue!OneStatement
<1>6. CASE Validate(c)
  <2>1. Runs(c) /\ Queue!CommitValidate(c, held[c].job, held[c].dir, TRUE)
    BY <1>6 DEF Validate, Keeps, Goto, Runs, Works
  <2>2. c \in Callers /\ held[c].job \in Jobs /\ held[c].dir \in Queue!Attempts
    BY <2>1, HeldIsRead DEF Runs
  <2>3. QED
    BY <2>1, <2>2 DEF Queue!Next, Queue!TwoStatements
<1>7. CASE Commit(c)
  <2>1. c \in Callers /\ (Queue!CommitImport(c) \/ Queue!CommitRefused(c))
    BY <1>7, HeldIsRead DEF Commit
  <2>2. QED
    BY <2>1 DEF Queue!Next, Queue!TwoStatements
<1>8. CASE RegisterFailureLog(c)
  <2>1. Runs(c)
    BY <1>8 DEF RegisterFailureLog, Keeps, Goto, Runs, Works
  <2>2. UNCHANGED queueVars \/ Queue!RegisterLog(held[c].job, held[c].dir)
    BY <1>8 DEF RegisterFailureLog
  <2>3. QED
    BY <2>1, <2>2, LogIsStoreCall, QuietIsStoreCall
<1>9. CASE RecordFailure(c)
  <2>1. held[c].job \in Jobs
    BY <1>9, HeldIsRead DEF RecordFailure, Goto, Works
  <2>2. CASE Queue!FailJob(held[c].job)
    BY <2>1, <2>2 DEF NobodyOwns, Queue!MayEnd, Queue!Next, Queue!OneStatement
  <2>3. CASE UNCHANGED queueVars
    BY <2>3, QuietIsStoreCall
  <2>4. QED
    BY <2>2, <2>3, <1>9 DEF RecordFailure
<1>10. QED
  BY <1>1, <1>2, <1>3, <1>4, <1>5, <1>6, <1>7, <1>8, <1>9 DEF Execute

LEMMA StepIsStoreCall ==
  ASSUME NobodyOwns, RInv, [Next]_vars
  PROVE  [Queue!Next]_(Queue!vars)
<1>1. CASE \E c \in Coordinators : Execute(c)
  BY <1>1, ExecuteIsStoreCall
<1>2. CASE \E c \in Coordinators : Start(c)
  BY <1>2 DEF Start, NobodyOwns, Queue!MayEnd, Queue!Next, Queue!OneStatement
<1>3. CASE \E c \in Coordinators : StoreRefuses(c) \/ Crash(c)
  <2>1. PICK c \in Coordinators : StoreRefuses(c) \/ Crash(c)
    BY <1>3
  <2>2. c \in Callers
    BY HeldIsRead
  <2>3. call' = [call EXCEPT ![c] = Queue!NoCall] /\ UNCHANGED <<jobVars, evidenceVars>>
    BY <2>1 DEF StoreRefuses, Crash
  <2>4. QED
    BY <2>2, <2>3, LostCallIsStoreCall
<1>4. CASE \E c \in Coordinators : Abandon(c)
  BY <1>4, QuietIsStoreCall DEF Abandon
<1>5. CASE \E w \in Windows : Window(w)
  BY <1>5 DEF Windows, Window, Queue!Next, Queue!TwoStatements
<1>6. CASE RetryFromWindow
  BY <1>6 DEF RetryFromWindow, Queue!Next, Queue!OneStatement
<1>7. CASE UNCHANGED vars
  BY <1>7, QuietIsStoreCall DEF vars
<1>8. QED
  BY <1>1, <1>2, <1>3, <1>4, <1>5, <1>6, <1>7 DEF Next

----------------------------------------------------------------------------
(* A step changes what one coordinator holds; the rows of the others stay.  *)

\* A coordinator moves on with the job it has, or with none.
LEMMA MoveKeepsHolds ==
  ASSUME RInv, Rows', RowsGrow, NEW c \in Coordinators, NEW to \in Steps,
         pc' = [pc EXCEPT ![c] = to],
         held' \in {held, [held EXCEPT ![c] = NoHold]},
         child' \in [Coordinators -> Children],
         to \notin {"off", "idle"} => held' = held /\ Works(c),
         to \notin {"off", "idle", "claimed"} => Runs(c)
  PROVE  HoldsRead'
<1>1. /\ pc' \in [Coordinators -> Steps]
      /\ held' \in [Coordinators -> Holds \cup {NoHold}]
  BY DEF RInv, HoldsRead
<1> SUFFICES ASSUME NEW d \in Coordinators, Works(d)'
             PROVE  /\ held'[d].job \in Jobs /\ state'[held'[d].job] # "absent"
                    /\ Runs(d)' => /\ held'[d].dir \in 1 .. attempt'[held'[d].job]
                                   /\ held'[d].attempt \in 1 .. attempt'[held'[d].job]
  BY <1>1 DEF HoldsRead, Runs
<1>2. /\ held'[d] = held[d] /\ Works(d)
      /\ Runs(d)' => Runs(d)
  BY DEF RInv, HoldsRead, Works, Runs
<1>3. /\ held[d].job \in Jobs /\ state[held[d].job] # "absent"
      /\ Runs(d) => /\ held[d].dir \in 1 .. attempt[held[d].job]
                    /\ held[d].attempt \in 1 .. attempt[held[d].job]
  BY <1>2 DEF RInv, HoldsRead
<1>4. /\ state'[held[d].job] # "absent"
      /\ attempt[held[d].job] <= attempt'[held[d].job]
  BY <1>3 DEF RowsGrow
<1>5. attempt[held[d].job] \in Nat /\ attempt'[held[d].job] \in Nat
  BY <1>3, AttemptAssumption DEF RInv, Rows
<1>6. QED
  BY <1>2, <1>3, <1>4, <1>5

LEMMA RestKeepsHolds ==
  ASSUME RInv, Rows', RowsGrow, UNCHANGED <<pc, held, child>>
  PROVE  HoldsRead'
<1> SUFFICES ASSUME NEW d \in Coordinators, Works(d)
             PROVE  /\ held[d].job \in Jobs /\ state'[held[d].job] # "absent"
                    /\ Runs(d) => /\ held[d].dir \in 1 .. attempt'[held[d].job]
                                  /\ held[d].attempt \in 1 .. attempt'[held[d].job]
  BY DEF RInv, HoldsRead, Runs, Works
<1>1. /\ held[d].job \in Jobs /\ state[held[d].job] # "absent"
      /\ Runs(d) => /\ held[d].dir \in 1 .. attempt[held[d].job]
                    /\ held[d].attempt \in 1 .. attempt[held[d].job]
  BY DEF RInv, HoldsRead
<1>2. /\ state'[held[d].job] # "absent"
      /\ attempt[held[d].job] <= attempt'[held[d].job]
  BY <1>1 DEF RowsGrow
<1>3. attempt[held[d].job] \in Nat /\ attempt'[held[d].job] \in Nat
  BY <1>1, AttemptAssumption DEF RInv, Rows
<1>4. QED
  BY <1>1, <1>2, <1>3

LEMMA ClaimHolds ==
  ASSUME RInv, Rows', RowsGrow, NEW c \in Coordinators, NEW j \in Jobs, Claim(c, j)
  PROVE  HoldsRead'
<1> DEFINE h == [job |-> j, dir |-> 0, attempt |-> 0]
<1>1. /\ h \in Holds
      /\ pc' = [pc EXCEPT ![c] = "claimed"]
      /\ held' = [held EXCEPT ![c] = h]
      /\ child' = child
      /\ state[j] # "absent"
  BY AttemptAssumption DEF Claim, Goto, Holds, Queue!ClaimNext, Queue!IsOldestQueued
<1>2. /\ pc' \in [Coordinators -> Steps]
      /\ held' \in [Coordinators -> Holds \cup {NoHold}]
      /\ child' \in [Coordinators -> Children]
  BY <1>1 DEF RInv, HoldsRead, Steps
<1> SUFFICES ASSUME NEW d \in Coordinators, Works(d)'
             PROVE  /\ held'[d].job \in Jobs /\ state'[held'[d].job] # "absent"
                    /\ Runs(d)' => /\ held'[d].dir \in 1 .. attempt'[held'[d].job]
                                   /\ held'[d].attempt \in 1 .. attempt'[held'[d].job]
  BY <1>2 DEF HoldsRead, Runs
<1>3. CASE d = c
  BY <1>1, <1>3 DEF RInv, HoldsRead, RowsGrow, Runs, Works
<1>4. CASE d # c
  <2>1. held'[d] = held[d] /\ Works(d) /\ (Runs(d)' => Runs(d))
    BY <1>1, <1>4 DEF RInv, HoldsRead, Works, Runs
  <2>2. /\ held[d].job \in Jobs /\ state[held[d].job] # "absent"
        /\ Runs(d) => /\ held[d].dir \in 1 .. attempt[held[d].job]
                      /\ held[d].attempt \in 1 .. attempt[held[d].job]
    BY <2>1 DEF RInv, HoldsRead
  <2>3. attempt' = attempt /\ state'[held[d].job] # "absent"
    BY <2>2 DEF RowsGrow, Claim, Queue!ClaimNext
  <2>4. QED
    BY <2>1, <2>2, <2>3
<1>5. QED
  BY <1>3, <1>4

LEMMA ReadClaimedHolds ==
  ASSUME RInv, Rows', RowsGrow, NEW c \in Coordinators, ReadClaimed(c)
  PROVE  HoldsRead'
<1> DEFINE j == held[c].job
           h == [job |-> j, dir |-> dir[j], attempt |-> attempt[j]]
<1>1. /\ pc[c] = "claimed" /\ pc' = [pc EXCEPT ![c] = "starting"]
      /\ held' = [held EXCEPT ![c] = h]
      /\ child' = child
      /\ UNCHANGED <<state, attempt, dir>>
  BY DEF ReadClaimed, Goto, queueVars, jobVars
<1>2. /\ j \in Jobs /\ state[j] # "absent"
      /\ dir[j] \in 1 .. attempt[j]
      /\ dir[j] \in 0 .. MaxAttempt
      /\ attempt[j] \in 0 .. MaxAttempt
  BY <1>1 DEF RInv, Rows, HoldsRead, Works
<1>3. attempt[j] \in 1 .. attempt[j]
  BY <1>2, AttemptAssumption
<1>4. h \in Holds
  BY <1>2 DEF Holds
<1> HIDE DEF h
<1>5. /\ pc' \in [Coordinators -> Steps]
      /\ held' \in [Coordinators -> Holds \cup {NoHold}]
      /\ child' \in [Coordinators -> Children]
  BY <1>1, <1>4 DEF RInv, HoldsRead, Steps
<1>6. h.job \in Jobs /\ state[h.job] # "absent" /\ h.dir \in 1 .. attempt[h.job]
      /\ h.attempt \in 1 .. attempt[h.job]
  BY <1>2, <1>3 DEF h
<1>7. ASSUME NEW d \in Coordinators, Works(d)'
      PROVE  /\ held'[d].job \in Jobs /\ state[held'[d].job] # "absent"
             /\ Runs(d)' => /\ held'[d].dir \in 1 .. attempt[held'[d].job]
                            /\ held'[d].attempt \in 1 .. attempt[held'[d].job]
  <2>1. CASE d = c
    <3>1. held'[d] = h
      BY <1>1, <2>1 DEF RInv, HoldsRead
    <3>2. QED
      BY <3>1, <1>6
  <2>2. CASE d # c
    <3>1. held'[d] = held[d] /\ Works(d) /\ (Runs(d)' => Runs(d))
      BY <1>1, <1>7, <2>2 DEF RInv, HoldsRead, Works, Runs
    <3>2. QED
      BY <3>1 DEF RInv, HoldsRead
  <2>3. QED
    BY <2>1, <2>2
<1>8. QED
  BY <1>1, <1>5, <1>7 DEF HoldsRead, Runs

LEMMA StepKeepsHolds ==
  ASSUME RInv, Rows', RowsGrow, [Next]_vars
  PROVE  HoldsRead'
<1>1. CASE \E c \in Coordinators, j \in Jobs : Claim(c, j)
  BY <1>1, ClaimHolds
<1>2. CASE \E c \in Coordinators : ReadClaimed(c)
  BY <1>2, ReadClaimedHolds
<1>3. CASE \/ \E w \in Windows : Window(w)
           \/ RetryFromWindow
           \/ UNCHANGED vars
           \/ \E c \in Coordinators : EventAccepted(c)
  BY <1>3, RestKeepsHolds DEF Window, RetryFromWindow, vars, EventAccepted
<1>4. ASSUME NEW c \in Coordinators,
             \/ Start(c) \/ StoreRefuses(c) \/ Abandon(c) \/ Crash(c)
             \/ Spawn(c) \/ SpawnFails(c)
             \/ EventRefused(c) \/ EventMalformed(c) \/ LineUnreadable(c)
             \/ \E exit \in Exits : ChildExits(c, exit)
             \/ ReadResult(c) \/ NoResult(c)
             \/ Mark(c) \/ MarkRefused(c)
             \/ Validate(c) \/ ValidateRefused(c)
             \/ Commit(c)
             \/ RegisterFailureLog(c) \/ RecordFailure(c)
      PROVE  HoldsRead'
  <2>1. child' \in [Coordinators -> Children]
    <3>1. \/ child' = child
          \/ \E x \in Children : child' = [child EXCEPT ![c] = x]
      BY <1>4 DEF Start, StoreRefuses, Abandon, Crash, Release, Spawn, SpawnFails,
                  EventRefused, EventMalformed, LineUnreadable, ChildExits, Exits,
                  ReadResult, NoResult, Mark, MarkRefused, Validate, ValidateRefused,
                  Commit, RegisterFailureLog, RecordFailure, Children
    <3>2. QED
      BY <3>1 DEF RInv, HoldsRead
  <2>2. \E to \in Steps :
          /\ pc' = [pc EXCEPT ![c] = to]
          /\ held' \in {held, [held EXCEPT ![c] = NoHold]}
          /\ to \notin {"off", "idle"} => held' = held /\ Works(c)
          /\ to \notin {"off", "idle", "claimed"} => Runs(c)
    <3>1. CASE \/ Start(c) \/ StoreRefuses(c) \/ Abandon(c) \/ Crash(c)
               \/ Commit(c) \/ RecordFailure(c)
      BY <3>1 DEF Start, StoreRefuses, Refusable, Abandon, Crash, Release, Commit,
                  RecordFailure, Keeps, Goto, Steps, Works, Runs
    <3>2. CASE \/ Spawn(c) \/ SpawnFails(c)
               \/ EventRefused(c) \/ EventMalformed(c) \/ LineUnreadable(c)
               \/ \E exit \in Exits : ChildExits(c, exit)
               \/ ReadResult(c) \/ NoResult(c)
               \/ Mark(c) \/ MarkRefused(c)
               \/ Validate(c) \/ ValidateRefused(c)
               \/ RegisterFailureLog(c)
      BY <3>2 DEF Spawn, SpawnFails, EventRefused, EventMalformed, LineUnreadable,
                  ChildExits, ReadResult, NoResult, Mark, MarkRefused, Validate,
                  ValidateRefused, RegisterFailureLog, Keeps, Goto, Steps, Works, Runs
    <3>3. QED
      BY <1>4, <3>1, <3>2
  <2>3. QED
    BY <2>1, <2>2, MoveKeepsHolds
<1>5. QED
  BY <1>1, <1>2, <1>3, <1>4 DEF Next, Execute

LEMMA NextRInv == NobodyOwns /\ RInv /\ [Next]_vars => RInv'
<1> SUFFICES ASSUME NobodyOwns, RInv, [Next]_vars PROVE RInv'
  OBVIOUS
<1>1. Rows' /\ RowsGrow
  BY StepIsStoreCall, StoreCallKeepsRows DEF RInv
<1>2. QED
  BY <1>1, StepKeepsHolds DEF RInv

\* However many coordinators, windows and crashes: every statement the
\* coordinator makes is a call of the store on a row and a directory the store
\* allows that call on, so all the queue's own theorems hold of the system.
THEOREM CoordinatorImplementsQueue == NobodyOwns /\ Spec => ImplementsQueue
<1> SUFFICES ASSUME NobodyOwns PROVE Spec => ImplementsQueue
  OBVIOUS
<1>1. Init => RInv /\ Queue!Init
  BY InitRInv DEF Init
<1>2. RInv /\ [Next]_vars => RInv' /\ [Queue!Next]_(Queue!vars)
  BY NextRInv, StepIsStoreCall
<1>3. QED
  BY <1>1, <1>2, PTL DEF Spec, ImplementsQueue, Queue!Spec

----------------------------------------------------------------------------
(* One coordinator to a database, and a database that is not kept locked:   *)
(* what is active is what that coordinator works on.  A second coordinator  *)
(* that dies, or a failure the store refuses to record, leaves a row active *)
(* and nobody on it while the first one serves.                             *)

Alone == ~ StoreMayRefuse /\ \A c, d \in Coordinators : c = d

\* A coordinator's own row is in the state its place in the code expects.
OwnRowFits ==
  \A c \in Coordinators :
    LET s == state[held[c].job]
    IN /\ pc[c] \in {"claimed", "starting", "streaming", "exited", "marking"} => s = "running"
       /\ pc[c] \in {"validating", "committing"} => s = "importing"
       /\ pc[c] \in {"failing", "recording"} => s \in Queue!Active

\* Nobody else commits, and what is committed is the coordinator's own job.
OwnCommit ==
  \A w \in Callers :
    call[w].op = "commit" =>
      w \in Coordinators /\ pc[w] = "committing" /\ call[w].job = held[w].job

AInv == RInv /\ ActiveIsOwned /\ OwnRowFits /\ OwnCommit

LEMMA InitAInv == Init => AInv
<1> SUFFICES ASSUME Init PROVE AInv
  OBVIOUS
<1>1. RInv
  BY InitRInv
<1>2. ActiveIsOwned
  BY DEF Init, Queue!Init, ActiveIsOwned
<1>3. OwnRowFits
  BY DEF Init, OwnRowFits, Works
<1>4. OwnCommit
  BY DEF Init, Queue!Init, Queue!NoCall, OwnCommit
<1>5. QED
  BY <1>1, <1>2, <1>3, <1>4 DEF AInv

\* The coordinator goes from one step to the next and writes no row's state.
LEMMA QuietMove ==
  ASSUME Alone, AInv, RInv', NEW c \in Coordinators, Works(c),
         UNCHANGED <<state, attempt, call>>,
         held'[c].job = held[c].job,
         Works(c)',
         pc[c] # "committing",
         pc'[c] \in {"claimed", "starting", "streaming", "exited", "marking"} =>
           state[held[c].job] = "running",
         pc'[c] \in {"validating", "committing"} => state[held[c].job] = "importing"
  PROVE  AInv'
<1>1. \A d \in Coordinators : d = c
  BY DEF Alone
<1>2. ActiveIsOwned'
  BY <1>1 DEF AInv, ActiveIsOwned, Works
<1>3. OwnRowFits'
  BY <1>1 DEF AInv, OwnRowFits, Works, Queue!Active, RInv, HoldsRead, Steps
<1>5. OwnCommit'
  BY <1>1 DEF AInv, OwnCommit
<1>6. QED
  BY <1>2, <1>3, <1>5 DEF AInv

LEMMA QuietExecute ==
  ASSUME Alone, AInv, RInv', NEW c \in Coordinators,
         \/ ReadClaimed(c) \/ Spawn(c) \/ SpawnFails(c)
         \/ EventAccepted(c) \/ EventRefused(c) \/ EventMalformed(c) \/ LineUnreadable(c)
         \/ \E exit \in Exits : ChildExits(c, exit)
         \/ ReadResult(c) \/ NoResult(c)
         \/ MarkRefused(c) \/ ValidateRefused(c) \/ RegisterFailureLog(c)
  PROVE  AInv'
<1>1. UNCHANGED <<state, attempt, call>>
  BY DEF ReadClaimed, Spawn, SpawnFails, EventAccepted, EventRefused, EventMalformed,
         LineUnreadable, ChildExits, ReadResult, NoResult, MarkRefused, ValidateRefused,
         RegisterFailureLog, Keeps, queueVars, jobVars, evidenceVars,
         Queue!UpdateProgress, Queue!RegisterLog, Queue!jobVars, Queue!evidenceVars
<1>2. Works(c) /\ pc[c] # "committing"
  BY DEF ReadClaimed, Spawn, SpawnFails, EventAccepted, EventRefused, EventMalformed,
         LineUnreadable, ChildExits, ReadResult, NoResult, MarkRefused, ValidateRefused,
         RegisterFailureLog, Keeps, Goto, Works
<1>3. pc \in [Coordinators -> Steps] /\ held \in [Coordinators -> Holds \cup {NoHold}]
  BY DEF AInv, RInv, HoldsRead
<1>4. held'[c].job = held[c].job
  BY <1>3
     DEF ReadClaimed, Spawn, SpawnFails, EventAccepted, EventRefused, EventMalformed,
         LineUnreadable, ChildExits, ReadResult, NoResult, MarkRefused, ValidateRefused,
         RegisterFailureLog, Keeps
<1>5. /\ Works(c)'
      /\ pc'[c] \in {"claimed", "starting", "streaming", "exited", "marking"} =>
           pc[c] \in {"claimed", "starting", "streaming", "exited", "marking"}
      /\ pc'[c] \notin {"validating", "committing"}
  BY <1>3
     DEF ReadClaimed, Spawn, SpawnFails, EventAccepted, EventRefused, EventMalformed,
         LineUnreadable, ChildExits, ReadResult, NoResult, MarkRefused, ValidateRefused,
         RegisterFailureLog, Keeps, Goto, Works
<1>6. pc'[c] \in {"claimed", "starting", "streaming", "exited", "marking"} =>
        state[held[c].job] = "running"
  BY <1>5 DEF AInv, OwnRowFits
<1>7. QED
  BY <1>1, <1>2, <1>4, <1>5, <1>6, QuietMove

LEMMA ClaimOwns ==
  ASSUME Alone, AInv, RInv', NEW c \in Coordinators, NEW j \in Jobs, Claim(c, j)
  PROVE  AInv'
<1>1. \A d \in Coordinators : d = c
  BY DEF Alone
<1>2. /\ pc[c] = "idle" /\ pc'[c] = "claimed" /\ held'[c].job = j
      /\ state[j] = "queued" /\ state' = [state EXCEPT ![j] = "running"]
      /\ UNCHANGED <<attempt, call>>
      /\ state \in [Jobs -> Queue!States \cup {"absent"}]
  BY DEF Claim, Goto, Queue!ClaimNext, Queue!IsOldestQueued, Queue!evidenceVars,
         AInv, RInv, HoldsRead, Rows
<1>3. ActiveIsOwned'
  BY <1>1, <1>2 DEF AInv, ActiveIsOwned, Works, Queue!Active
<1>4. OwnRowFits'
  BY <1>1, <1>2 DEF OwnRowFits, Works
<1>5. OwnCommit'
  BY <1>1, <1>2 DEF AInv, OwnCommit
<1>6. QED
  BY <1>3, <1>4, <1>5 DEF AInv

LEMMA MarkOwns ==
  ASSUME Alone, AInv, RInv', NEW c \in Coordinators, Mark(c)
  PROVE  AInv'
<1>1. \A d \in Coordinators : d = c
  BY DEF Alone
<1>2. /\ pc[c] = "marking" /\ pc'[c] = "validating" /\ held' = held
      /\ state' = [state EXCEPT ![held[c].job] = "importing"]
      /\ UNCHANGED <<attempt, call>>
      /\ state \in [Jobs -> Queue!States \cup {"absent"}]
      /\ held[c].job \in Jobs
  BY DEF Mark, Keeps, Goto, Queue!MarkImporting, Queue!evidenceVars,
         AInv, RInv, HoldsRead, Rows, Works
<1>3. ActiveIsOwned'
  BY <1>1, <1>2 DEF AInv, ActiveIsOwned, Works, Queue!Active
<1>4. OwnRowFits'
  BY <1>1, <1>2 DEF AInv, OwnRowFits, Works
<1>5. OwnCommit'
  BY <1>1, <1>2 DEF AInv, OwnCommit
<1>6. QED
  BY <1>3, <1>4, <1>5 DEF AInv

LEMMA ValidateOwns ==
  ASSUME Alone, AInv, RInv', NEW c \in Coordinators, Validate(c)
  PROVE  AInv'
<1>1. \A d \in Coordinators : d = c
  BY DEF Alone
<1>2. /\ pc[c] = "validating" /\ pc'[c] = "committing" /\ held' = held
      /\ \E m : m.job = held[c].job /\ call' = [call EXCEPT ![c] = m]
      /\ UNCHANGED <<state, attempt>>
      /\ call = [w \in Callers |-> call[w]]
      /\ c \in Callers
  BY CoordinatorsAssumption
     DEF Validate, Keeps, Goto, Queue!CommitValidate, Queue!jobVars,
         AInv, RInv, HoldsRead, Rows
<1>3. ActiveIsOwned'
  BY <1>1, <1>2 DEF AInv, ActiveIsOwned, Works, Queue!Active
<1>4. OwnRowFits'
  BY <1>1, <1>2 DEF AInv, OwnRowFits, Works
<1>5. OwnCommit'
  BY <1>1, <1>2 DEF AInv, OwnCommit
<1>6. QED
  BY <1>3, <1>4, <1>5 DEF AInv

\* The coordinator ends a job of its own, and holds none.
LEMMA EndOwns ==
  ASSUME Alone, AInv, RInv', NEW c \in Coordinators, Works(c),
         NEW s \in {"completed", "failed"},
         state' = [state EXCEPT ![held[c].job] = s],
         pc'[c] = "idle",
         call' \in {call, [call EXCEPT ![c] = Queue!NoCall]},
         pc[c] = "committing" => call' # call
  PROVE  AInv'
<1>1. \A d \in Coordinators : d = c
  BY DEF Alone
<1>2. /\ state \in [Jobs -> Queue!States \cup {"absent"}]
      /\ held[c].job \in Jobs
      /\ call = [w \in Callers |-> call[w]]
      /\ c \in Callers
  BY CoordinatorsAssumption DEF AInv, RInv, HoldsRead, Rows
<1>3. ActiveIsOwned'
  BY <1>1, <1>2 DEF AInv, ActiveIsOwned, Works, Queue!Active
<1>4. OwnRowFits'
  BY <1>1 DEF OwnRowFits, Works
<1>5. OwnCommit'
  BY <1>1, <1>2 DEF AInv, OwnCommit, Queue!NoCall
<1>6. QED
  BY <1>3, <1>4, <1>5 DEF AInv

LEMMA CommitOwns ==
  ASSUME Alone, AInv, RInv', NEW c \in Coordinators, Commit(c)
  PROVE  AInv'
<1>1. \A d \in Coordinators : d = c
  BY DEF Alone
<1>2. /\ pc[c] = "committing" /\ Works(c)
      /\ call = [w \in Callers |-> call[w]]
      /\ c \in Callers
      /\ pc \in [Coordinators -> Steps]
      /\ call[c].op = "commit" /\ call[c].job = held[c].job
      /\ call' = [call EXCEPT ![c] = Queue!NoCall]
  BY CoordinatorsAssumption
     DEF Commit, Works, Queue!CommitImport, Queue!CommitRefused, AInv, RInv, HoldsRead, Rows, OwnCommit
<1>3. call'[c].op # "commit" /\ call' # call
  BY <1>2 DEF Queue!NoCall
<1>4. CASE Queue!CommitImport(c) /\ Goto(c, "committing", "idle")
  <2>1. state' = [state EXCEPT ![held[c].job] = "completed"] /\ pc'[c] = "idle"
    BY <1>2, <1>4 DEF Queue!CommitImport, Queue!CommitWrites, Goto
  <2>2. QED
    BY <1>2, <1>3, <2>1, EndOwns
<1>5. CASE Queue!CommitRefused(c) /\ Keeps(c, "committing", "failing")
  <2>1. pc'[c] = "failing" /\ held' = held /\ UNCHANGED <<state, attempt>>
    BY <1>2, <1>5 DEF Queue!CommitRefused, Keeps, Goto, Queue!jobVars
  <2>2. ActiveIsOwned'
    BY <1>1, <1>2, <2>1 DEF AInv, ActiveIsOwned, Works
  <2>3. OwnRowFits'
    BY <1>1, <1>2, <2>1 DEF AInv, OwnRowFits, Works, Queue!Active
  <2>4. OwnCommit'
    BY <1>1, <1>2, <1>3 DEF AInv, OwnCommit
  <2>5. QED
    BY <2>2, <2>3, <2>4 DEF AInv
<1>6. QED
  BY <1>4, <1>5 DEF Commit

LEMMA RecordOwns ==
  ASSUME Alone, AInv, RInv', NEW c \in Coordinators, RecordFailure(c)
  PROVE  AInv'
<1>1. pc[c] = "recording" /\ Works(c) /\ state[held[c].job] \in Queue!Active
  BY DEF RecordFailure, Goto, Works, AInv, OwnRowFits
<1>2. /\ state' = [state EXCEPT ![held[c].job] = "failed"]
      /\ call' = call
      /\ pc'[c] = "idle"
  BY <1>1 DEF RecordFailure, Goto, Queue!FailJob, AInv, RInv, HoldsRead
<1>3. QED
  BY <1>1, <1>2, EndOwns

LEMMA StartOwns ==
  ASSUME Alone, AInv, RInv', NEW c \in Coordinators, Start(c)
  PROVE  AInv'
<1>1. \A d \in Coordinators : d = c
  BY DEF Alone
<1>2. /\ pc[c] = "off" /\ pc'[c] = "idle"
      /\ \A j \in Jobs : state'[j] \notin Queue!Active
      /\ call' = call
  BY DEF Start, Goto, Queue!RecoverInterrupted, Queue!Active, AInv, RInv, HoldsRead
<1>3. ActiveIsOwned'
  BY <1>2 DEF ActiveIsOwned
<1>4. OwnRowFits'
  BY <1>1, <1>2 DEF OwnRowFits, Works
<1>5. OwnCommit'
  BY <1>1, <1>2 DEF AInv, OwnCommit
<1>6. QED
  BY <1>3, <1>4, <1>5 DEF AInv

LEMMA CrashOwns ==
  ASSUME Alone, AInv, RInv', NEW c \in Coordinators, Crash(c)
  PROVE  AInv'
<1>1. \A d \in Coordinators : d = c
  BY DEF Alone
<1>2. /\ pc'[c] = "off"
      /\ call' = [call EXCEPT ![c] = Queue!NoCall]
      /\ call = [w \in Callers |-> call[w]]
      /\ c \in Callers
  BY CoordinatorsAssumption DEF Crash, AInv, RInv, HoldsRead, Rows
<1>3. ActiveIsOwned'
  BY <1>1, <1>2 DEF ActiveIsOwned
<1>4. OwnRowFits'
  BY <1>1, <1>2 DEF OwnRowFits, Works
<1>5. OwnCommit'
  BY <1>1, <1>2 DEF AInv, OwnCommit, Queue!NoCall
<1>6. QED
  BY <1>3, <1>4, <1>5 DEF AInv

\* Windows queue and retry; neither touches an active row.
LEMMA WindowOwns ==
  ASSUME AInv, RInv',
         (\E w \in Windows : Window(w)) \/ RetryFromWindow
  PROVE  AInv'
<1>1. UNCHANGED <<pc, held>>
  BY DEF Window, RetryFromWindow
<1>2. \A j \in Jobs :
        /\ state'[j] \in Queue!Active => state'[j] = state[j]
        /\ state[j] \in Queue!Active => state'[j] = state[j] /\ attempt'[j] = attempt[j]
  <2>1. CASE \E w \in Windows, t \in Times : Queue!EnqueueInsert(w, t)
    <3>1. PICK w \in Windows, t \in Times : Queue!EnqueueInsert(w, t)
      BY <2>1
    <3> DEFINE k == call[w].job
    <3>2. /\ state[k] = "absent"
          /\ state' = [state EXCEPT ![k] = "queued"]
          /\ attempt' = [attempt EXCEPT ![k] = 1]
      BY <3>1 DEF Queue!EnqueueInsert, Queue!RowIsFree
    <3> HIDE DEF k
    <3>3. QED
      BY <3>2 DEF AInv, RInv, Rows, Queue!Active
  <2>2. CASE RetryFromWindow
    BY <2>2 DEF RetryFromWindow, Queue!Retry, Queue!Retryable, Queue!Active, AInv, RInv, Rows
  <2>3. CASE UNCHANGED <<state, attempt>>
    BY <2>3
  <2>4. QED
    BY <2>1, <2>2, <2>3
       DEF Window, Queue!EnqueueCheck, Queue!EnqueueRefused, Queue!jobVars
<1>3. \A w \in Callers : call'[w].op = "commit" => call'[w] = call[w]
  <2>1. CASE RetryFromWindow
    BY <2>1 DEF RetryFromWindow, Queue!Retry
  <2>2. ASSUME NEW w \in Windows, Window(w)
        PROVE  \E m : m.op # "commit" /\ call' = [call EXCEPT ![w] = m]
    BY <2>2 DEF Window, Queue!EnqueueCheck, Queue!EnqueueInsert, Queue!EnqueueRefused, Queue!NoCall
  <2>3. QED
    BY <2>1, <2>2 DEF AInv, RInv, Rows
<1>4. ActiveIsOwned'
  BY <1>1, <1>2 DEF AInv, ActiveIsOwned, Works
<1>5. \A c \in Coordinators : Works(c) => held[c].job \in Jobs /\ state[held[c].job] \in Queue!Active
  BY DEF AInv, RInv, HoldsRead, OwnRowFits, Works, Steps, Queue!Active
<1>6. OwnRowFits'
  <2> SUFFICES ASSUME NEW c \in Coordinators, Works(c)
               PROVE  LET s == state'[held[c].job]
                      IN /\ pc[c] \in {"claimed", "starting", "streaming", "exited", "marking"} => s = "running"
                         /\ pc[c] \in {"validating", "committing"} => s = "importing"
                         /\ pc[c] \in {"failing", "recording"} => s \in Queue!Active
    BY <1>1 DEF OwnRowFits, Works
  <2>1. state'[held[c].job] = state[held[c].job]
    BY <1>2, <1>5
  <2>2. QED
    BY <2>1 DEF AInv, OwnRowFits
<1>8. OwnCommit'
  BY <1>1, <1>3 DEF AInv, OwnCommit
<1>9. QED
  BY <1>4, <1>6, <1>8 DEF AInv

LEMMA NextAInv == NobodyOwns /\ Alone /\ AInv /\ [Next]_vars => AInv'
<1> SUFFICES ASSUME NobodyOwns, Alone, AInv, [Next]_vars PROVE AInv'
  OBVIOUS
<1>0. RInv'
  BY NextRInv DEF AInv
<1>1. ASSUME NEW c \in Coordinators, Execute(c) PROVE AInv'
  BY <1>0, <1>1, ClaimOwns, QuietExecute, MarkOwns, ValidateOwns, CommitOwns, RecordOwns
     DEF Execute
<1>2. ASSUME NEW c \in Coordinators, Start(c) \/ StoreRefuses(c) \/ Abandon(c) \/ Crash(c)
      PROVE  AInv'
  BY <1>0, <1>2, StartOwns, CrashOwns DEF StoreRefuses, Abandon, Alone
<1>3. CASE (\E w \in Windows : Window(w)) \/ RetryFromWindow
  BY <1>0, <1>3, WindowOwns
<1>4. CASE UNCHANGED vars
  <2>1. UNCHANGED <<state, attempt, call, pc, held>>
    BY <1>4 DEF vars, queueVars, jobVars
  <2>2. QED
    BY <1>0, <2>1
       DEF AInv, ActiveIsOwned, OwnRowFits, OwnCommit, Runs, Works
<1>5. QED
  BY <1>1, <1>2, <1>3, <1>4 DEF Next

LEMMA AInvHolds == NobodyOwns /\ Alone /\ Spec => []AInv
<1> SUFFICES ASSUME NobodyOwns, Alone PROVE Spec => []AInv
  OBVIOUS
<1>1. AInv /\ [Next]_vars => AInv'
  BY NextAInv
<1>2. QED
  BY InitAInv, <1>1, PTL DEF Spec

\* While the only coordinator of a database serves, no row is active that it
\* is not working on: recovery at the start and the failure path leave none
\* behind, whatever the windows queue and retry.
THEOREM ActiveIsOwnedAlone == NobodyOwns /\ Alone /\ Spec => []ActiveIsOwned
<1>1. AInv => ActiveIsOwned
  BY DEF AInv
<1>2. QED
  BY <1>1, AInvHolds, PTL
=============================================================================
