------------------------- MODULE IntakeQueueProofs -------------------------
(***************************************************************************)
(* Theorems about the intake queue for any number of connections, jobs,    *)
(* sources, contents and attempts.                                         *)
(***************************************************************************)
EXTENDS IntakeQueue, TLAPS

----------------------------------------------------------------------------
(* A call in flight is of the kind its field op says.                       *)

LEMMA CallKinds ==
  ASSUME TypeOK, NEW w \in Callers
  PROVE  /\ call[w].op = "enqueue" => call[w] \in EnqueueCalls
         /\ call[w].op = "commit" => call[w] \in CommitCalls
<1>1. call[w] \in {NoCall} \cup EnqueueCalls \cup CommitCalls
  BY DEF TypeOK
<1>2. CASE call[w] = NoCall
  BY <1>2 DEF NoCall
<1>3. CASE call[w] \in EnqueueCalls
  BY <1>3 DEF EnqueueCalls
<1>4. CASE call[w] \in CommitCalls
  BY <1>4 DEF CommitCalls
<1>5. QED
  BY <1>1, <1>2, <1>3, <1>4

LEMMA InitType == Init => TypeOK
BY AttemptAssumption DEF Init, TypeOK, Present, NoContent

LEMMA EnqueueType ==
  ASSUME TypeOK, NEW w \in Callers,
         \/ \E j \in Jobs, r \in Requests : EnqueueCheck(w, j, r)
         \/ \E t \in Times : EnqueueInsert(w, t)
         \/ EnqueueRefused(w)
         \/ CallLost(w)
  PROVE  TypeOK'
<1>1. CASE \E j \in Jobs, r \in Requests : EnqueueCheck(w, j, r)
  BY <1>1 DEF TypeOK, EnqueueCheck, EnqueueCalls, Present, jobVars, evidenceVars
<1>2. CASE \E t \in Times : EnqueueInsert(w, t)
  <2>1. PICK t \in Times : EnqueueInsert(w, t)
    BY <1>2
  <2>2. call[w].job \in Jobs /\ call[w].request \in Requests
    BY <2>1, CallKinds DEF EnqueueInsert, EnqueueCalls
  <2>3. 1 \in 0 .. MaxAttempt /\ t \in Nat
    BY AttemptAssumption, TimesAssumption
  <2>4. QED
    BY <2>1, <2>2, <2>3 DEF TypeOK, EnqueueInsert, States, Present, evidenceVars
<1>3. CASE EnqueueRefused(w) \/ CallLost(w)
  BY <1>3 DEF TypeOK, EnqueueRefused, CallLost, Present, jobVars, evidenceVars
<1>4. QED
  BY <1>1, <1>2, <1>3

LEMMA CommitType ==
  ASSUME TypeOK, NEW w \in Callers,
         \/ \E j \in Jobs, d \in Attempts, log \in BOOLEAN : CommitValidate(w, j, d, log)
         \/ CommitImport(w)
         \/ CommitRefused(w)
  PROVE  TypeOK'
<1>1. CASE \E j \in Jobs, d \in Attempts, log \in BOOLEAN : CommitValidate(w, j, d, log)
  BY <1>1 DEF TypeOK, CommitValidate, CommitCalls, Present, jobVars, evidenceVars
<1>2. CASE CommitImport(w)
  <2> DEFINE m == call[w]
             r == request[m.job]
             kinds == {"batch"} \cup (IF m.log THEN {"log"} ELSE {})
  <2>1. m \in CommitCalls
    BY <1>2, CallKinds DEF CommitImport
  <2>2. m.job \in Jobs /\ m.dir \in Attempts
    BY <2>1 DEF CommitCalls
  <2>3. m.job \in Present /\ r \in Requests
    BY <1>2, <2>2 DEF TypeOK, CommitImport, CommitAccepted, Present
  <2>4. r.source \in Sources /\ r.content \in Contents
    BY <2>3 DEF Requests
  <2>5. artifacts' \subseteq Jobs \X Attempts \X Kinds
    <3>1. artifacts' = artifacts \cup {<<m.job, m.dir, k>> : k \in kinds}
      BY <1>2 DEF CommitImport, CommitWrites
    <3>2. kinds \subseteq Kinds
      BY DEF Kinds
    <3>3. QED
      BY <2>2, <3>1, <3>2 DEF TypeOK
  <2>6. QED
    BY <1>2, <2>2, <2>3, <2>4, <2>5 DEF TypeOK, CommitImport, CommitWrites, States, Present
<1>3. CASE CommitRefused(w)
  BY <1>3 DEF TypeOK, CommitRefused, Present, jobVars, evidenceVars
<1>4. QED
  BY <1>1, <1>2, <1>3

LEMMA JobType ==
  ASSUME TypeOK, NEW j \in Jobs,
         \/ ClaimNext(j)
         \/ \E a \in 1 .. attempt[j] : UpdateProgress(j, a)
         \/ MarkImporting(j)
         \/ FailJob(j)
         \/ \E d \in Attempts : Retry(j, d)
         \/ \E d \in 1 .. attempt[j] : RegisterLog(j, d)
  PROVE  TypeOK'
<1>1. CASE ClaimNext(j)
  BY <1>1, AttemptAssumption
     DEF TypeOK, ClaimNext, IsOldestQueued, States, Present, evidenceVars
<1>2. CASE \E a \in 1 .. attempt[j] : UpdateProgress(j, a)
  BY <1>2, AttemptAssumption DEF TypeOK, UpdateProgress, Present, evidenceVars
<1>3. CASE MarkImporting(j) \/ FailJob(j)
  BY <1>3 DEF TypeOK, MarkImporting, FailJob, Active, States, Present, evidenceVars
<1>4. CASE \E d \in Attempts : Retry(j, d)
  <2>1. PICK d \in Attempts : Retry(j, d)
    BY <1>4
  <2>2. attempt[j] + 1 \in 1 .. MaxAttempt /\ d \in 1 .. MaxAttempt
    BY <2>1, AttemptAssumption DEF TypeOK, Retry, Attempts
  <2>3. 0 \in 0 .. MaxAttempt
    BY AttemptAssumption
  <2>4. QED
    BY <2>1, <2>2, <2>3, AttemptAssumption
       DEF TypeOK, Retry, Retryable, States, Present, evidenceVars
<1>5. CASE \E d \in 1 .. attempt[j] : RegisterLog(j, d)
  BY <1>5, AttemptAssumption
     DEF TypeOK, RegisterLog, Attempts, Kinds, Present, jobVars
<1>6. QED
  BY <1>1, <1>2, <1>3, <1>4, <1>5

LEMMA NextType == TypeOK /\ [Next]_vars => TypeOK'
<1> SUFFICES ASSUME TypeOK, [Next]_vars
             PROVE  TypeOK'
  OBVIOUS
<1>1. CASE \E w \in Callers :
             \/ \E j \in Jobs, r \in Requests : EnqueueCheck(w, j, r)
             \/ \E t \in Times : EnqueueInsert(w, t)
             \/ EnqueueRefused(w)
             \/ CallLost(w)
  BY <1>1, EnqueueType
<1>2. CASE \E w \in Callers :
             \/ \E j \in Jobs, d \in Attempts, log \in BOOLEAN : CommitValidate(w, j, d, log)
             \/ CommitImport(w)
             \/ CommitRefused(w)
  BY <1>2, CommitType
<1>3. CASE \E j \in Jobs :
             \/ ClaimNext(j)
             \/ \E a \in 1 .. attempt[j] : UpdateProgress(j, a)
             \/ MarkImporting(j)
             \/ FailJob(j)
             \/ \E d \in Attempts : Retry(j, d)
             \/ \E d \in 1 .. attempt[j] : RegisterLog(j, d)
  BY <1>3, JobType
<1>4. CASE RecoverInterrupted
  BY <1>4 DEF TypeOK, RecoverInterrupted, Active, States, Present, evidenceVars
<1>5. CASE \/ \E s \in Sources, c \in Contents : ImportNormalized(s, c)
           \/ \E s \in Sources : RelinkSource(s)
  BY <1>5 DEF TypeOK, ImportNormalized, RelinkSource, Present, jobVars
<1>6. CASE UNCHANGED vars
  BY <1>6 DEF TypeOK, Present, vars, jobVars, evidenceVars
<1>7. QED
  BY <1>1, <1>2, <1>3, <1>4, <1>5, <1>6 DEF Next, OneStatement, TwoStatements

\* Every statement leaves every column within its type, and every row whole.
THEOREM TypeCorrect == Spec => []TypeOK
<1>1. Init => TypeOK
  BY InitType
<1>2. TypeOK /\ [Next]_vars => TypeOK'
  BY NextType
<1>3. QED
  BY <1>1, <1>2, PTL DEF Spec

----------------------------------------------------------------------------
(* What makes the safety of the queue inductive: the two UNIQUE constraints *)
(* say that a job is known by its case and the source identifier it names,  *)
(* and a source by its content.                                             *)

\* UNIQUE(case_id, source_id) of intake_jobs.
JobsBySource ==
  \A i, j \in Present :
    /\ request[i].source = request[j].source
    /\ CaseOf[request[i].content] = CaseOf[request[j].content]
    => i = j

\* UNIQUE(case_id, sha256) of sources.
SourcesByContent == OneSpelling => OneSourcePerContent

IInv == TypeOK /\ JobsBySource /\ SourcesByContent /\ CompletedIsWhole

LEMMA InitIInv == Init => IInv
<1> SUFFICES ASSUME Init PROVE IInv
  OBVIOUS
<1>1. TypeOK
  BY InitType
<1>2. Present = {}
  BY DEF Init, Present
<1>3. JobsBySource /\ SourcesByContent /\ CompletedIsWhole
  BY <1>2 DEF Init, JobsBySource, SourcesByContent, OneSourcePerContent, CompletedIsWhole
<1>4. QED
  BY <1>1, <1>3 DEF IInv

\* The steps that write neither a request, a source nor a row's completion.
LEMMA QuietStep ==
  ASSUME IInv, TypeOK',
         UNCHANGED <<request, sources>>,
         locations \subseteq locations',
         artifacts \subseteq artifacts',
         \A j \in Jobs : state[j] = "absent" <=> state'[j] = "absent",
         \A j \in Jobs : state[j] = "completed" <=> state'[j] = "completed"
  PROVE  IInv'
<1>1. Present' = Present
  BY DEF Present
<1>2. JobsBySource' /\ SourcesByContent'
  BY <1>1 DEF IInv, JobsBySource, SourcesByContent, OneSourcePerContent
<1>3. CompletedIsWhole'
  BY DEF IInv, CompletedIsWhole
<1>4. QED
  BY <1>2, <1>3 DEF IInv

LEMMA EnqueueInsertStep ==
  ASSUME IInv, TypeOK', NEW w \in Callers, NEW t \in Times, EnqueueInsert(w, t)
  PROVE  IInv'
<1> DEFINE j == call[w].job
           r == call[w].request
<1>1. j \in Jobs /\ r \in Requests
  BY CallKinds DEF IInv, EnqueueInsert, EnqueueCalls
<1>2. /\ RowIsFree(j, r)
      /\ state' = [state EXCEPT ![j] = "queued"]
      /\ request' = [request EXCEPT ![j] = r]
      /\ UNCHANGED <<sources, locations, artifacts>>
  BY DEF EnqueueInsert, evidenceVars
<1>3. Present' = Present \cup {j} /\ j \notin Present
  BY <1>1, <1>2 DEF IInv, TypeOK, Present, RowIsFree
<1>4. /\ request'[j] = r
      /\ \A k \in Present :
           /\ request'[k] = request[k]
           /\ request[k].source = r.source => CaseOf[request[k].content] # CaseOf[r.content]
  BY <1>1, <1>2, <1>3 DEF IInv, TypeOK, Present, RowIsFree
<1>5. JobsBySource'
  BY <1>3, <1>4 DEF IInv, JobsBySource
<1>6. SourcesByContent'
  BY <1>2 DEF IInv, SourcesByContent, OneSourcePerContent
<1>7. CompletedIsWhole'
  <2> SUFFICES ASSUME NEW i \in Jobs, state'[i] = "completed"
               PROVE  /\ sources[request'[i].source] = request'[i].content
                      /\ request'[i].source \in locations
                      /\ \E d \in Attempts : <<i, d, "batch">> \in artifacts
    BY <1>2 DEF CompletedIsWhole
  <2>1. state[i] = "completed" /\ request'[i] = request[i]
    BY <1>1, <1>2 DEF IInv, TypeOK
  <2>2. QED
    BY <2>1 DEF IInv, CompletedIsWhole
<1>8. QED
  BY <1>5, <1>6, <1>7 DEF IInv

\* A job whose import the evidence admits names no source that a completed job
\* brought in: the source would hold the other's content, which is of another
\* case or another original.
LEMMA HeldByOne ==
  ASSUME IInv, NEW i \in Jobs, state[i] = "completed",
         NEW j \in Present, i # j, request[j] \in Requests,
         Importable(request[j].source, request[j].content)
  PROVE  request[i].source # request[j].source
<1> SUFFICES ASSUME request[i].source = request[j].source PROVE FALSE
  OBVIOUS
<1>1. i \in Present /\ request[i] \in Requests
  BY DEF IInv, TypeOK, Present
<1>2. sources[request[j].source] = request[i].content /\ request[i].content # NoContent
  BY <1>1, ContentsAssumption DEF IInv, CompletedIsWhole, Requests, NoContent
<1>3. request[i].content = request[j].content
  BY <1>2 DEF Importable
<1>4. QED
  BY <1>1, <1>3 DEF IInv, JobsBySource

\* What a commit leaves behind, in the terms of the invariant.
LEMMA CommitImportFacts ==
  ASSUME TypeOK, NEW w \in Callers, CommitImport(w)
  PROVE  LET j == call[w].job
             r == request[j]
         IN /\ j \in Present /\ state[j] = "importing" /\ r \in Requests
            /\ call[w].dir \in Attempts
            /\ Importable(r.source, r.content)
            /\ state' = [state EXCEPT ![j] = "completed"]
            /\ sources' = [sources EXCEPT ![r.source] = r.content]
            /\ locations' = locations \cup {r.source}
            /\ artifacts \subseteq artifacts'
            /\ <<j, call[w].dir, "batch">> \in artifacts'
            /\ UNCHANGED <<attempt, dir, request, created, progress>>
<1> DEFINE m == call[w]
<1>1. m \in CommitCalls
  BY CallKinds DEF CommitImport
<1>2. m.job \in Jobs /\ m.dir \in Attempts
  BY <1>1 DEF CommitCalls
<1>3. m.job \in Present /\ request[m.job] \in Requests
  BY <1>2 DEF TypeOK, CommitImport, CommitAccepted, Present
<1>4. QED
  BY <1>2, <1>3 DEF CommitImport, CommitAccepted, CommitWrites

LEMMA CommitImportStep ==
  ASSUME IInv, TypeOK', NEW w \in Callers, CommitImport(w)
  PROVE  IInv'
<1> DEFINE j == call[w].job
           r == request[j]
<1>1. /\ j \in Present /\ j \in Jobs /\ state[j] = "importing" /\ r \in Requests
      /\ call[w].dir \in Attempts
      /\ Importable(r.source, r.content)
      /\ state' = [state EXCEPT ![j] = "completed"]
      /\ sources' = [sources EXCEPT ![r.source] = r.content]
      /\ locations' = locations \cup {r.source}
      /\ artifacts \subseteq artifacts'
      /\ <<j, call[w].dir, "batch">> \in artifacts'
      /\ request' = request
  BY CommitImportFacts DEF IInv, Present
<1>2. r.source \in Sources /\ r.content \in Contents
  BY <1>1 DEF Requests
<1>3. Present' = Present
  BY <1>1 DEF IInv, TypeOK, Present
<1>4. JobsBySource'
  BY <1>1, <1>3 DEF IInv, JobsBySource
<1>5. SourcesByContent'
  BY <1>1, <1>2 DEF IInv, TypeOK, SourcesByContent, OneSourcePerContent, Importable, Repeats, IsImported
<1>6. CompletedIsWhole'
  <2> SUFFICES ASSUME NEW i \in Jobs, state'[i] = "completed"
               PROVE  /\ sources'[request[i].source] = request[i].content
                      /\ request[i].source \in locations'
                      /\ \E d \in Attempts : <<i, d, "batch">> \in artifacts'
    BY <1>1 DEF CompletedIsWhole
  <2>1. CASE i = j
    BY <2>1, <1>1, <1>2 DEF IInv, TypeOK
  <2>2. CASE i # j
    <3>1. state[i] = "completed" /\ i \in Present
      BY <2>2, <1>1 DEF IInv, TypeOK, Present
    <3>2. request[i].source # r.source /\ request[i].source \in Sources
      BY <2>2, <3>1, <1>1, HeldByOne DEF IInv, TypeOK, Present, Requests
    <3>3. sources'[request[i].source] = sources[request[i].source]
      BY <3>2, <1>1 DEF IInv, TypeOK
    <3>4. QED
      BY <3>1, <3>3, <1>1 DEF IInv, CompletedIsWhole
  <2>3. QED
    BY <2>1, <2>2
<1>7. QED
  BY <1>4, <1>5, <1>6 DEF IInv

LEMMA ImportStep ==
  ASSUME IInv, TypeOK', NEW s \in Sources, NEW c \in Contents, ImportNormalized(s, c)
  PROVE  IInv'
<1>1. /\ sources[s] = NoContent
      /\ ~ Repeats(c)
      /\ sources' = [sources EXCEPT ![s] = c]
      /\ UNCHANGED <<state, request, locations, artifacts>>
  BY DEF ImportNormalized, jobVars
<1>2. JobsBySource'
  BY <1>1 DEF IInv, JobsBySource, Present
<1>3. SourcesByContent'
  BY <1>1 DEF IInv, TypeOK, SourcesByContent, OneSourcePerContent, Repeats, IsImported
<1>4. CompletedIsWhole'
  <2> SUFFICES ASSUME NEW i \in Jobs, state[i] = "completed"
               PROVE  /\ sources'[request[i].source] = request[i].content
                      /\ request[i].source \in locations
                      /\ \E d \in Attempts : <<i, d, "batch">> \in artifacts
    BY <1>1 DEF CompletedIsWhole
  <2>1. request[i] \in Requests /\ sources[request[i].source] = request[i].content
    BY DEF IInv, TypeOK, CompletedIsWhole, Present
  <2>2. request[i].source # s
    BY <2>1, <1>1, ContentsAssumption DEF Requests, NoContent
  <2>3. QED
    BY <2>1, <2>2, <1>1 DEF IInv, TypeOK, CompletedIsWhole, Requests
<1>5. QED
  BY <1>2, <1>3, <1>4 DEF IInv

LEMMA NextIInv == IInv /\ [Next]_vars => IInv'
<1> SUFFICES ASSUME IInv, [Next]_vars
             PROVE  IInv'
  OBVIOUS
<1>0. TypeOK /\ TypeOK'
  BY NextType DEF IInv
<1>1. CASE \E w \in Callers, t \in Times : EnqueueInsert(w, t)
  BY <1>0, <1>1, EnqueueInsertStep
<1>2. CASE \E w \in Callers : CommitImport(w)
  BY <1>0, <1>2, CommitImportStep
<1>3. CASE \E s \in Sources, c \in Contents : ImportNormalized(s, c)
  BY <1>0, <1>3, ImportStep
<1>4. CASE \E w \in Callers :
             \/ \E j \in Jobs, r \in Requests : EnqueueCheck(w, j, r)
             \/ EnqueueRefused(w)
             \/ \E j \in Jobs, d \in Attempts, log \in BOOLEAN : CommitValidate(w, j, d, log)
             \/ CommitRefused(w)
             \/ CallLost(w)
  <2>1. UNCHANGED <<jobVars, evidenceVars>>
    BY <1>4 DEF EnqueueCheck, EnqueueRefused, CommitValidate, CommitRefused, CallLost
  <2>2. QED
    BY <2>1, <1>0, QuietStep DEF jobVars, evidenceVars
<1>5. CASE \E j \in Jobs :
             \/ ClaimNext(j)
             \/ \E a \in 1 .. attempt[j] : UpdateProgress(j, a)
             \/ MarkImporting(j)
             \/ FailJob(j)
             \/ \E d \in Attempts : Retry(j, d)
  <2>1. PICK j \in Jobs :
             \/ ClaimNext(j)
             \/ \E a \in 1 .. attempt[j] : UpdateProgress(j, a)
             \/ MarkImporting(j)
             \/ FailJob(j)
             \/ \E d \in Attempts : Retry(j, d)
    BY <1>5
  <2>2. UNCHANGED <<request, sources, locations, artifacts>>
    BY <2>1 DEF ClaimNext, UpdateProgress, MarkImporting, FailJob, Retry, evidenceVars
  <2>3. \A k \in Jobs : state[k] = "absent" <=> state'[k] = "absent"
    BY <2>1, <1>0 DEF TypeOK, ClaimNext, IsOldestQueued, UpdateProgress, MarkImporting,
                      FailJob, Active, Retry, Retryable
  <2>4. \A k \in Jobs : state[k] = "completed" <=> state'[k] = "completed"
    BY <2>1, <1>0 DEF TypeOK, ClaimNext, IsOldestQueued, UpdateProgress, MarkImporting,
                      FailJob, Active, Retry, Retryable
  <2>5. QED
    BY <2>2, <2>3, <2>4, <1>0, QuietStep
<1>6. CASE RecoverInterrupted
  <2>1. \A k \in Jobs : state[k] = "absent" <=> state'[k] = "absent"
    BY <1>6 DEF RecoverInterrupted, Active
  <2>2. \A k \in Jobs : state[k] = "completed" <=> state'[k] = "completed"
    BY <1>6 DEF RecoverInterrupted, Active
  <2>3. UNCHANGED <<request, sources, locations, artifacts>>
    BY <1>6 DEF RecoverInterrupted, evidenceVars
  <2>4. QED
    BY <2>1, <2>2, <2>3, <1>0, QuietStep
<1>7. CASE \/ \E j \in Jobs : \E d \in 1 .. attempt[j] : RegisterLog(j, d)
           \/ \E s \in Sources : RelinkSource(s)
           \/ UNCHANGED vars
  <2>1. /\ UNCHANGED <<state, request, sources>>
        /\ locations \subseteq locations'
        /\ artifacts \subseteq artifacts'
    BY <1>7 DEF RegisterLog, RelinkSource, vars, jobVars, evidenceVars
  <2>2. QED
    BY <2>1, <1>0, QuietStep
<1>8. QED
  BY <1>1, <1>2, <1>3, <1>4, <1>5, <1>6, <1>7 DEF Next, OneStatement, TwoStatements

LEMMA IInvHolds == Spec => []IInv
<1>1. QED
  BY InitIInv, NextIInv, PTL DEF Spec

\* A completed job has its original, a path to it and its batch, whatever the
\* other connections do and however many there are.
THEOREM CompletedIsWholeHolds == Spec => []CompletedIsWhole
<1>1. IInv => CompletedIsWhole
  BY DEF IInv
<1>2. QED
  BY <1>1, IInvHolds, PTL

\* Where hashes are written in one way, the schema keeps every original under
\* one source identifier, whoever imports it.
THEOREM OneSourcePerContentWhenSpelled == OneSpelling /\ Spec => []OneSourcePerContent
<1> SUFFICES ASSUME OneSpelling PROVE Spec => []OneSourcePerContent
  OBVIOUS
<1>1. IInv => OneSourcePerContent
  BY DEF IInv, SourcesByContent
<1>2. QED
  BY <1>1, IInvHolds, PTL

\* And no original is brought in by two jobs, though nothing rechecks for a
\* duplicate after the check of enqueue_intake_job.
THEOREM CompletedOncePerContentWhenSpelled == OneSpelling /\ Spec => []CompletedOncePerContent
<1> SUFFICES ASSUME OneSpelling PROVE Spec => []CompletedOncePerContent
  OBVIOUS
<1>1. IInv => CompletedOncePerContent
  <2> SUFFICES ASSUME IInv, NEW i \in Jobs, NEW j \in Jobs,
                      state[i] = "completed", state[j] = "completed",
                      request[i].content = request[j].content
               PROVE  i = j
    BY DEF CompletedOncePerContent
  <2>1. /\ i \in Present /\ request[i] \in Requests
        /\ j \in Present /\ request[j] \in Requests
    BY DEF IInv, TypeOK, Present
  <2>2. /\ sources[request[i].source] = request[i].content
        /\ sources[request[j].source] = request[j].content
        /\ request[i].content # NoContent
    BY <2>1, ContentsAssumption DEF IInv, CompletedIsWhole, Requests, NoContent
  <2>3. request[i].source = request[j].source
    BY <2>1, <2>2 DEF IInv, SourcesByContent, OneSourcePerContent, Requests
  <2>4. QED
    BY <2>1, <2>3 DEF IInv, JobsBySource
<1>2. QED
  BY <1>1, IInvHolds, PTL

----------------------------------------------------------------------------
(* Completion is final.                                                    *)

CompletedStays ==
  \A j \in Jobs :
    state[j] = "completed" =>
      /\ state'[j] = "completed"
      /\ attempt'[j] = attempt[j]
      /\ dir'[j] = dir[j]
      /\ progress'[j] = progress[j]
      /\ request[j].source \in locations'
      /\ sources'[request[j].source] = sources[request[j].source]

LEMMA CompletedStaysStep ==
  ASSUME IInv, [Next]_vars
  PROVE  CompletedStays
<1> SUFFICES ASSUME NEW j \in Jobs, state[j] = "completed"
             PROVE  /\ state'[j] = "completed"
                    /\ attempt'[j] = attempt[j]
                    /\ dir'[j] = dir[j]
                    /\ progress'[j] = progress[j]
                    /\ request[j].source \in locations'
                    /\ sources'[request[j].source] = sources[request[j].source]
  BY DEF CompletedStays
<1>0. /\ TypeOK
      /\ j \in Present /\ request[j] \in Requests
      /\ request[j].source \in Sources
      /\ request[j].source \in locations
      /\ sources[request[j].source] = request[j].content
      /\ request[j].content # NoContent
  BY ContentsAssumption DEF IInv, TypeOK, CompletedIsWhole, Present, Requests, NoContent
<1>1. CASE \E w \in Callers, t \in Times : EnqueueInsert(w, t)
  <2>1. PICK w \in Callers, t \in Times : EnqueueInsert(w, t)
    BY <1>1
  <2>2. j # call[w].job
    BY <2>1 DEF EnqueueInsert, RowIsFree
  <2>3. QED
    BY <2>1, <2>2, <1>0 DEF TypeOK, EnqueueInsert, evidenceVars
<1>2. CASE \E w \in Callers : CommitImport(w)
  <2>1. PICK w \in Callers : CommitImport(w)
    BY <1>2
  <2> DEFINE i == call[w].job
  <2>2. /\ i \in Present /\ state[i] = "importing" /\ request[i] \in Requests
        /\ state' = [state EXCEPT ![i] = "completed"]
        /\ sources' = [sources EXCEPT ![request[i].source] = request[i].content]
        /\ locations' = locations \cup {request[i].source}
        /\ UNCHANGED <<attempt, dir, progress>>
    BY <2>1, <1>0, CommitImportFacts
  <2>3. request[i].source # request[j].source
    <3>1. Importable(request[i].source, request[i].content)
      BY <2>1, <1>0, CommitImportFacts
    <3>2. QED
      BY <2>2, <3>1, <1>0, HeldByOne DEF Present
  <2>4. QED
    BY <2>2, <2>3, <1>0 DEF TypeOK, Present
<1>3. CASE \E s \in Sources, c \in Contents : ImportNormalized(s, c)
  BY <1>3, <1>0 DEF TypeOK, ImportNormalized, jobVars
<1>4. CASE \E w \in Callers :
             \/ \E i \in Jobs, r \in Requests : EnqueueCheck(w, i, r)
             \/ EnqueueRefused(w)
             \/ \E i \in Jobs, d \in Attempts, log \in BOOLEAN : CommitValidate(w, i, d, log)
             \/ CommitRefused(w)
             \/ CallLost(w)
  <2>1. UNCHANGED <<jobVars, evidenceVars>>
    BY <1>4 DEF EnqueueCheck, EnqueueRefused, CommitValidate, CommitRefused, CallLost
  <2>2. QED
    BY <2>1, <1>0 DEF jobVars, evidenceVars
<1>5. CASE \E i \in Jobs :
             \/ ClaimNext(i)
             \/ \E a \in 1 .. attempt[i] : UpdateProgress(i, a)
             \/ MarkImporting(i)
             \/ FailJob(i)
             \/ \E d \in Attempts : Retry(i, d)
  BY <1>5, <1>0 DEF TypeOK, ClaimNext, IsOldestQueued, UpdateProgress, MarkImporting,
                    FailJob, Active, Retry, Retryable, evidenceVars
<1>6. CASE RecoverInterrupted
  BY <1>6, <1>0 DEF TypeOK, RecoverInterrupted, Active, evidenceVars
<1>7. CASE \/ \E i \in Jobs : \E d \in 1 .. attempt[i] : RegisterLog(i, d)
           \/ \E s \in Sources : RelinkSource(s)
           \/ UNCHANGED vars
  BY <1>7, <1>0 DEF RegisterLog, RelinkSource, vars, jobVars, evidenceVars
<1>8. QED
  BY <1>1, <1>2, <1>3, <1>4, <1>5, <1>6, <1>7 DEF Next, OneStatement, TwoStatements

\* No late failure, recovery, retry or second commit touches a completed job,
\* its location or its source.
THEOREM CompletedIsFinalHolds == Spec => CompletedIsFinal
<1>1. IInv /\ [Next]_vars => [CompletedStays]_vars
  BY CompletedStaysStep
<1>2. Spec => [][CompletedStays]_vars
  BY <1>1, IInvHolds, PTL DEF Spec
<1>3. QED
  BY <1>2 DEF CompletedIsFinal, CompletedStays

----------------------------------------------------------------------------
(* A commit whose job is left alone imports the files of the attempt that   *)
(* the row describes.                                                      *)

\* The commits in flight still match the rows they were checked against.
CommitsAreCurrent ==
  \A w \in Callers :
    call[w].op = "commit" =>
      /\ state[call[w].job] \in {"importing", "completed"}
      /\ dir[call[w].job] = call[w].dir

OwnedInv == TypeOK /\ CommitsAreCurrent /\ ResultIsConfined

LEMMA OwnedStep ==
  ASSUME ExclusiveOwner, OwnedInv, [Next]_vars
  PROVE  OwnedInv'
<1>0. TypeOK /\ TypeOK'
  BY NextType DEF OwnedInv
<1>1. ASSUME NEW w \in Callers, call[w].op = "commit"
      PROVE  /\ call[w] \in CommitCalls
             /\ call[w].job \in Jobs
             /\ state[call[w].job] \in {"importing", "completed"}
             /\ dir[call[w].job] = call[w].dir
  BY <1>1, <1>0, CallKinds DEF OwnedInv, CommitsAreCurrent, CommitCalls
<1>2. CASE \E w \in Callers, t \in Times : EnqueueInsert(w, t)
  <2>1. PICK w \in Callers, t \in Times : EnqueueInsert(w, t)
    BY <1>2
  <2> DEFINE i == call[w].job
  <2>2. /\ i \in Jobs /\ state[i] = "absent"
        /\ state' = [state EXCEPT ![i] = "queued"]
        /\ dir' = [dir EXCEPT ![i] = 1]
        /\ call' = [call EXCEPT ![w] = NoCall]
        /\ artifacts' = artifacts
    BY <2>1, <1>0, CallKinds DEF EnqueueInsert, EnqueueCalls, RowIsFree, evidenceVars
  <2>3. CommitsAreCurrent'
    BY <2>2, <1>0, <1>1 DEF TypeOK, CommitsAreCurrent, NoCall
  <2>4. ResultIsConfined'
    BY <2>2, <1>0 DEF TypeOK, OwnedInv, ResultIsConfined
  <2>5. QED
    BY <2>3, <2>4, <1>0 DEF OwnedInv
<1>3. CASE \E w \in Callers : CommitImport(w)
  <2>1. PICK w \in Callers : CommitImport(w)
    BY <1>3
  <2> DEFINE i == call[w].job
  <2>2. /\ i \in Jobs
        /\ call[w].op = "commit"
        /\ state' = [state EXCEPT ![i] = "completed"]
        /\ dir' = dir
        /\ call' = [call EXCEPT ![w] = NoCall]
        /\ artifacts \subseteq artifacts'
        /\ <<i, call[w].dir, "batch">> \in artifacts'
    BY <2>1, <1>0, CommitImportFacts DEF CommitImport, Present
  <2>3. CommitsAreCurrent'
    BY <2>2, <1>0, <1>1 DEF TypeOK, CommitsAreCurrent, NoCall
  <2>4. ResultIsConfined'
    BY <2>2, <1>0, <1>1 DEF TypeOK, OwnedInv, ResultIsConfined
  <2>5. QED
    BY <2>3, <2>4, <1>0 DEF OwnedInv
<1>4. CASE \E w \in Callers, j \in Jobs, d \in Attempts, log \in BOOLEAN :
             CommitValidate(w, j, d, log)
  <2>1. UNCHANGED <<state, dir, artifacts>>
    BY <1>4 DEF CommitValidate, jobVars, evidenceVars
  <2>2. CommitsAreCurrent'
    BY <1>4, <2>1, <1>0, <1>1 DEF TypeOK, CommitValidate, Confined, CommitsAreCurrent
  <2>3. QED
    BY <2>1, <2>2, <1>0 DEF OwnedInv, ResultIsConfined
<1>5. CASE \E w \in Callers :
             \/ \E j \in Jobs, r \in Requests : EnqueueCheck(w, j, r)
             \/ EnqueueRefused(w)
             \/ CommitRefused(w)
             \/ CallLost(w)
  <2>1. UNCHANGED <<state, dir, artifacts>>
    BY <1>5 DEF EnqueueCheck, EnqueueRefused, CommitRefused, CallLost, jobVars, evidenceVars
  <2>2. CommitsAreCurrent'
    BY <1>5, <2>1, <1>0, <1>1
       DEF TypeOK, EnqueueCheck, EnqueueRefused, CommitRefused, CallLost, NoCall, CommitsAreCurrent
  <2>3. QED
    BY <2>1, <2>2, <1>0 DEF OwnedInv, ResultIsConfined
<1>6. CASE \E j \in Jobs :
             \/ ClaimNext(j)
             \/ \E a \in 1 .. attempt[j] : UpdateProgress(j, a)
             \/ MarkImporting(j)
             \/ MayEnd({j}) /\ FailJob(j)
             \/ \E d \in Attempts : Retry(j, d)
  <2>1. PICK j \in Jobs :
             \/ ClaimNext(j)
             \/ \E a \in 1 .. attempt[j] : UpdateProgress(j, a)
             \/ MarkImporting(j)
             \/ MayEnd({j}) /\ FailJob(j)
             \/ \E d \in Attempts : Retry(j, d)
    BY <1>6
  <2>2. /\ UNCHANGED <<artifacts, call>>
        /\ state[j] # "completed" /\ state'[j] # "completed"
        /\ \A k \in Jobs \ {j} : state'[k] = state[k] /\ dir'[k] = dir[k]
    BY <2>1, <1>0 DEF TypeOK, ClaimNext, IsOldestQueued, UpdateProgress, MarkImporting,
                      FailJob, Active, Retry, Retryable, evidenceVars
  <2>3. ~ \E w \in Callers : call[w].op = "commit" /\ call[w].job = j
    BY <2>1, <2>2, <1>1 DEF ClaimNext, IsOldestQueued, UpdateProgress, MarkImporting,
                      MayEnd, Retry, Retryable
  <2>4. CommitsAreCurrent'
    BY <2>2, <2>3, <1>1 DEF CommitsAreCurrent
  <2>5. ResultIsConfined'
    BY <2>2 DEF OwnedInv, ResultIsConfined
  <2>6. QED
    BY <2>4, <2>5, <1>0 DEF OwnedInv
<1>7. CASE MayEnd(Jobs) /\ RecoverInterrupted
  <2>1. ~ \E w \in Callers : call[w].op = "commit"
    BY <1>7, <1>1 DEF MayEnd
  <2>2. QED
    BY <1>7, <2>1, <1>0
       DEF OwnedInv, CommitsAreCurrent, ResultIsConfined, RecoverInterrupted, evidenceVars
<1>8. CASE \/ \E j \in Jobs : \E d \in 1 .. attempt[j] : RegisterLog(j, d)
           \/ \E s \in Sources, c \in Contents : ImportNormalized(s, c)
           \/ \E s \in Sources : RelinkSource(s)
           \/ UNCHANGED vars
  <2>1. UNCHANGED <<state, dir, call>> /\ artifacts \subseteq artifacts'
    BY <1>8 DEF RegisterLog, ImportNormalized, RelinkSource, vars, jobVars, evidenceVars
  <2>2. QED
    BY <2>1, <1>0 DEF OwnedInv, CommitsAreCurrent, ResultIsConfined
<1>9. QED
  BY <1>2, <1>3, <1>4, <1>5, <1>6, <1>7, <1>8 DEF Next, OneStatement, TwoStatements

\* While nobody else ends a job whose commit is in flight, the batch it keeps
\* is the one in the directory its row names.
THEOREM ResultIsConfinedWhenOwned == ExclusiveOwner /\ Spec => []ResultIsConfined
<1>1. Init => OwnedInv
  <2> SUFFICES ASSUME Init PROVE OwnedInv
    OBVIOUS
  <2>1. TypeOK
    BY InitType
  <2>2. CommitsAreCurrent /\ ResultIsConfined
    BY DEF Init, CommitsAreCurrent, ResultIsConfined, NoCall
  <2>3. QED
    BY <2>1, <2>2 DEF OwnedInv
<1>2. CASE ExclusiveOwner
  <2>1. OwnedInv /\ [Next]_vars => OwnedInv'
    BY <1>2, OwnedStep
  <2>2. OwnedInv => ResultIsConfined
    BY DEF OwnedInv
  <2>3. QED
    BY <1>1, <2>1, <2>2, PTL DEF Spec
<1>3. QED
  BY <1>2

----------------------------------------------------------------------------
(* The claim serves first attempts in the order of their creation.          *)

LEMMA OrderStep ==
  ASSUME TypeOK, FirstAttemptsInOrder, [Next]_vars
  PROVE  FirstAttemptsInOrder'
<1>1. TypeOK'
  BY NextType
<1> SUFFICES ASSUME NEW i \in Jobs, NEW j \in Jobs,
                    state'[i] # "absent", state'[j] # "absent",
                    created'[i] < created'[j],
                    state'[i] = "queued", attempt'[i] = 1
             PROVE  state'[j] = "queued" /\ attempt'[j] = 1
  BY DEF FirstAttemptsInOrder, Present
<1>2. CASE \E w \in Callers, t \in Times : EnqueueInsert(w, t)
  <2>1. PICK w \in Callers, t \in Times : EnqueueInsert(w, t)
    BY <1>2
  <2> DEFINE n == call[w].job
  <2>2. /\ n \in Jobs /\ state[n] = "absent" /\ IsNow(t) /\ t \in Nat
        /\ state' = [state EXCEPT ![n] = "queued"]
        /\ attempt' = [attempt EXCEPT ![n] = 1]
        /\ created' = [created EXCEPT ![n] = t]
    BY <2>1, CallKinds, TimesAssumption DEF EnqueueInsert, EnqueueCalls, RowIsFree
  <2>3. CASE j = n
    BY <2>2, <2>3 DEF TypeOK
  <2>4. CASE i = n /\ j # n
    <3>1. j \in Present /\ created[j] <= t /\ created'[i] = t /\ created'[j] = created[j]
      BY <2>2, <2>4 DEF TypeOK, Present, IsNow
    <3>2. t \in Nat /\ created[j] \in Nat
      BY <2>2 DEF TypeOK
    <3>3. QED
      BY <3>1, <3>2
  <2>5. CASE i # n /\ j # n
    BY <2>2, <2>5 DEF TypeOK, Present, FirstAttemptsInOrder
  <2>6. QED
    BY <2>3, <2>4, <2>5
<1>3. CASE \E k \in Jobs : ClaimNext(k)
  <2>1. PICK k \in Jobs : ClaimNext(k)
    BY <1>3
  <2>2. /\ IsOldestQueued(k)
        /\ state' = [state EXCEPT ![k] = "running"]
        /\ UNCHANGED <<attempt, created>>
    BY <2>1 DEF ClaimNext
  <2>3. i # k /\ state[i] = "queued" /\ attempt[i] = 1 /\ created[i] < created[j]
    BY <2>2 DEF TypeOK
  <2>4. state[j] = "queued" /\ attempt[j] = 1
    BY <2>2, <2>3 DEF TypeOK, FirstAttemptsInOrder, Present, IsOldestQueued
  <2>5. j # k
    <3>1. SUFFICES ASSUME j = k PROVE FALSE
      OBVIOUS
    <3>2. created[k] < created[i] \/ created[k] = created[i]
      BY <2>2, <2>3 DEF IsOldestQueued, Before
    <3>3. created[i] \in Nat /\ created[k] \in Nat
      BY DEF TypeOK
    <3>4. QED
      BY <2>3, <3>1, <3>2, <3>3
  <2>6. QED
    BY <2>2, <2>4, <2>5 DEF TypeOK
<1>4. CASE \E k \in Jobs, d \in Attempts : Retry(k, d)
  <2>1. PICK k \in Jobs, d \in Attempts : Retry(k, d)
    BY <1>4
  <2>2. /\ state[k] \in Retryable
        /\ state' = [state EXCEPT ![k] = "queued"]
        /\ attempt' = [attempt EXCEPT ![k] = attempt[k] + 1]
        /\ UNCHANGED created
    BY <2>1 DEF Retry
  <2>3. attempt[k] \in Nat /\ attempt[k] > 0
    BY <2>2, AttemptAssumption DEF TypeOK, Present, Retryable
  <2>4. i # k
    BY <2>2, <2>3 DEF TypeOK
  <2>5. state[i] = "queued" /\ attempt[i] = 1 /\ created[i] < created[j] /\ state[j] # "absent"
    BY <2>2, <2>4 DEF TypeOK, Retryable
  <2>6. state[j] = "queued" /\ attempt[j] = 1
    BY <2>5 DEF FirstAttemptsInOrder, Present
  <2>7. QED
    BY <2>2, <2>6 DEF TypeOK, Retryable
<1>5. CASE \/ \E k \in Jobs : MarkImporting(k) \/ FailJob(k)
           \/ RecoverInterrupted
           \/ \E w \in Callers : CommitImport(w)
  <2>1. /\ UNCHANGED <<attempt, created>>
        /\ \A k \in Jobs : state'[k] = state[k] \/ (state[k] \in Active /\ state'[k] \notin {"queued", "absent"})
    <3>1. CASE \E k \in Jobs : MarkImporting(k) \/ FailJob(k)
      BY <3>1 DEF TypeOK, MarkImporting, FailJob, Active
    <3>2. CASE RecoverInterrupted
      BY <3>2 DEF TypeOK, RecoverInterrupted, Active
    <3>3. CASE \E w \in Callers : CommitImport(w)
      BY <3>3, CommitImportFacts DEF TypeOK, Active, Present
    <3>4. QED
      BY <1>5, <3>1, <3>2, <3>3
  <2>2. state[i] = "queued" /\ attempt[i] = 1 /\ created[i] < created[j] /\ state[j] # "absent"
    BY <2>1 DEF Active
  <2>3. state[j] = "queued" /\ attempt[j] = 1
    BY <2>2 DEF FirstAttemptsInOrder, Present
  <2>4. QED
    BY <2>1, <2>3 DEF Active
<1>6. CASE UNCHANGED <<state, attempt, created>>
  BY <1>6 DEF FirstAttemptsInOrder, Present
<1>7. QED
  <2>1. CASE \/ \E w \in Callers :
                  \/ \E k \in Jobs, r \in Requests : EnqueueCheck(w, k, r)
                  \/ EnqueueRefused(w)
                  \/ \E k \in Jobs, d \in Attempts, log \in BOOLEAN : CommitValidate(w, k, d, log)
                  \/ CommitRefused(w)
                  \/ CallLost(w)
             \/ \E k \in Jobs : \E a \in 1 .. attempt[k] : UpdateProgress(k, a)
             \/ \E k \in Jobs : \E d \in 1 .. attempt[k] : RegisterLog(k, d)
             \/ \E s \in Sources, c \in Contents : ImportNormalized(s, c)
             \/ \E s \in Sources : RelinkSource(s)
             \/ UNCHANGED vars
    BY <2>1, <1>6 DEF EnqueueCheck, EnqueueRefused, CommitValidate, CommitRefused, CallLost,
                      UpdateProgress, RegisterLog, ImportNormalized, RelinkSource, jobVars, vars
  <2>2. QED
    BY <2>1, <1>2, <1>3, <1>4, <1>5 DEF Next, OneStatement, TwoStatements

\* Whatever the connections do, a job waiting for its first attempt is overtaken
\* by no job created after it.
THEOREM FirstAttemptsInOrderHolds == Spec => []FirstAttemptsInOrder
<1>1. Init => FirstAttemptsInOrder
  BY DEF Init, FirstAttemptsInOrder, Present
<1>2. TypeOK /\ FirstAttemptsInOrder /\ [Next]_vars => FirstAttemptsInOrder'
  BY OrderStep
<1>3. QED
  BY <1>1, <1>2, TypeCorrect, PTL DEF Spec

----------------------------------------------------------------------------
(* The queue implements the ledger.                                        *)

LEMMA Phases ==
  /\ PhaseOf("absent") = "absent"
  /\ PhaseOf("queued") = "waiting"
  /\ \A s \in Active : PhaseOf(s) = "working"
  /\ \A s \in Retryable : PhaseOf(s) = "stopped"
  /\ PhaseOf("completed") = "delivered"
BY DEF PhaseOf, Active, Retryable

LEMMA LedgerInit == Init => Ledger!Init
BY Phases DEF Init, Ledger!Init, Bringers, NoRequest

\* The ledger's variables, in the terms of the tables.
phase == [j \in Jobs |-> PhaseOf(state[j])]
bringing == [j \in Jobs |-> request[j].content]
bringers == [c \in Contents |-> Bringers(c)]

LEMMA LedgerMoves ==
  ASSUME NEW j \in Jobs, PhaseOf(state'[j]) # PhaseOf(state[j])
  PROVE  phase' # phase
BY DEF phase

LEMMA LedgerStutter ==
  ASSUME \A j \in Jobs : PhaseOf(state'[j]) = PhaseOf(state[j]) /\ request'[j] = request[j],
         \A j \in Jobs : state'[j] = "completed" <=> state[j] = "completed"
  PROVE  UNCHANGED Ledger!vars
<1>1. phase' = phase
  BY DEF phase
<1>2. bringing' = bringing
  BY DEF bringing
<1>3. bringers' = bringers
  BY DEF bringers, Bringers
<1>4. QED
  BY <1>1, <1>2, <1>3 DEF Ledger!vars, phase, bringing, bringers

\* A step that moves one job from one phase to another and delivers nothing.
LEMMA OnePhase ==
  ASSUME NEW j \in Jobs, NEW from, NEW to,
         PhaseOf(state[j]) = from, PhaseOf(state'[j]) = to,
         \A k \in Jobs \ {j} : PhaseOf(state'[k]) = PhaseOf(state[k]),
         request' = request,
         \A k \in Jobs : state'[k] = "completed" <=> state[k] = "completed"
  PROVE  /\ phase[j] = from
         /\ phase' = [phase EXCEPT ![j] = to]
         /\ UNCHANGED <<bringing, bringers>>
<1>1. phase[j] = from /\ phase' = [phase EXCEPT ![j] = to]
  BY DEF phase
<1>2. bringing' = bringing
  BY DEF bringing
<1>3. bringers' = bringers
  BY DEF bringers, Bringers
<1>4. QED
  BY <1>1, <1>2, <1>3

LEMMA SubmitStep ==
  ASSUME TypeOK, NEW w \in Callers, NEW t \in Times, EnqueueInsert(w, t)
  PROVE  Ledger!Next
<1> DEFINE j == call[w].job
           r == call[w].request
<1>1. /\ j \in Jobs /\ r \in Requests /\ r.content \in Contents
      /\ state[j] = "absent"
      /\ state' = [state EXCEPT ![j] = "queued"]
      /\ request' = [request EXCEPT ![j] = r]
  BY CallKinds DEF EnqueueInsert, EnqueueCalls, RowIsFree, Requests
<1>2. phase[j] = "absent" /\ phase' = [phase EXCEPT ![j] = "waiting"]
  BY Phases, <1>1 DEF TypeOK, phase, Active, Retryable
<1>3. bringing' = [bringing EXCEPT ![j] = r.content]
  BY <1>1 DEF TypeOK, bringing
<1>4. bringers' = bringers
  BY <1>1 DEF TypeOK, bringers, Bringers
<1>5. PICK k \in Jobs, c \in Contents : k = j /\ c = r.content
  BY <1>1
<1>6. Ledger!Submit(k, c)
  BY <1>2, <1>3, <1>4, <1>5 DEF Ledger!Submit, phase, bringing, bringers
<1>7. phase' # phase
  BY Phases, LedgerMoves, <1>1 DEF TypeOK
<1>8. QED
  BY <1>6, <1>7 DEF Ledger!Next, phase

LEMMA DeliverStep ==
  ASSUME OneSpelling, IInv, NEW w \in Callers, CommitImport(w)
  PROVE  Ledger!Next
<1> DEFINE j == call[w].job
           r == request[j]
<1>1. /\ j \in Present /\ j \in Jobs /\ state[j] = "importing" /\ r \in Requests
      /\ r.source \in Sources /\ r.content \in Contents
      /\ Importable(r.source, r.content)
      /\ state' = [state EXCEPT ![j] = "completed"]
      /\ request' = request
  BY CommitImportFacts DEF IInv, Present, Requests
<1>2. phase[j] = "working" /\ phase' = [phase EXCEPT ![j] = "delivered"]
  BY Phases, <1>1 DEF IInv, TypeOK, phase, Active, Retryable
<1>3. bringing' = bringing
  BY <1>1 DEF bringing
<1>4. Bringers(r.content) = {}
  <2> SUFFICES ASSUME NEW i \in Jobs, state[i] = "completed", request[i].content = r.content
               PROVE  FALSE
    BY DEF Bringers
  <2>1. i \in Present /\ request[i] \in Requests /\ i # j
    BY <1>1 DEF IInv, TypeOK, Present
  <2>2. sources[request[i].source] = r.content /\ r.content # NoContent
    BY <1>1, ContentsAssumption DEF IInv, CompletedIsWhole, NoContent
  <2>3. sources[r.source] = r.content
    BY <2>1, <2>2, <1>1 DEF Importable, Repeats, IsImported, Requests
  <2>4. request[i].source = r.source
    BY <2>1, <2>2, <2>3, <1>1 DEF IInv, SourcesByContent, OneSourcePerContent, Requests
  <2>5. QED
    BY <2>1, <2>4, <1>1 DEF IInv, JobsBySource
<1>5. bringers' = [bringers EXCEPT ![r.content] = {j}]
  <2>1. \A c \in Contents : Bringers(c)' = IF c = r.content THEN {j} ELSE Bringers(c)
    BY <1>1, <1>4 DEF IInv, TypeOK, Bringers
  <2>2. QED
    BY <2>1 DEF bringers
<1>6. Ledger!Deliver(j)
  BY <1>1, <1>2, <1>3, <1>4, <1>5 DEF Ledger!Deliver, phase, bringing, bringers
<1>7. phase' # phase
  BY Phases, LedgerMoves, <1>1 DEF IInv, TypeOK, Active
<1>8. QED
  BY <1>1, <1>6, <1>7 DEF Ledger!Next, phase

LEMMA MoveStep ==
  ASSUME TypeOK, NEW j \in Jobs,
         ClaimNext(j) \/ FailJob(j) \/ \E d \in Attempts : Retry(j, d)
  PROVE  Ledger!Next
<1>1. CASE ClaimNext(j)
  <2>1. /\ state[j] = "queued" /\ request' = request
        /\ state' = [state EXCEPT ![j] = "running"]
    BY <1>1 DEF ClaimNext, IsOldestQueued
  <2>2. /\ PhaseOf(state[j]) = "waiting" /\ PhaseOf(state'[j]) = "working"
        /\ \A k \in Jobs \ {j} : PhaseOf(state'[k]) = PhaseOf(state[k])
    BY Phases, <2>1 DEF TypeOK, Active
  <2>3. \A k \in Jobs : state'[k] = "completed" <=> state[k] = "completed"
    BY <2>1 DEF TypeOK
  <2>4. Ledger!Begin(j)
    BY <2>1, <2>2, <2>3, OnePhase DEF Ledger!Begin, phase, bringing, bringers
  <2>5. QED
    BY <2>2, <2>4, LedgerMoves DEF Ledger!Next, phase
<1>2. CASE FailJob(j)
  <2>1. /\ state[j] \in Active /\ request' = request
        /\ state' = [state EXCEPT ![j] = "failed"]
    BY <1>2 DEF FailJob
  <2>2. /\ PhaseOf(state[j]) = "working" /\ PhaseOf(state'[j]) = "stopped"
        /\ \A k \in Jobs \ {j} : PhaseOf(state'[k]) = PhaseOf(state[k])
    BY Phases, <2>1 DEF TypeOK, Active, Retryable
  <2>3. \A k \in Jobs : state'[k] = "completed" <=> state[k] = "completed"
    BY <2>1 DEF TypeOK, Active
  <2>4. /\ phase[j] = "working"
        /\ phase' = [phase EXCEPT ![j] = "stopped"]
        /\ UNCHANGED <<bringing, bringers>>
    BY <2>1, <2>2, <2>3, OnePhase
  <2>5. phase' = [k \in Jobs |-> IF k \in {j} THEN "stopped" ELSE phase[k]]
    BY <2>4 DEF phase
  <2>6. Ledger!Stop({j})
    BY <2>4, <2>5 DEF Ledger!Stop, phase, bringing, bringers
  <2>7. QED
    BY <2>2, <2>6, LedgerMoves DEF Ledger!Next, phase
<1>3. CASE \E d \in Attempts : Retry(j, d)
  <2>1. /\ state[j] \in Retryable /\ request' = request
        /\ state' = [state EXCEPT ![j] = "queued"]
    BY <1>3 DEF Retry
  <2>2. /\ PhaseOf(state[j]) = "stopped" /\ PhaseOf(state'[j]) = "waiting"
        /\ \A k \in Jobs \ {j} : PhaseOf(state'[k]) = PhaseOf(state[k])
    BY Phases, <2>1 DEF TypeOK, Active, Retryable
  <2>3. \A k \in Jobs : state'[k] = "completed" <=> state[k] = "completed"
    BY <2>1 DEF TypeOK, Retryable
  <2>4. Ledger!Resubmit(j)
    BY <2>1, <2>2, <2>3, OnePhase DEF Ledger!Resubmit, phase, bringing, bringers
  <2>5. QED
    BY <2>2, <2>4, LedgerMoves DEF Ledger!Next, phase
<1>4. QED
  BY <1>1, <1>2, <1>3

LEMMA RecoverStep ==
  ASSUME TypeOK, RecoverInterrupted
  PROVE  Ledger!Next \/ UNCHANGED Ledger!vars
<1> DEFINE S == {j \in Jobs : state[j] \in Active}
<1>1. /\ state' = [j \in Jobs |-> IF state[j] \in Active THEN "interrupted" ELSE state[j]]
      /\ request' = request
  BY DEF RecoverInterrupted
<1>2. \A j \in Jobs : state'[j] = "completed" <=> state[j] = "completed"
  BY <1>1 DEF Active
<1>3. CASE S = {}
  <2>1. \A j \in Jobs : PhaseOf(state'[j]) = PhaseOf(state[j]) /\ request'[j] = request[j]
    BY Phases, <1>1, <1>3 DEF Active
  <2>2. QED
    BY <2>1, <1>2, LedgerStutter
<1>4. CASE S # {}
  <2>1. \A j \in S : phase[j] = "working"
    BY Phases DEF phase, Active
  <2>2. \A j \in Jobs : PhaseOf(state'[j]) = IF j \in S THEN "stopped" ELSE PhaseOf(state[j])
    BY Phases, <1>1 DEF Active, Retryable
  <2>3. phase' = [j \in Jobs |-> IF j \in S THEN "stopped" ELSE phase[j]]
    BY <2>2 DEF phase
  <2>4. bringing' = bringing /\ bringers' = bringers
    BY <1>1, <1>2 DEF bringing, bringers, Bringers
  <2>5. Ledger!Stop(S)
    BY <1>4, <2>1, <2>3, <2>4 DEF Ledger!Stop, phase, bringing, bringers
  <2>6. PICK j \in Jobs : state[j] \in Active
    BY <1>4
  <2>7. PhaseOf(state'[j]) # PhaseOf(state[j])
    BY <2>2, <2>6, Phases
  <2>8. QED
    BY <2>5, <2>7, LedgerMoves DEF Ledger!Next, phase
<1>5. QED
  BY <1>3, <1>4

LEMMA LedgerStep ==
  ASSUME OneSpelling
  PROVE  IInv /\ [Next]_vars => [Ledger!Next]_(Ledger!vars)
<1> SUFFICES ASSUME IInv, [Next]_vars
             PROVE  Ledger!Next \/ UNCHANGED Ledger!vars
  OBVIOUS
<1>0. TypeOK
  BY DEF IInv
<1>1. CASE \E w \in Callers, t \in Times : EnqueueInsert(w, t)
  BY <1>0, <1>1, SubmitStep
<1>2. CASE \E w \in Callers : CommitImport(w)
  BY <1>2, DeliverStep
<1>3. CASE \E j \in Jobs :
             ClaimNext(j) \/ FailJob(j) \/ \E d \in Attempts : Retry(j, d)
  BY <1>0, <1>3, MoveStep
<1>4. CASE RecoverInterrupted
  BY <1>0, <1>4, RecoverStep
<1>5. CASE \E j \in Jobs : MarkImporting(j)
  <2>1. PICK j \in Jobs : MarkImporting(j)
    BY <1>5
  <2>2. \A k \in Jobs : PhaseOf(state'[k]) = PhaseOf(state[k]) /\ request'[k] = request[k]
    BY Phases, <2>1, <1>0 DEF TypeOK, MarkImporting, Active
  <2>3. \A k \in Jobs : state'[k] = "completed" <=> state[k] = "completed"
    BY <2>1, <1>0 DEF TypeOK, MarkImporting
  <2>4. QED
    BY <2>2, <2>3, LedgerStutter
<1>6. CASE UNCHANGED <<state, request>>
  <2>1. \A k \in Jobs : PhaseOf(state'[k]) = PhaseOf(state[k]) /\ request'[k] = request[k]
    BY Phases, <1>6
  <2>2. \A k \in Jobs : state'[k] = "completed" <=> state[k] = "completed"
    BY <1>6
  <2>3. QED
    BY <2>1, <2>2, LedgerStutter
<1>7. QED
  <2>1. CASE \/ \E w \in Callers :
                  \/ \E k \in Jobs, r \in Requests : EnqueueCheck(w, k, r)
                  \/ EnqueueRefused(w)
                  \/ \E k \in Jobs, d \in Attempts, log \in BOOLEAN : CommitValidate(w, k, d, log)
                  \/ CommitRefused(w)
                  \/ CallLost(w)
             \/ \E k \in Jobs : \E a \in 1 .. attempt[k] : UpdateProgress(k, a)
             \/ \E k \in Jobs : \E d \in 1 .. attempt[k] : RegisterLog(k, d)
             \/ \E s \in Sources, c \in Contents : ImportNormalized(s, c)
             \/ \E s \in Sources : RelinkSource(s)
             \/ UNCHANGED vars
    BY <2>1, <1>6 DEF EnqueueCheck, EnqueueRefused, CommitValidate, CommitRefused, CallLost,
                      UpdateProgress, RegisterLog, ImportNormalized, RelinkSource, jobVars, vars
  <2>2. QED
    BY <2>1, <1>1, <1>2, <1>3, <1>4, <1>5 DEF Next, OneStatement, TwoStatements

\* Where hashes are written in one way, every behaviour of the tables is a
\* behaviour of the ledger: an original
\* enters the evidence through a job in the very step that completes the job.
THEOREM QueueImplementsLedger == OneSpelling /\ Spec => ImplementsLedger
<1> SUFFICES ASSUME OneSpelling PROVE Spec => ImplementsLedger
  OBVIOUS
<1>1. Spec => Ledger!Init /\ [][Ledger!Next]_(Ledger!vars)
  BY LedgerInit, LedgerStep, IInvHolds, PTL DEF Spec
<1>2. QED
  BY <1>1 DEF ImplementsLedger, Ledger!Spec
=============================================================================
