# EvidenceIntake, formally

This directory is a TLA+ development of EvidenceIntake: modules that model
parts of the program, TLC configurations that check them on small instances,
and theorems TLAPS proves about them for every size of the instance. Paths
below are those of the repository (`src/store.rs`, `migrations/`, ...).

## The system

EvidenceIntake keeps the evidence of legal cases in one SQLite file, and an
office (clients, matters, a calendar) in another beside it. Adapters
(document, audio, video) turn an original file into a *normalized batch* of
sources, segments and content; the store imports batches, people review what
came in, relate it, say what it means, and write work product over it. The
program is mostly sequential Rust over SQLite, so its hard behaviour is where
several connections, processes or restarts meet one file, and where a window
acts on what it read some time ago:

| component | state | operations | hard behaviour |
| --- | --- | --- | --- |
| intake queue (`src/store.rs`, `migrations/0010`) | `intake_jobs`, `intake_artifacts`, `source_locations` | enqueue, claim, progress, import boundary, commit, fail, retry, recover, relink | checks outside the writing transaction; ABA on a job's state; retries |
| intake coordinator (`src/coordinator.rs`) | a thread, the job it holds, a child process | drain the queue, run an adapter, follow its output, record the end | crash at any step, a second coordinator on the file, errors that are dropped |
| import (`src/store.rs`) | `sources`, `source_segments`, `content`, `edges`, `keyframe_vectors` | `import_normalized`, `index_keyframes`, `search_keyframes` | identifiers chosen by adapters, several cases in one file |
| review (`src/review.rs`, `migrations/0002`) | `review_state` columns, `review_events` | `apply_review` | state read before the transaction, a cache beside a history |
| schema (`migrations/`) | tables, triggers, `user_version` | `Store::open` | no transaction around a rebuild, two openers |
| relationships and lineage (`src/store/assembly.rs`, `src/authoring.rs`, `src/suggest.rs`) | `edges`, occurrences | `link_evidence`, `author_occurrence`, `suggest` | a claim checked against a graph that changes later; cycles |
| work product, charges, export, views (`src/store.rs`) | version chains, briefs, charges, mappings | author, revise, record a brief, charge, map, view, `export_case` | forks of a chain; a view is several statements without a transaction |
| interpretation and the sweep (`src/store/interpretation.rs`, `src/enrichment.rs`, `src/gui/mod.rs`) | versions of readings and profiles, a keyboard session | append, accept, refuse, undo, tie, group; the rules | writes from rows read earlier, provenance through copies |
| inference broker (`runtime/tensorrt`) | resident models, worker processes | load, infer, evict | a device memory budget, workers that die, a framed protocol |
| office (`office-core`, `src/office.rs`) | matters, settings, clients, notes, deadlines, search | author, revise, link, list | two databases, civil dates, version chains, triggers |
| adapters (`adapters/`) | files, an attempt's directory | convert | an original that is edited under the job; clocks, scenes, silences |
| windows and command line (`src/gui`, `src/main.rs`) | what is on the screen | every call above | rows shown that have changed since |

They interact through the files: every window, coordinator thread and command
line is a connection to the same SQLite database, in WAL mode, each call one or
a few statements. The window starts a coordinator when it opens a file; a
window that reopens it, or a second window, starts another one. The
coordinator runs adapters as child processes and reads their standard output;
adapters call the broker over a local socket. A matter of the office names a
case of the evidence by an identifier no foreign key guards.

## Modules

### Intake

`IntakeLedger` is what the queue promises, abstractly: a job waits, is worked
on, and stops (and may wait again) or delivers its original, which enters the
evidence in the very step that ends the job, once, and never leaves it.

`IntakeQueue` models the tables of the queue and the calls that write them.
`state`, `attempt`, `dir` (the number in the name of the attempt directory),
`request`, `created` and `progress` are columns of `intake_jobs`; `sources` is
the identity part of `sources`; `locations` and `artifacts` are the other two
tables. A call that is one statement, or is guarded by the WHERE clause of its
one UPDATE, is one action. `enqueue_intake_job` (`EnqueueCheck`,
`EnqueueInsert`) and `commit_intake_result` (`CommitValidate`, `CommitImport`)
check first and write later: they are two actions, `call` holds what the first
one saw, and any other connection may act in between. A call the store refuses
before it has written anything is not an action.
Contents stand for a case and a hash; `CaseOf` is the case, since the queue keeps
source identifiers apart per case and the evidence does not; the run has one case,
the theorems any number. `OneSpelling` says
whether a hash is always written in upper or lower case: the UNIQUE constraint compares text, the
preflight checks compare `lower(...)`. `StaleViews` says whether a window may
name the directory of a retry from a row it read before the last attempt, and
`ExclusiveOwner` whether anyone ends a job whose commit is in flight.

`IntakeCoordinator` composes the queue (`INSTANCE IntakeQueue`) with the
coordinator threads. `pc`, `held` and `child` are the step of `drain_queue` and
`execute_job` a coordinator is at, the row it read when it claimed, and its
adapter. Every statement the coordinator issues is an action of the queue,
conjoined to its own step, so that crashes, other coordinators and windows come
between any two. `StoreMayRefuse` lets a call meet a database that stays locked
past the busy timeout. The poll interval and the wake-up channel are left out:
both only bring an idle coordinator back to its claim. The adapter is external:
it prints lines, well formed or not, and exits with a sound result, an unsound
one, or a failure.

`AdapterJob` is the inside of that adapter: every time the process opens the
original by name, what it leaves in the attempt's directory, the artifacts a
later attempt may reuse, and the import of the result, while somebody edits the
original. What a model answers is recorded with the bytes it was given, so that
a property can ask whether they were the bytes the job was queued for. It uses
three algorithms: `Scenes` (which frames ffmpeg keeps and how they divide the
recording), `Transcript` (statements and the stretches without speech) and
`ClockText` (`parse_clock_text`, over signs instead of characters).

`Broker` is the process that admits model workers to the memory of one GPU:
connections with one request each, one mutex, two pipes per worker, workers that
exit or answer nonsense at any moment, eviction by least recent use.

### The case file

`CaseFile` is `import_normalized` (the checks before the transaction, and the
transaction as a check of each row against the file as it stands when that row's
turn comes), the machine edges of a batch and the keyframe index, over the
review of `Review`. An import and a decision about the same record interleave;
`Accepted` is the set of files the transaction may leave.

`Review` models `apply_review` as the two steps it is (`Decide` reads and
checks, `Record` is the transaction), the rules of `transition_allowed` and
`require_justification`, and `review_events` as a sequence. An event keeps its
record, its two states and the connection that made it; its citation and basis
are inputs of `Decide` and copied nowhere.

`Migration` models `Store::from_connection` and `migrate` statement by
statement as far as the table `edges` is concerned. `MayRun` is what SQLite asks
of the schema before a statement, `Effect` what the statement does. In
`MCRelations` a file is opened and closed by it before the first command is given.

`Relations` is `link_evidence`, `propose` of the analyzers, `author_occurrence`
and the lineage walk, each SELECT and each INSERT a step.

`WorkFile` is the work product in versions, briefs, charges and mappings, and
`export_case` SELECT by SELECT. `Views` extends it with the views that are read
over several statements (standing, comparison of offenses, issue workspaces,
search, dossier) and with two that are one (element matrix, index of times and
places). Each view is a step per statement; commands come between. `Digest`
extends that with the packets of the contested propositions and the digest that
tells them: a step for the relationships of a packet, and per passage one for
its reading, one for the profile of its original and one for the walk to its
roots; then, for each item that has one root, one that asks whether what it
quotes or reports was reviewed.

`Interpretation` is the append-only log of readings and profiles, inheritance,
the rules, and every key that writes, wherever the cursor may be. A deferred
transaction is two steps, and the second is refused when anybody has committed
since the first. `Sweep` extends it with the keyboard session that says where
the cursor is: column, mark, value to repeat, pending input, command mode, the
time basis that sticks. `session` is what a refused key leaves, `hoped` what
the session becomes when the key's version is in the file.

### Office and window

`Office` is the calendar beside the evidence: `open_matter` as the flow over two
databases that it is, settings, and the docket read setting by setting.
`OfficeFile` extends it with people and what they are known by, notes,
deadlines and the search index its triggers keep; `CivilDate` is the date
arithmetic. `Desk` extends both with the main window: the case list, the
matter chooser, the two panes, the detail box, the label of who is acting, the
change of database, and the forms, whose writes are the actions of the office.
A form is modal, so a window with one takes no other event.

`MC...` modules instantiate these for TLC; `...Proofs` modules hold the
theorems. Definitions marked `Mutant:` are deliberate mistakes that a property
is known to detect; no specification uses them. Definitions whose comment says
*it does not hold* state what a document or a reader would expect; no passing
run checks them, and "Disagreements" says how each is refuted.

## Runs

Passing runs. CHECK_DEADLOCK is off throughout: a queue whose jobs are all
settled at their last attempt, a case at its bound of commands, a sweep at its
bound of keys really stops.

| run | instance | what it shows |
| --- | --- | --- |
| `queue_race` | 2 connections, 2 jobs, 2 source identifiers, 1 original, 2 attempts | completion is whole, happens once per original, whatever interleaves; the tables implement `IntakeLedger` |
| `coordinator_alone` | 1 coordinator that may crash and restart, 1 window with old rows, 3 attempts, fairness | active rows have an owner; a coordinator that stays up settles every queued job |
| `coordinator_pair` | 2 coordinators, refusals | every step of the coordinators is a step of the queue or leaves it alone |
| `review` | 2 connections, 2 cases, 9 batches; 4 transactions with 1 decision, or 1 with 3 | a record's state is that of its last event, no record names another case, a passage shows the original it stands under, a pair is related once in each direction an adapter may give, indexed stills stay findable |
| `broker` | 2 connections, 3 models, budget 3, 3 requests, fairness | the memory budget is kept, an answer belongs to its request, every request is answered |
| `relations` | opening a file of any version with up to 3 relationships, killed anywhere; then 2 processes, 3 commands, a case with a group, a chain and a cycle, fairness | an open file shows all relationships there ever were; analyzers never record both orientations of a pair; independence is only claimed where no root was shared when the roots were looked for; every walk ends |
| `work_file` | 2 processes; 4 commands, or 2 commands and a view, or a digest and a decision | histories do not fork; what a view reads over several statements is one view; a digest leaves no passage out and tells none twice; an export accounts for all evidence |
| `interpretation` | 2 processes; 2 passages with keys anywhere and the rules, three readings and a profile or two of each; or 3 passages, 4 keys of a session and reviewers who reject passages | one current reading each; rules speak first and fail only in races; provenance is true through every copy; reported statements stand above; every key finds its rows |
| `office` | 2 processes; 4 calendar commands, 3 file commands, both, or 4 events of windows with a command | the docket and the lists are whole, notes and search agree with the file, a window acts on what it shows |
| `adapter_job` | 4 kinds of job, 2 edits of the original, 2 attempts, 2 382 initial files and texts | what is imported comes from the bytes the job was queued for; scenes divide the recording; no burned-in timestamp is missed and none made up, a span whose second end looks like an offset excepted; every long silence is told, also where segments overlap |

The violation runs:

| run | what happens |
| --- | --- |
| `coordinator_sound` | a sound result is always refused: the log is registered when the adapter exits and inserted again, plainly, by the commit (`coordinator.rs:134` and `:150`, `store.rs:677`). In the model as in the code, no job completes through the coordinator; jobs complete only where a commit comes without that registration, as in `tests/intake_jobs.rs`. The branch of `Commit` that succeeds is therefore never taken in the coordinator runs, and completion is checked in the queue run |
| `coordinator_restart` | `InterruptedHasExited`: a second coordinator starts and calls the attempt of the first one interrupted ("Application exited ...", `store.rs:473`) while that one follows its adapter (`coordinator.rs:35`) |

`ViewsAgree`, `NothingCrossesCases`, `DeadlinesAreListed`, `SessionFollowsTheFile`
and `ShowsWhatItActsOn` are conjunctions of named parts.

### Bounds

Two processes are enough for the races here, since each hazard is one
caller's check against one other caller's write. Two jobs and two attempts give
the ABA pattern (attempt one's caller, attempt two's row), three let a retry
reuse the directory of the first; two identifiers and one or two originals give
every collision of the three UNIQUE constraints; three events let a decision be
overtaken between two of the same connection. Two cases, and batches that clash
over names, hashes and orientations, give every refusal of an import.
Three models of which two fit give eviction with and without a choice. In
`relations` the lineage has a diamond, a group and a cycle. In `work_file` two
charges of two elements and three passages of two originals give each view a
row that counts and one that does not; one view meets two commands, so that a
statement may be preceded and followed by a change. A digest reads two packets
over four relationships, a passage being in both and two passages disagreeing
on their time and one of them having several roots, from every combination of
readings and profiles; one decision
falls anywhere between its statements. In `interpretation` three
versions of a reading are the least that can be refused, undone and repeated;
four keys are the least that mark, move and apply, or reach an undo on the last
row. In `office` a setting called on two matters, one removed by each window,
is the least that empties a setting. Dates are chosen at a leap day, at the
missing leap day of 2100 and before 1970.

`MaxAttempt`, `Times`, `MaxEvents`, `MaxRequests`, `MaxCommands`, `MaxReads`,
`MaxWrites`, `MaxClicks`, `MaxVersions`, `MaxProfiles`, `MaxKeys`, `MaxEdits`,
`MaxAttempts` and the allowances of `MCReview` bound what the code does not
bound; they appear as guards and nowhere else. Where an instance would be too
large as a whole, its initial states share the bound out (calendar commands,
file commands, window events); the MC module says how. Symmetry is used for
processes, sources, contents and coordinators, never for jobs (`ORDER BY id`
compares them) and never in a run that checks a liveness property.

### Fairness

`coordinator_alone` assumes weak fairness of each step of a coordinator that is
up, including that its adapter's output ends: the thread is one loop that
blocks on nothing else, but the loop over the adapter's lines has no timeout,
so the assumption about the adapter is the adapter's to keep. No fairness is
assumed of starting, of crashes, of windows or of the store's refusals, and
`QueuedIsSettled` speaks only of behaviours in which the coordinator stays up.

`broker` assumes weak fairness of each connection's thread (whoever holds the
mutex takes its next step; a request that waits for it does not starve in these
instances because a connection sends a bounded number of requests) and of each
worker answering what it was asked, well or not; the broker reads with no
timeout of its own. No fairness is assumed of clients or of a
worker's failures. `relations` assumes weak fairness of the steps of a
lineage walk that has begun (`Visit`, `EndWalk`), a process blocks on nothing
between two SELECTs; none of people beginning a command.


## Disagreements

What follows was met while modelling. What a violation run shows has an entry
under `findings`; of the rest, each is either a definition kept beside the
properties, to be checked by adding it to the cfg named, or a remark.

Intake.

* `ResultIsConfined` (`MCIntakeQueueRace.cfg`) needs `ExclusiveOwner`; it fails
  when somebody ends and retries a job whose commit is between its preflight
  and its transaction. `OneSourcePerContent` and `CompletedOncePerContent` need
  `OneSpelling`: an upper-case SHA-256 is another text to the UNIQUE constraint
  (`migrations/0001`:38) and the same hash to the preflight.
* `ActiveIsOwned` (`MCCoordinatorAlone.cfg`) fails with `StoreMayRefuse = TRUE`:
  the coordinator drops the errors of its last calls, and the row stays active
  until the next `recover_interrupted`.
* A starting coordinator recovers jobs a live one is running (`coordinator_restart`).
  `FailuresAreOwn` (`MCCoordinatorRestart.cfg`) fails on from there: the
  interrupted attempt is queued and claimed again, then the adapter of the first
  attempt fails, and `fail_intake_job` (`coordinator.rs:73`, `store.rs:715-721`)
  knows the job and its state but not the attempt. With one coordinator at a
  time nobody recovers a live attempt, so neither is checked there.
* With `StaleViews`, a retry may name a directory that an earlier attempt
  filled. Two live jobs for one original are possible: what is once is their
  completion.
* An adapter that neither prints nor exits holds the coordinator
  (`coordinator.rs:107`), one whose coordinator dies is not killed
  (`coordinator.rs:86`).
* `TrailIsChained` (`MCReview.cfg`) fails with two connections: a decision starts
  from a state another one has replaced (`review.rs` reads before its
  transaction).
* `OpenNeverFails` and `GuardsHold` (`MCRelations.cfg`) fail: a process
  killed between the statements of 0012 leaves a table that stops the next
  open, and 0012 drops the case-isolation triggers of 0008 and the index of
  0006 with the old table and nothing recreates them. `NothingLost` holds for
  one process, not for two that migrate at once (`store.rs:114`).

Adapters.

* `ResultShowsTheOriginal` (`MCAdapterJob.cfg`) fails with `MayRestore = TRUE`: an
  original edited and put back between two openings passes the check
  `soundtrack.rs` calls "the whole guarantee". Where nothing is restored, the
  check is redundant.
* `audio/src/map.rs:123` measures a silence from the end of the segment before,
  not from the latest end seen: after a segment that lies within a longer one, the
  result says "No speech was aligned" (`map.rs:352`) where the longer one was.
  `NoSpeechIsSilent` (`MCAdapterJob.cfg`) fails; `EverySilenceIsTold` is what holds.
  A recording with a track and no speech fails
  the whole video job (about `audio/src/map.rs:84`). Two identical stills of a
  video are refused by UNIQUE(case_id, sha256): such a video cannot be imported.
* `parse_scene_report` drops equal times, so with deduplication off and more
  than a thousand frames a second later stills shift. Frames after the end the
  stream claims overlap. The keyframe index is read after its hash was checked.
* `clock.rs` says a range yields None; "2026-08-19 21:07:30-13:07:30" is read as
  a time at offset -13:07, since `take_offset` (`clock.rs:495`) comes first.
  `SpansYieldNothing` (`MCAdapterJob.cfg`) fails; `ReadingsAreWhole` excepts such texts
  (`LooksLikeOffset`) and no others.
* Content no machine generated is imported in any review state the batch names
  (`store.rs:4663`).

Broker. `LoadedIsUsable` (`MCBroker.cfg`) fails: a resident model whose worker
failed since is reported as loaded (`broker.rs:164`).

Case file.

* `EveryChargeStandsOnce` (`MCWorkFile.cfg`): `case_standing` starts a charge where
  the identifier of a row differs from the one before (`store.rs:2218-2241`), and
  the rows are ordered by posture, label and ordinal: two charges with one label
  interleave. `TasksStay`:
  `docs/authoring.md:100-105` says a task stays until resolved, `store.rs:1584-1600`
  drops it when its fact is rejected. `RejectionLeavesTheDossier`:
  `docs/review-workflow.md:38` against `store.rs:1290-1328`, which looks at no
  review state (`contested_timeline` shows rejected events too).
* `EveryLinkIsTold`, `DependenciesAreReviewed` and `ToldOnce` (`MCWorkFile.cfg`).
  `push_template` (`digest.rs:368`) keeps one sentence per template and passage,
  so a second relationship of a passage is neither told nor counted among the
  omitted (`docs/case-assembly-plan.md:464` promises the evaluative relations).
  Passages that are in a packet's conflicts are told with the sentence "carries
  a reviewed reporting/derivation root" (`digest.rs:116`). A passage somebody
  decides about while the digest is read may stand in two layers of it. An
  alleged time and the normalized time of the same moment are a conflict
  (`packet.rs:142-151`).
* A collation is reported as "Shared reviewed date/location anchor" for anchors
  nobody reviewed (`store.rs:1528-1531`); `normalized_date` takes 2026-99-99.
* A rejected passage whose edge is not rejected is exported (`store.rs:3005`;
  `store.rs:2889`, `docs/export.md:41`). `export_case` reads in several
  statements, so a line may be lost when it is disturbed. The comment at
  `store.rs:2760` describes echoes differently.
* A cycle of reviewed lineage has no root, so records in it share none
  (`assembly.rs:30`; `docs/case-assembly-plan.md:205-208`).
* `propose` looks for the mirrored pair before its INSERT (`store.rs:1066-1070`);
  an adapter may import the analyzer's pair the other way round in between, and
  a content may be proposed as its own parent.
* `create_entity` writes the entity and then the "possibly same person" link: a
  link that fails leaves the entity, and pressing again makes another
  (`gui/mod.rs:500-580`).

Interpretation and the sweep.

* `UnansweredStaysOut` (`MCInterpretation.cfg` with one process and no symmetry):
  what a candidate proposed is copied into the next version whether or not it
  was accepted, refused ones included (`gui/mod.rs:2267`, `:2301`, `:2501`;
  `docs/enrichment.md:33-35`, `docs/case-assembly-plan.md:295`).
* `MarkKeepsItsPassage` (`MCInterpretation.cfg`): a mark is an index, and the rows
  are read again after each key; when somebody rejects a passage above, the
  range is another one (`gui/mod.rs:2198`). The cursor skips a passage in the
  same way.
* `SheetIsTrue` (`MCInterpretation.cfg`): `key_sheet` (`gui/mod.rs:2905-2913`) lists
  `s` for saw and `t` for told in the perception sweep, but both are commands
  first (`gui/mod.rs:681-682`); only the shifted letters enter them, and those
  apply to the end of the page.
* After Esc, `u` means undo until an undo has succeeded, also where it is a
  value's letter. A refused letter has used up its mark, so repeating it writes
  one row. A time basis sticks although the time that named it was refused.
* `n` is to "leave this passage out of later sweeps" (`docs/enrichment.md`);
  neither `enrichment_passages` (`interpretation.rs:42-58`) nor `needs` looks at
  materiality. The candidates button says "Enter accepts one" (`winsafe.rs:4395-4405`)
  while an open session still holds the rows it read before.
* `import_json` leaves an open sweep as it was (`gui/mod.rs:433`).

Office and window.

* `SearchFindsCurrentNotes` (`MCOffice.cfg`): a revised note is found by its old
  words (`office-core/src/store.rs:1248-1250`, `docs/office-layer-plan.md:123-124`).
  `search_documents.id` is one primary key over five tables' identifiers.
* `KnownPeopleAreShown` (`MCOffice.cfg`): Rust's `to_lowercase` and SQLite's `lower`
  differ outside ASCII; with `MayFailToAsk = TRUE` also because `winsafe.rs:2784`
  treats a failed look as nothing found. Two windows may in any case both look
  before either writes.
* `link_matters` is INSERT OR IGNORE and returns Ok with nothing stored
  (`office-core/src/store.rs:527`). `judge_named` never finds a judge without a
  court again (`:745-757`). A date beyond year 9999 empties `within_days`.
* Choosing a case from `case_combo` borrows the model mutably twice
  (`winsafe.rs:1329-1335`, `gui/mod.rs:381`) and ends the program: `ChooseCase` closes the
  window. The matter chooser indexes a list queried anew (`winsafe.rs:1442-1456`);
  `select_matter` looks in the case list read earlier (`gui/mod.rs:1342`).
* `open_matter` that fails after the case was made says the case is on the list,
  which is not read again (`gui/mod.rs:1525-1527`, `:1584-1585`). `open_database`
  starts a coordinator before it drops the old one. `docket_shift` moves the
  date before a refresh that may fail. `queue_selection` opens the production
  before the broker is asked.

## Proofs

TLAPS proves, for any number of connections, jobs, sources, originals,
attempts, records, relationships and processes:

* `IntakeQueueProofs`. `TypeCorrect`; `CompletedIsWholeHolds`,
  `CompletedIsFinalHolds`, `OneSourcePerContentWhenSpelled`,
  `CompletedOncePerContentWhenSpelled`, `FirstAttemptsInOrderHolds`,
  `ResultIsConfinedWhenOwned` and `QueueImplementsLedger`. The invariant `IInv`
  adds to the property wanted the two facts the schema contributes:
  `JobsBySource` (UNIQUE(case_id, source_id) of `intake_jobs`: the jobs of one case
  are known by their source identifier) and `SourcesByContent` (UNIQUE(case_id, sha256) of
  `sources`). Together they are why no duplicate check is needed for *once*:
  two completed jobs for one original would share a source, so would be one
  job. Two jobs of different cases may name one source; it shows one original,
  so once one has completed the other's import is refused (`HeldByOne`). `SourcesByContent` holds where `OneSpelling` does, and that assumption is
  in the statements that need it; `ResultIsConfinedWhenOwned` assumes
  `ExclusiveOwner` and strengthens the property by `CommitsAreCurrent`: a commit
  in flight names the directory its row names. The refinement maps states to
  phases; its proof has one lemma per kind of step (submit, move, recover,
  deliver, stutter).
* `IntakeCoordinatorProofs`. `CoordinatorImplementsQueue`: however many
  coordinators, windows and crashes, a step of the composed system is a step of
  the queue or leaves its tables alone, so what is proved of the queue holds of
  it. The invariant `RInv` (`Rows`, `HoldsRead`) says that what a coordinator
  holds was read from a row that is still there at that attempt or a later one:
  this is why the directory it commits is one the store takes. The assumption
  `NobodyOwns` (`~ExclusiveOwner`) only says that the queue's own guard against
  other owners, which no code enforces, is not assumed.
  `ActiveIsOwnedAlone` is proved for one coordinator at a time and a store that
  answers (`Alone`): what recovery at the start and the failure path are for.
  "Disagreements" says how it fails otherwise. `AInv` relates the step of the
  coordinator to the state of its row (`OwnRowFits`): windows may queue and
  retry, but retry takes a job that has stopped, and an active row is nobody
  else's.
* `CaseFileProofs`, review. `TypeCorrect`, `StateIsLatestDecisionHolds`,
  `EveryMoveIsOnTheTrailHolds`, `StartsWhereItWasHolds` and
  `OneHandNeverRepeatsHolds`, for any number of connections. Although a decision
  may start from a state that is gone, what it writes to the record is what it
  writes to the trail, in one transaction; so the state that is read is always
  the one the last event wrote (`StateIsLatestDecision`, with `DecidedHaveEntered`
  for the entry of a record). From there on `SeenWhenDecided` carries what was
  read until it is recorded: others may write events meanwhile, the connection
  itself may not.
* `CaseFileProofs`, import. For any batches, cases and numbers of imports under
  way: `NothingCrossesCasesHolds`, `PassagesShowTheirSourceHolds`,
  `PairsStandOnceHolds`, `FramesStayFindableHolds`, and
  `StateIsLatestDecisionInTheFile` (review over a file that grows by imports).
  A batch is checked before its transaction and the file may be another one when
  the transaction begins, so nothing of those checks about the file may be
  kept: what `CaseInv` keeps of them is only what they say of the batch
  (`ImportsAreChecked`). The rest rests on the transaction: a row is accepted
  against the file as it stands at its turn, the lemmas about `SourcesAfter`,
  `ContentsAfter`, `EdgesAfter` and `Indexed` say what the tables hold at the end,
  and each of the properties follows from the constraint the code relies on.
  `KeysArePairs` (an edge is known by the two records it joins) gives one edge to a pair in
  each orientation, and `OneDimension` (the vectors of a model have one length)
  gives a search an answer. `ImportedHaveRows` says what has no row in the file has not
  entered review, so an import never meets a record somebody has decided about.
* `RelationsProofs`. `TypeCorrect`; `AnalyzersNeverMirrorHolds`, from
  `AnalyzersOrient`: an analyzer asks a question in one orientation only, so the
  look before its INSERT, which is stale when the INSERT runs, is not what the
  property rests on; and `CorroborationWasIndependentHolds`, an action property,
  for a graph of any size with groups, diamonds and cycles. `CommandsAreInformed`
  says what a command knows between two of its SELECTs: a walk's result is the
  set of records with nothing beneath them that can be reached over dependencies
  reviewed then, unless somebody has decided since. That the breadth-first walk
  computes this is proved by a well-founded induction on the length of a path.
* `BrokerProofs`. `TypeCorrect`, `OneThreadInside`, `AnswersAreOwnHolds`,
  `WithinBudgetHolds`, for any number of connections and packs and any budget.
  `PInv` says who is inside the mutex and that the pipes of a worker are empty
  whenever nobody waits for it (`QuietPipes`); a worker that was late, garbled or
  exited is gone before the mutex is given up, so an answer that is read belongs
  to the frame that was written (`PipeIsOwn`). The budget adds what a load has
  still to start to what is resident, as the eviction loop does.
* `InterpretationProofs`, the log. `TypeCorrect`, `OneReadingHolds`,
  `RulesSpeakFirstHolds`, `ProvenanceIsTrueHolds`, `ParentsStandAboveHolds`,
  `OnlyRacesFailHolds`: any passages, windows, keys, rules and versions, keys
  wherever the cursor may be. `Chained` and `ProfilesChained` say that the
  versions of a passage are a chain with one end, `RowsStand` that what a window
  read stands in the log, and `CallsStand` that what a call will write was made
  from what it read: a value that is copied says where it was first entered, and
  a call whose snapshot is old is refused. A run of the rules that was refused was
  disturbed (`RunStands`).
* `InterpretationProofs`, sessions. `SessionsFollowTheFile` and
  `SessionsKeepTheFile`. `SweepSpec` starts in `SessionInit`, any file that keys
  and rules may have left with all windows idle, rather than in the few files of the run. The
  invariant relates what a refused key leaves (`session`) and what a key hopes
  for (`hoped`) to the rows on the page.
* `OfficeProofs`, the calendar. `TypeCorrect`, `DocketIsWholeHolds` and
  `BrokenLinksAreTypedHolds` of `DeskSpec`: the whole office, so that neither the
  file nor the window can disturb them. `CalendarInv` says that what a flow took
  from the tables is still so when it writes, although others wrote meanwhile
  (`FlowStands`): the clients of matters and settings do not change, a typed link
  is never untyped, a case is never closed. A row of the docket keeps what it
  read, and the count of its missing cases is that of its lines (`RowStands`).
* `OfficeProofs`, the file. `SearchKnowsEveryRecordHolds`, from what the identifiers
  of records and of documents have to do with each other (`IndexStands`), and
  `NotesStandOnceHolds`. `AreChained` says that a note supersedes one other at
  most, of the version before, and no two the same one; that is what the unique
  index keeps when two windows revise one note. From it: every note has one
  trail back to a first version, note_history walks it and ends (`WalkBack`), two
  trails with one beginning agree as far as both go, and the notes of one
  beginning have a last one (`LastRevision`).
* `OfficeProofs`, dates and deadlines. `DatesAreNumbered` is about the arithmetic
  alone, for any years: `days_from_epoch` is the count of days `Ordinal` makes month by
  month, less 719163 (`OrdinalMeasures`), `from_days_since_epoch` returns the one
  date with a count (`DayHasDate`; its estimate of the year in an era of 400 is off
  nowhere, `YearOfDay`), and dates compare as their counts do. On it rests
  `DeadlinesAreListedHolds`: a deadline is never removed and its date never
  changes (`DeadlinesKept`), so what the halves of a list and the days of a week
  have said between two queries stays true (`OwedInv`) while other windows
  record and meet deadlines. The theorem assumes years of four digits (`FourDigits`): the
  queries compare dates as text, where a fifth digit stands before the dash
  ("Disagreements").
* `OfficeProofs`, the window. `ShowsWhatItActsOnHolds` and `DetailIsOfTheRowHolds`,
  one lemma per group of events. `DeskInv` says which lists and selections belong
  to the database that is open (`ShowsCases`), that the pane on screen shows the
  docket that is held unless another database was opened under it
  (`ShowsCourt`), and that a form other than the one asking who acts is open
  only for somebody who acts in this office (`NamesUser`): that is why a form can
  load the day again without painting it.
* `BrokerProofs`, the adapters' job. `JobTypeCorrect`; and `ImportShowsTheOriginal`,
  `ImportedScenesDivide` and `ImportTellsEverySilence` for any recordings and
  documents, requests, edits and attempts, under `~MayRestore` ("Disagreements" says
  how the first fails otherwise). `JobTruth` says what an attempt has in memory,
  in its directory and on its way into the transaction. Nothing it read is known
  to be right while it runs, so all that is kept is conditional (`Pinned`): if the file is
  the one asked for *now*, then everything read so far came from it, because a
  file that was once another one stays so until the attempt has stopped. The last
  hash is taken by the store (`Check`): where it agrees, the condition is met, and what is
  in memory is what the batch and the index hold (`OutputIsWork`); the hashes the
  adapters compare on the way add nothing. The pages OCR may reuse from an
  earlier attempt carry the bytes they were read from (`PagesAreTheirs`). That
  the scenes divide the recording is proved of `Samples` and `Reported`, which are
  folds over the frames: the fold is unfolded along an interval of indices
  (`FoldExists`), the samples that are kept begin at the first frame and are never
  further apart than the interval and a frame, and `ScenesOf` puts a scene
  between each two. That every silence is told needs only that segments come in
  the order they begin: the silence before the first one that begins after the
  stretch starts at the end of a segment that begins before it, and nobody is
  heard in the stretch, so that end lies before the stretch too (`SilencesAreTold`).
* `RelationsProofs`, opening a file. `SchemaTypeCorrect` for any number of
  processes; `OpenSeesEverythingAlone`, `NothingLostAlone` and
  `OnlyLeftoversFailAlone` for a process alone with the file. The invariant `At`
  says, for each statement the process may be at, which of the two tables exist
  and which one holds everything (`Whole`, `Stranded`, `Blank`).
* `WorkFileProofs`. `TypeCorrect`, `HistoryIsLinearHolds` and
  `ExportIsAccountedHolds`, for any number of people who write and decide, and any
  number of versions. A command checks before it writes, so what it has checked
  may be old; `Chained` (a version revises one that is there and takes the next
  number, no two revise the same) rests on the unique index alone, and of the
  check only what no commit can undo is kept (`FitRow`). From it: every version
  has one trail back to a first version and one tail forward to a current one
  (`TrailExists`, `TailExists`, by least element over the numbers, which have a
  highest: `Numbered`), `advocacy_history` walks them and ends (`WalkBack`,
  `WalkForward`), and the version one began with is on the way (`OnTheWay`). For
  the export, `Accounted` says what has been counted so far, unless the case
  has been decided about since (`fresh`); that the team's lines stay one to
  a history also later needs that a history keeps its first version as it grows
  (`SameRoots`).
* `WorkFileProofs`, the views. `ViewsAgreeHolds` of `ViewSpec`, with everybody
  writing and deciding between the statements of a view. `ViewInv` says for each statement
  what has been read (`StandingFits`, `ComparisonFits`, `SearchFits`), and most of
  it on a condition: charges and mappings are only ever added (`Extends`), so the
  elements of a charge and the mappings there were stay right, while what a
  standing says about support, disputes and gaps is kept only as long as nobody decided
  about evidence or mapped a proposition since its first statement (`Quiet`). A
  mapping that was there at the beginning is to an element that was listed, hence
  each proposition has its one place. What a statement computes is a fold over
  rows in some order: that one exists is proved for any strict order of a finite
  set (`StrictOrderExists`), and the fold is unfolded along the rows
  (`GroupingExists`). The join lists every element, whatever the charges are called
  (`EveryElementIsListed`), and each under a charge that owns it (`OwnElements`);
  that a charge stands once needs that no two charges share posture and label
  (`ChargesStandOnce`, whose induction says that the last entry holds the first
  elements of its charge and the ones before it all of theirs). The index of times and places
  is a fold over a set, so it is shown to be the same in every order (`PassagesFiled`).
* `WorkFileProofs`, the digest. `DigestTellsAllHolds` of `DigestSpec`, for any
  contested propositions, relationships and readings, any number of processes that
  read digests, and writes about any passage between two of their SELECTs. Hardly anything
  a digest holds is known to be right as such, so `DigestInv` speaks of the passages
  nobody wrote about since it began (`touched`): a row read and not yet
  turned into an item is as the file has it (`RowIsSound`), an item says what the
  file says of its passage now (`ItemIsSound`), each relationship of the packet is a
  row still to be read or an item (`PacketFits`), and the sections
  tell of exactly what the packets filed so far hold (`TellsOf`). Whether a passage rests on something is known in two ways: it has
  several roots (`Gathered`), which the walk tells when the row is read, or an
  answer to a question of its own, put for every item with one root before the
  packet is filed (`PacketRests`); either holds as long as the passage is
  undisturbed. A write about one
  passage leaves all of that alone for the others (`SameElsewhere`, `DigestStays`); a write
  about the passage itself takes it out of the statement for every digest under
  way. Whether two items are in conflict depends on the whole packet, items
  of disturbed passages included; another item can only add a conflict
  (`ConflictGrows`), so two undisturbed passages that disagree are both told. The
  sections are folds over the items of a packet (`Only`, `Tell`) and are unfolded along its
  indices (`OnlyKeeps`, `AllAreTold`).

Assumptions are those of the modules' ASSUMEs and of the theorems' statements.
Of a recording the adapters assume what `IsRecording` says: ffprobe reports one end
and one rate, ffmpeg its frames in the order of their times from 0 on, no two at
one millisecond and none past the end of the stream, and the recognizer its
segments in the order they begin (`adapters/audio/src/whisperx.rs` takes them as
ordered); they may lie within one another. `MCAdapterJob` has originals of that kind, TLC evaluates the
assumption on each, and "Disagreements" names what goes wrong with others.
The finiteness the modules assume (of connections, packs, contents, rows) is
that of any file and any machine. An office starts with any calendar and any
file that its schema and its commands may have left (`IsCalendar`,
`FileAssumption`): settings cover matters of one client, notes are chained,
no client has the identifier of a note, a deadline has a date of the calendar. A case starts with passages that have
a review state, as a passage always has, with finitely many relationships, and
with charges and mappings as the keys of the schema keep them (`IsCharged`): an
element has one charge, and what is mapped is a proposition to an element there is.
Of a digest, the contested propositions and the relationships are listed once
each, as the identifiers of the rows have it. `CompletedOncePerContent`, `OneSourcePerContent`,
`ResultIsConfined`, `FirstAttemptsInOrder`, `StartsWhereItWas`,
`EveryMoveIsOnTheTrail`, `OneHandNeverRepeats`, `OnlyLeftoversFail`, `NothingLost`
and the type invariants of the proved modules are proved and therefore no
longer in a run: the runs are spent on what is not proved, and on one statement
of each proved component, so that a reader sees it on an instance.

Some definitions are written so that they can be reasoned about: an order is a
rank that is counted (`Place` in the log, `InOrder` in the lists of the window), a walk is a comprehension over
what lies beneath (`Beneath`, `Grounds`), and the transaction of an import is a set
of turns instead of a fold; which items of a packet a section takes is a fold over
them (`Only`), like the telling of them (`Tell`). The inductions the proofs need are over a set that
is defined for the purpose and are done with the least element it has.

Model-checked only:

* Liveness (`QueuedIsSettled`, `EveryRequestIsAnswered`, `EveryWalkEnds`): fairness
  and ENABLED are out of the prover's reach.
* `ReadingsAreWhole`: whether a text holds a whole timestamp is told by the text in
  `MCAdapterJob` that somebody has read, so the property is about chosen texts:
  for spans, second ends at 13 and at 22 o'clock, of which the one may pass for
  an offset and the other may not.
* What `ClockText` computes for every input: TLC compares it with reference
  definitions over bounded inputs.
* `SoundResultIsImported` and `InterruptedHasExited`, which are violated.

## Not modelled

* Presentation: `winsafe.rs` beyond the handlers that `Desk` and `Sweep` name, the
  window of the queue, argument parsing and the text of the command line,
  layouts of timelines and overviews, wording of digests, rendering of an export.
* Signal processing and judgement: cross-correlation of recordings (`sync.rs`),
  channel and level analysis, diarization, the models themselves; gap
  analyzers about clock disagreement and unresolved references, duplicate
  entities.
* In `IntakeQueue`, what a batch holds: only its identifiers matter there, as a
  reason for a refusal (`MayCollide`); `CaseFile` has the rest, except groups and
  spans beyond their keys. There a segment holds one passage and has its name,
  and the edges of persons are `Relations`'.
* In `Broker`, the manifest checks, `doctor` and the Lege bridge. A worker that
  stays silent stops the broker: that is the fairness it needs.
* In `Views`, propositions are given, mappings are supporting, opposing or
  qualifying, and every passage is a hit. In `WorkFile`, the discovery ledger.
* In `Digest`, the contested propositions are given, as are extracted times and
  places and the candidates for a speaker; of the roots of a passage only
  whether there are several counts, and the walk to them is one step (statement by
  statement it is in `Relations`); structural counts, creation
  dates and `validate_digest`, which has only immutable rows to compare, are
  left out.
* In `Interpretation`, batch imports of readings. In `Sweep`, columns other than
  form and speaker keep no value (time, location, attribution, stance, basis),
  creation of entities, previews and the source picker are left out, and the
  rules do not run during a session.
* In the office, courts, judges and assignments, identity links, and the search
  documents of matters and users; identifiers of matters are disjoint from the
  others. In `Desk`, the docket is loaded at once, no intake job runs (while
  one does, `open_database` is refused and changes nothing), the office of another file
  cannot be opened, reads of the office do not fail, and seeding is left out.
* Fixtures, scripts and artifacts of the repository.

## Plan

1. The queue's window (selection, retry from an old row) composed with the
   coordinator; identity links and assignments of the office.
2. The remaining columns of the sweep, and a session composed with the rules.
