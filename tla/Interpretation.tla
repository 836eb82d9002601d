--------------------------- MODULE Interpretation ---------------------------
(* What persons make of the passages of one original: append-only versions  *)
(* of readings and of the source profile whose defaults a passage inherits, *)
(* the rules that propose a first reading, and the keyboard sweep that      *)
(* writes from rows it read some time ago.                                  *)
(*                                                                          *)
(* A process is a window or the command line, with a connection of its own. *)
(* An append is a deferred transaction: it reads, and its INSERT is refused *)
(* when anybody has committed since (SQLITE_BUSY_SNAPSHOT).  The cursor is  *)
(* moved freely between two keys, so a key names the rows it acts on.       *)
EXTENDS Naturals, Sequences, FiniteSets, SequencesExt

CONSTANTS
  Processes,
  Passages,       \* the passages of the original, in reading order (a sequence)
  Detections,     \* what the rules find, in the order they run: passages and
                  \* forms, and the original's own header (a sequence)
  Source,         \* stands for the original among the detections
  Entries,        \* what persons type: [field, value]
  ProfileDrafts,  \* the profiles persons save: [value, state]
  MaxVersions,    \* bound on the readings there are when a key is pressed
  MaxProfiles,    \* bound on the profiles there are when one is saved
  None

Fields == {"form", "speaker"}
Passage == Range(Passages)

ASSUME ConstantsAssumption ==
  /\ Passages \in Seq(Passage) /\ IsInjective(Passages)
  /\ Detections \in Seq(Range(Detections))
  /\ \A d \in Range(Detections) : d.on \in Passage \cup {Source}
  /\ \A e \in Entries : e.field \in Fields /\ e.value # None
  /\ \A d \in ProfileDrafts :
       /\ d.state \in {"unreviewed", "reviewed"}
       /\ d.value = [f \in Fields |-> d.value[f]]
  /\ Source \notin Passage
  /\ MaxVersions \in Nat /\ MaxProfiles \in Nat

VARIABLES
  readings,  \* content_interpretations, in the order they were written
  profiles,  \* source_profiles, in the order they were written
  withheld,  \* the passages whose content reviewers have rejected
  rows,      \* per process: the rows its sweep shows, or None
  doing,     \* per process: the call it is in
  moved      \* per process: whether another has committed since its run of the
             \* rules began, and since its transaction last read

vars == <<readings, profiles, withheld, rows, doing, moved>>

\* What a call leaves as it was until it is committed.
Records == <<readings, profiles, withheld, rows>>

Idle == [op |-> "idle"]
Undisturbed == [run |-> FALSE, read |-> FALSE]

Init ==
  /\ readings = <<>>
  /\ profiles = <<>>
  /\ withheld = {}
  /\ rows = [w \in Processes |-> None]
  /\ doing = [w \in Processes |-> Idle]
  /\ moved = [w \in Processes |-> Undisturbed]

Become(w, call) == doing' = [doing EXCEPT ![w] = call]

\* The end of a call; what others commit concerns it no more.
Rest(w) == Become(w, Idle) /\ moved' = [moved EXCEPT ![w] = Undisturbed]

----------------------------------------------------------------------------
(* Versions.  A version is named by its place in the log; 0 names none.     *)

Unset == [f \in Fields |-> None]
Label(kind, profile) == [kind |-> kind, profile |-> profile]
NoLabel == [f \in Fields |-> Label("none", 0)]

History(p) == {v \in DOMAIN readings : readings[v].passage = p}
Superseded(v) == \E u \in DOMAIN readings : readings[u].over = v
Heads(p) == {v \in History(p) : ~Superseded(v)}
ProfileHeads ==
  {v \in DOMAIN profiles : \A u \in DOMAIN profiles : profiles[u].over # v}

Latest(S) == IF S = {} THEN 0 ELSE Max(S)

\* What stands among the readings and profiles: only these are inherited.
Decided(state) == state \in {"reviewed", "verified"}

----------------------------------------------------------------------------
(* The sweep's rows.                                                        *)

Row(p) == [passage |-> p, current |-> Latest(Heads(p)), profile |-> Latest(ProfileHeads)]
\* The rows of what is not withheld: the k-th is the one that k - 1 come before.
Shown == {i \in DOMAIN Passages : Passages[i] \notin withheld}
Place(i) == Cardinality({j \in Shown : j < i})
Read ==
  [k \in 1 .. Cardinality(Shown) |-> Row(Passages[CHOOSE i \in Shown : Place(i) = k - 1])]

Explicit(row) == row.current # 0 /\ readings[row.current].state # "rejected"
Inherits(row) == row.profile # 0 /\ Decided(profiles[row.profile].state)

\* effective_interpretation, field by field.
Effective(row, f) ==
  IF Explicit(row) /\ readings[row.current].value[f] # None
  THEN [value |-> readings[row.current].value[f], from |-> readings[row.current].from[f]]
  ELSE IF Inherits(row) /\ profiles[row.profile].value[f] # None
  THEN [value |-> profiles[row.profile].value[f], from |-> Label("inherited", row.profile)]
  ELSE [value |-> None, from |-> Label("none", 0)]

\* A new version that repeats an old one, over the head `over`.
Copy(v, over) ==
  [readings[v] EXCEPT !.state = "reviewed", !.over = over]

\* snapshot: what a key starts from is the row as it was read.
Snapshot(row) ==
  IF row.current # 0 THEN Copy(row.current, row.current)
  ELSE [passage |-> row.passage,
        value |-> [f \in Fields |-> Effective(row, f).value],
        from |-> [f \in Fields |-> Effective(row, f).from],
        state |-> "reviewed", over |-> 0, parent |-> 0]

\* Mutant: the value is entered under the provenance of the one it replaces.
ApplyUnlabelled(version, entry) == [version EXCEPT !.value[entry.field] = entry.value]

\* apply_to_snapshot
Apply(version, entry) ==
  [version EXCEPT !.value[entry.field] = entry.value,
                  !.from[entry.field] = Label("entered", 0)]

----------------------------------------------------------------------------
(* Appending.                                                               *)

\* Mutant: a first reading is accepted where one was refused before.
AcceptsOverRefusal(version) ==
  IF version.over # 0 THEN ~Superseded(version.over)
  ELSE \A v \in Heads(version.passage) : readings[v].state = "rejected"

\* insert_interpretation: supersede the current version, or be the first.
Accepts(version) ==
  IF version.over # 0 THEN ~Superseded(version.over) ELSE Heads(version.passage) = {}

\* insert_profile
AcceptsProfile(profile) ==
  IF profile.over # 0 THEN \A u \in DOMAIN profiles : profiles[u].over # profile.over
  ELSE profiles = <<>>

\* What a call does next: written, or refused.
Then(written, refused) == [written |-> written, refused |-> refused]
AfterKey == Then([op |-> "refresh"], Idle)

\* BEGIN and the checks: the snapshot is taken here.
Begin(w, accepted, call) ==
  IF accepted
  THEN Become(w, call) /\ moved' = [moved EXCEPT ![w].read = FALSE]
  ELSE Become(w, call.then.refused) /\ UNCHANGED moved

Write(w, batch, then) ==
  Begin(w, \A i \in DOMAIN batch : Accepts(batch[i]),
        [op |-> "append", batch |-> batch, then |-> then])

Save(w, profile, then) ==
  Begin(w, AcceptsProfile(profile), [op |-> "save", profile |-> profile, then |-> then])

\* A key of the sweep: when it is refused the rows stay as they were.
Key(w, batch) == Write(w, batch, AfterKey)

\* COMMIT: everybody else's snapshot is old from now on.
Written(w) ==
  /\ Become(w, doing[w].then.written)
  /\ moved' = [x \in Processes |->
                 IF x = w \/ doing[x] = Idle THEN moved[x] ELSE [run |-> TRUE, read |-> TRUE]]

\* Mutant: the INSERT does not mind what others committed since the check.
CommitStale(w) ==
  /\ doing[w].op = "append"
  /\ readings' = readings \o doing[w].batch
  /\ Written(w)
  /\ UNCHANGED <<profiles, withheld, rows>>

Commit(w) ==
  /\ doing[w].op = "append"
  /\ ~moved[w].read
  /\ readings' = readings \o doing[w].batch
  /\ Written(w)
  /\ UNCHANGED <<profiles, withheld, rows>>

CommitProfile(w) ==
  /\ doing[w].op = "save"
  /\ ~moved[w].read
  /\ profiles' = Append(profiles, doing[w].profile)
  /\ Written(w)
  /\ UNCHANGED <<readings, withheld, rows>>

Refuse(w) ==
  /\ doing[w].op \in {"append", "save"}
  /\ moved[w].read
  /\ IF doing[w].then = AfterKey THEN Rest(w)
     ELSE Become(w, doing[w].then.refused) /\ UNCHANGED moved
  /\ UNCHANGED Records

----------------------------------------------------------------------------
(* The sweep.                                                               *)

CanWrite(w, n) ==
  doing[w] = Idle /\ rows[w] # None /\ Len(readings) + n <= MaxVersions

\* open_enrichment
OpenSweep(w) ==
  /\ doing[w] = Idle
  /\ rows' = [rows EXCEPT ![w] = Read]
  /\ UNCHANGED <<readings, profiles, withheld, doing, moved>>

\* refresh_enrichment, the end of every key that wrote
Refresh(w) ==
  /\ doing[w].op = "refresh"
  /\ rows' = [rows EXCEPT ![w] = IF @ = None THEN None ELSE Read]
  /\ Rest(w)
  /\ UNCHANGED <<readings, profiles, withheld>>

\* apply_value: the same entry on the rows from one to another.
Enter(w, from, to, entry) ==
  /\ Key(w, [i \in 1..(to - from + 1) |-> Apply(Snapshot(rows[w][from + i - 1]), entry)])
  /\ UNCHANGED Records

ShowsCandidate(row) == row.current # 0 /\ readings[row.current].state = "suggested"

Populated(version) == {f \in Fields : version.value[f] # None}

\* accept_candidate
Accept(w, i) ==
  /\ ShowsCandidate(rows[w][i])
  /\ LET version == Snapshot(rows[w][i])
     IN Key(w, <<[version EXCEPT !.from =
            [f \in Fields |-> IF f \in Populated(version) THEN Label("accepted", 0)
                              ELSE @[f]]]>>)
  /\ UNCHANGED Records

\* reject_candidate
Reject(w, i) ==
  /\ ShowsCandidate(rows[w][i])
  /\ Key(w, <<[Snapshot(rows[w][i]) EXCEPT !.state = "rejected"]>>)
  /\ UNCHANGED Records

\* undo_last: the version before the last one, read now, over the row's head.
Undo(w, i) ==
  LET p == rows[w][i].passage
      earlier == History(p) \ {Latest(History(p))}
      version == Copy(Max(earlier), rows[w][i].current)
  IN /\ rows[w][i].current # 0
     /\ earlier # {}
     /\ Key(w, <<[version EXCEPT !.from =
            [f \in Fields |-> IF @[f].kind = "none" THEN @[f] ELSE Label("undo", 0)]]>>)
     /\ UNCHANGED Records

\* The nearest row above with the same speaker.
ParentRow(w, i) ==
  Latest({j \in 1..(i - 1) : /\ Effective(rows[w][i], "speaker").value # None
                             /\ Effective(rows[w][j], "speaker").value
                                  = Effective(rows[w][i], "speaker").value})

\* Mutant: whatever the row above shows may be reported.
StandsAtAll(row) == row.current # 0

StandsDecided(row) == row.current # 0 /\ Decided(readings[row.current].state)

\* set_nearest_reporting_parent: a parent not yet decided is decided with it.
\* The identifier of that new version is made before it is written.
SetParent(w, i) ==
  /\ ParentRow(w, i) # 0
  /\ LET above == rows[w][ParentRow(w, i)]
         child == Snapshot(rows[w][i])
     IN IF StandsDecided(above)
        THEN Key(w, <<[child EXCEPT !.parent = above.current]>>)
        ELSE Key(w, <<Snapshot(above), [child EXCEPT !.parent = Len(readings) + 1]>>)
  /\ UNCHANGED Records

\* A key of the sweep, wherever its cursor and its mark may be.
PressAnywhere(w) ==
  \/ \E from, to \in DOMAIN rows[w], entry \in Entries :
       from <= to /\ CanWrite(w, to - from + 1) /\ Enter(w, from, to, entry)
  \/ \E i \in DOMAIN rows[w] :
       /\ CanWrite(w, 1)
       /\ Accept(w, i) \/ Reject(w, i) \/ Undo(w, i)
  \/ \E i \in DOMAIN rows[w] : CanWrite(w, 2) /\ SetParent(w, i)

\* save_source_profile: over whichever version is current.
SaveProfile(w) ==
  /\ doing[w] = Idle
  /\ Len(profiles) < MaxProfiles
  /\ \E draft \in ProfileDrafts :
       Save(w, [value |-> draft.value, state |-> draft.state,
                over |-> Latest(ProfileHeads)], AfterKey)
  /\ UNCHANGED Records

----------------------------------------------------------------------------
(* The rules.                                                               *)

Rules(todo) == [op |-> "rules", todo |-> todo]

BeginRules(w) ==
  /\ doing[w] = Idle
  /\ Become(w, Rules(Detections))
  /\ moved' = [moved EXCEPT ![w].run = FALSE]
  /\ UNCHANGED Records

\* Mutant: what a reviewer refused is not counted as history.
HasStandingHistory(on) ==
  IF on = Source THEN profiles # <<>>
  ELSE \E v \in Heads(on) : readings[v].state # "rejected"

\* interpretation_span_has_history, and `held` of the header-date rule: any
\* version suppresses the candidate for good.
HasHistory(on) == IF on = Source THEN profiles # <<>> ELSE History(on) # {}

Candidate(d) ==
  [passage |-> d.on, value |-> [Unset EXCEPT !.form = d.form],
   from |-> [NoLabel EXCEPT !.form = Label("suggested", 0)],
   state |-> "suggested", over |-> 0, parent |-> 0]

\* One detection: skipped, or about to be proposed.
RuleStep(w) ==
  /\ doing[w].op = "rules"
  /\ doing[w].todo # <<>>
  /\ LET on == Head(doing[w].todo).on
     IN Become(w, IF HasHistory(on) THEN Rules(Tail(doing[w].todo))
                  ELSE [doing[w] EXCEPT !.op = "propose"])
  /\ UNCHANGED <<readings, profiles, withheld, rows, moved>>

\* append_suggested_*: an error ends the whole run, and what it wrote stays.
Propose(w) ==
  /\ doing[w].op = "propose"
  /\ LET d == Head(doing[w].todo)
         then == Then(Rules(Tail(doing[w].todo)), [op |-> "failed"])
     IN IF d.on = Source
        THEN Save(w, [value |-> Unset, state |-> "suggested", over |-> 0], then)
        ELSE Write(w, <<Candidate(d)>>, then)
  /\ UNCHANGED Records

EndRules(w) ==
  /\ doing[w].op = "failed" \/ doing[w] = Rules(<<>>)
  /\ Rest(w)
  /\ UNCHANGED Records

----------------------------------------------------------------------------

Next ==
  \E w \in Processes :
    \/ OpenSweep(w) \/ Refresh(w)
    \/ rows[w] # None /\ PressAnywhere(w)
    \/ SaveProfile(w)
    \/ BeginRules(w) \/ RuleStep(w) \/ Propose(w) \/ EndRules(w)
    \/ Commit(w) \/ CommitProfile(w) \/ Refuse(w)

Spec == Init /\ [][Next]_vars

----------------------------------------------------------------------------
(* Properties.                                                              *)

\* However windows and rules race, a passage has one current reading and the
\* original one current profile (insert_interpretation, insert_profile: no
\* index says so for a first version).
OneReading ==
  /\ \A p \in Passage : Cardinality(Heads(p)) <= 1
  /\ Cardinality(ProfileHeads) <= 1

\* A rule never answers after a person: its candidate is the first version of
\* its passage, whatever was decided and undone there.
RulesSpeakFirst ==
  \A v \in DOMAIN readings :
    readings[v].state = "suggested" => \A u \in History(readings[v].passage) : v <= u

\* A run of the rules fails only when somebody wrote while it ran: rules that
\* run over a case full of decisions find them all and go on.
OnlyRacesFail == \A w \in Processes : doing[w].op = "failed" => moved[w].run

\* The provenance beside a value is true of that value, through copies,
\* refusals and undone versions: inherited from that reviewed version of the
\* profile, proposed for this passage, or restored from one of its versions.
ProvenanceIsTrue ==
  \A v \in DOMAIN readings, f \in Fields :
    LET value == readings[v].value[f]
        from == readings[v].from[f]
        before == {u \in History(readings[v].passage) : u < v}
    IN /\ from.kind = "none" => value = None
       /\ from.kind = "inherited" =>
            Decided(profiles[from.profile].state) /\ profiles[from.profile].value[f] = value
       /\ from.kind = "suggested" /\ readings[v].state # "suggested" =>
            \E u \in before : readings[u].state = "suggested" /\ readings[u].value[f] = value
       /\ from.kind = "accepted" =>
            \E u \in before : readings[u].state = "suggested" /\ readings[u].value[f] = value
       /\ from.kind = "undo" => \E u \in before : readings[u].value[f] = value

\* The statement a report rests on is an earlier passage of the same
\* original, decided by a person when the report was tied to it.
ParentsStandAbove ==
  \A v \in DOMAIN readings :
    LET parent == readings[v].parent
    IN parent # 0 =>
         /\ parent \in DOMAIN readings
         /\ Decided(readings[parent].state)
         /\ \E i, j \in DOMAIN Passages :
              /\ i < j
              /\ Passages[i] = readings[parent].passage
              /\ Passages[j] = readings[v].passage

\* docs/enrichment.md: a candidate nobody has answered never reaches a packet.
\* A packet shows the decided head (reviewed_semantic_snapshot).  It does not
\* hold: a value typed on the row copies the candidate's fields with it.
UnansweredStaysOut ==
  \A p \in Passage : \A v \in Heads(p) :
    Decided(readings[v].state) => readings[v].from["form"].kind # "suggested"
=============================================================================
