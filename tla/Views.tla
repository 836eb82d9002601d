------------------------------- MODULE Views -------------------------------
(* The views of a case that are read over several statements: the standing  *)
(* (case_standing), the comparison of offenses (offense_comparison) beside   *)
(* the element matrix, the issue workspaces, the search and the dossier of a *)
(* witness; and the index of times and places (collation_index), which is    *)
(* one statement and an algorithm over its rows.                            *)
(*                                                                          *)
(* A view opens no transaction: every statement sees the file as the last    *)
(* commit left it, and the commands of WorkFile run between them.           *)
EXTENDS WorkFile

CONSTANTS
  Anchor,     \* per passage: the date and the place it was normalized to, or None
  Original,   \* per passage: the source it was extracted from
  MaxReads    \* bound on views opened

\* Every element is of one charge, and what is mapped is a proposition to an
\* element there is (the keys of 0001_collation).
IsCharged(table, mapped) ==
  /\ IsFiniteSet(DOMAIN table) /\ mapped = [k \in DOMAIN mapped |-> mapped[k]]
  /\ \A c \in DOMAIN table :
       /\ table[c] = [label |-> table[c].label, elements |-> table[c].elements]
       /\ table[c].label \in DOMAIN LabelRank
       /\ table[c].elements \in Seq(ToSet(table[c].elements))
  /\ \A c, d \in DOMAIN table :
       c # d => ToSet(table[c].elements) \cap ToSet(table[d].elements) = {}
  /\ \A k \in DOMAIN mapped :
       \E c \in DOMAIN table, p \in Propositions :
         \E x \in ToSet(table[c].elements) : k = <<x, p>>

ASSUME ViewsAssumption ==
  /\ \A c \in Passages : {"date", "place"} = DOMAIN Anchor[c]
  /\ \A e \in Evidence : Bears[e].source = Original[Bears[e].passage]
  /\ \A x, y \in DOMAIN LabelRank :
       LabelRank[x] \in Nat /\ (LabelRank[x] = LabelRank[y] => x = y)
  /\ \A r \in ChargeRequests :
       r.label \in DOMAIN LabelRank /\ r.elements \in Seq(ToSet(r.elements))
  /\ \A h \in Histories : IsCharged(h.charges, h.links)
  /\ None \notin Propositions
  /\ MaxReads \in Nat

VARIABLES
  followUps,  \* the requires_follow_up edges between versions of work product
  reads

viewVars == <<vars, followUps, reads>>

\* ORDER BY: every row once, in one of the orders that respect the clause.
Sorted(rows, Precedes(_, _)) ==
  CHOOSE s \in [1 .. Cardinality(rows) -> rows] :
    /\ IsInjective(s) /\ ToSet(s) = rows
    /\ \A i, j \in DOMAIN s : Precedes(s[i], s[j]) => i < j

\* The first statement of a view, and one more.
Look(w, reading) ==
  /\ reads < MaxReads /\ reads' = reads + 1
  /\ doing[w] = Idle
  /\ Become(w, reading)
  /\ UNCHANGED <<tables, reviews, spent, followUps>>

\* What a statement read is kept beside what the earlier ones did.
Noted(q, reading) ==
  [k \in DOMAIN reading \cup DOMAIN q |-> IF k \in DOMAIN reading THEN reading[k] ELSE q[k]]

Turn(w, from, reading) ==
  /\ doing[w].op = from
  /\ Become(w, Noted(doing[w], reading))
  /\ UNCHANGED <<tables, reviews, spent, followUps, reads>>

----------------------------------------------------------------------------
(* The standing: charges as the rows of a join, grouped again; then what    *)
(* bears on their elements; then disputes and gaps.                         *)

\* ORDER BY posture, label, ordinal: LabelRank stands for posture and label.
Before(x, y) ==
  LET a == LabelRank[charges[x[1]].label]
      b == LabelRank[charges[y[1]].label]
  IN a < b \/ (a = b /\ x[2] < y[2])

StandingRows ==
  Sorted(UNION {{<<c, i>> : i \in DOMAIN charges[c].elements} : c \in DOMAIN charges}, Before)

\* A row of another charge than the row before begins a new entry.
AddStanding(entries, row) ==
  LET element == charges[row[1]].elements[row[2]]
  IN IF entries # << >> /\ Last(entries).charge = row[1]
     THEN [entries EXCEPT ![Len(entries)].elements = Append(@, element)]
     ELSE Append(entries, [charge |-> row[1], elements |-> <<element>>])
ChargesStanding == FoldLeft(AddStanding, << >>, StandingRows)

LinesOn(p) == {e \in Evidence : Bears[e].proposition = p /\ lineState[e] \notin {"absent", "rejected"}}

\* Mutant: relationships a reviewer rejected still count as checked.
CheckedLinesOfAll(p) ==
  {e \in Evidence :
     /\ Bears[e].proposition = p /\ Bears[e].relation = "supports" /\ lineState[e] # "absent"
     /\ passageState[Bears[e].passage] = "reviewed"}

CheckedLines(p) ==
  {e \in LinesOn(p) :
     Bears[e].relation = "supports" /\ passageState[Bears[e].passage] = "reviewed"}

MappedTo(element, assessment) ==
  {p \in Propositions : <<element, p>> \in DOMAIN links /\ links[<<element, p>>] = assessment}

\* Three of the counts of an element, as three queries compute them.
Unbacked(element) ==
  {p \in UNION {MappedTo(element, a) : a \in Assessments} : LinesOn(p) = {}}
UncheckedSupport(element) == {p \in MappedTo(element, "supports") : CheckedLines(p) = {}}
SourcesBehindSupport(element) ==
  {Bears[e].source : e \in {x \in Evidence :
     /\ Bears[x].proposition \in MappedTo(element, "supports")
     /\ Bears[x].relation = "supports" /\ lineState[x] \notin {"absent", "rejected"}}}

\* What the standing lists, and what it remembers of when it began.
Listed(entries) == UNION {ToSet(entries[i].elements) : i \in DOMAIN entries}

BeginStanding(w) ==
  Look(w, [op |-> "standing", fresh |-> TRUE, links |-> links, entries |-> ChargesStanding])

\* A mapping to an element that is not listed is passed over.
ReadMappings(w) ==
  LET listed == Listed(doing[w].entries)
  IN Turn(w, "standing",
       [op |-> "mapped",
        facts |-> [x \in listed |-> [supporting |-> MappedTo(x, "supports"),
                                      unchecked |-> UncheckedSupport(x), unbacked |-> Unbacked(x)]],
        bearsOn |-> [p \in Propositions |-> {x \in listed : <<x, p>> \in DOMAIN links}]])

ReadSources(w) ==
  Turn(w, "mapped",
    [op |-> "sourced",
     sources |-> [x \in Listed(doing[w].entries) |-> SourcesBehindSupport(x)]])

\* live_disputes: evidence in both directions.
Disputed(p) == {"supports", "opposes"} \subseteq {Bears[e].relation : e \in LinesOn(p)}

ReadDisputes(w) ==
  Turn(w, "sourced", [op |-> "disputed", disputes |-> {p \in Propositions : Disputed(p)}])

\* open_gaps, two of the four kinds, each a statement of its own (findings).
ReadUnsupported(w) ==
  Turn(w, "disputed",
    [op |-> "unsupported", unsupported |-> {p \in Propositions : LinesOn(p) = {}}])

ReadUnmapped(w) ==
  Turn(w, "unsupported",
    [op |-> "stood",
     unmapped |-> {p \in Propositions :
       LinesOn(p) # {} /\ \A x \in AllElements : <<x, p>> \notin DOMAIN links}])

----------------------------------------------------------------------------
(* The comparison of offenses, and the matrix of the same mappings.         *)

ComesFirst(c, d) == LabelRank[charges[c].label] < LabelRank[charges[d].label]

BeginComparison(w) ==
  Look(w, [op |-> "comparison", links |-> links,
           listed |-> Sorted(DOMAIN charges, ComesFirst)])

ReadElements(w) ==
  Turn(w, "comparison",
    [op |-> "elements", elements |-> [c \in DOMAIN charges |-> charges[c].elements]])

\* The three results are put together by identifier.
ReadAssessments(w) ==
  LET Assessed(x) == [element |-> x, supporting |-> MappedTo(x, "supports"),
                      opposing |-> MappedTo(x, "opposes")]
      Compared(c) == [charge |-> c,
                      elements |-> [i \in DOMAIN doing[w].elements[c] |->
                                      Assessed(doing[w].elements[c][i])]]
  IN Turn(w, "elements",
       [op |-> "compared",
        rows |-> [i \in DOMAIN doing[w].listed |-> Compared(doing[w].listed[i])]])

\* element_matrix: a row per element and mapping, or one for a bare element.
MatrixOf(c, x) ==
  LET mapped == {p \in Propositions : <<x, p>> \in DOMAIN links}
  IN IF mapped = {} THEN {<<c, x, None, None>>} ELSE {<<c, x, links[<<x, p>>], p>> : p \in mapped}
MatrixRows == UNION {UNION {MatrixOf(c, x) : x \in ElementsOf(c)} : c \in DOMAIN charges}

----------------------------------------------------------------------------
(* The issue workspaces: the current issues, then the tasks of each.        *)

\* link_evidence with requires_follow_up: it names versions.
LinkFollowUp(w, issue, task) ==
  /\ Spend
  /\ doing[w] = Idle
  /\ {issue, task} \subseteq DOMAIN versions
  /\ versions[issue].kind = "legal_issue" /\ versions[task].kind = "investigation_task"
  /\ followUps' = followUps \cup {<<issue, task>>}
  /\ UNCHANGED <<tables, reviews, doing, reads>>

Current(kind) == {id \in DOMAIN versions : versions[id].kind = kind /\ IsCurrent(id)}
FollowUps(issue) == {task \in Current("investigation_task") : <<issue, task>> \in followUps}

BeginWorkspaces(w) ==
  Look(w, [op |-> "workspaces", issues |-> Current("legal_issue"), tasks |-> EmptyTable])

ReadFollowUps(w) ==
  /\ doing[w].op = "workspaces"
  /\ \E issue \in doing[w].issues \ DOMAIN doing[w].tasks :
       Turn(w, "workspaces", [tasks |-> AddRow(doing[w].tasks, issue, FollowUps(issue))])

----------------------------------------------------------------------------
(* The search and the dossier of a witness.                                 *)

\* What is already said of the passages found is read after them.
BeginSearch(w, hits) == Look(w, [op |-> "search", fresh |-> TRUE, hits |-> hits])

ReadBearing(w) ==
  Turn(w, "search",
    [op |-> "found", bears |-> {e \in ExportedEvidence : Bears[e].passage \in doing[w].hits}])

\* witness_dossier looks at no review state.
Credibility(c) ==
  {e \in Evidence : Bears[e].passage = c /\ lineState[e] # "absent" /\ Bears[e].relation # "supports"}

BeginDossier(w, statements) ==
  Look(w, [op |-> "dossier", statements |-> statements, credibility |-> EmptyTable])

ReadCredibility(w) ==
  /\ doing[w].op = "dossier"
  /\ \E c \in doing[w].statements \ DOMAIN doing[w].credibility :
       Turn(w, "dossier", [credibility |-> AddRow(doing[w].credibility, c, Credibility(c))])

\* decision_brief: the first by descending number.
LatestBrief(posture) ==
  CHOOSE b \in DOMAIN briefs :
    briefs[b].posture = posture /\ briefs[b].version = Highest(NumbersOf(posture))

----------------------------------------------------------------------------
(* The index of times and places, passage by passage.                       *)

Grouped(groups, key, c) == AddRow(groups, key, (IF key \in DOMAIN groups THEN groups[key] ELSE {}) \cup {c})

FilePassage(index, c) ==
  LET a == Anchor[c]
      missing == {part \in {"date", "place"} : a[part] = None}
  IN [dates |-> IF a.date = None THEN index.dates ELSE Grouped(index.dates, a.date, c),
      places |-> IF a.place = None THEN index.places ELSE Grouped(index.places, a.place, c),
      both |-> IF missing # {} THEN index.both ELSE Grouped(index.both, <<a.date, a.place>>, c),
      missing |-> IF missing = {} THEN index.missing ELSE AddRow(index.missing, c, missing),
      coverage |-> Grouped(index.coverage, Original[c], c)]

EmptyIndex ==
  [dates |-> EmptyTable, places |-> EmptyTable, both |-> EmptyTable,
   missing |-> EmptyTable, coverage |-> EmptyTable]

Originals(S) == {Original[c] : c \in S}

\* A shared anchor needs two originals.
CollationIndex ==
  LET index == FoldSet(LAMBDA c, i : FilePassage(i, c), EmptyIndex,
                       {c \in Passages : passageState[c] # "rejected"})
  IN [index EXCEPT !.both = [k \in {k \in DOMAIN @ : Cardinality(Originals(@[k])) >= 2} |-> @[k]]]

----------------------------------------------------------------------------
ViewInit == Init /\ followUps = {} /\ reads = 0

\* Every command of WorkFile leaves the views alone.
Work == Next /\ UNCHANGED <<followUps, reads>>

BeginView(w) ==
  \/ BeginStanding(w) \/ BeginComparison(w) \/ BeginWorkspaces(w)
  \/ BeginSearch(w, Passages) \/ BeginDossier(w, Passages)

ViewStep(w) ==
  \/ ReadMappings(w) \/ ReadSources(w) \/ ReadDisputes(w) \/ ReadUnsupported(w) \/ ReadUnmapped(w)
  \/ ReadElements(w) \/ ReadAssessments(w)
  \/ ReadFollowUps(w)
  \/ ReadBearing(w) \/ ReadCredibility(w)

ViewNext ==
  \/ Work
  \/ \E w \in Processes : BeginView(w) \/ ViewStep(w)
  \/ \E w \in Processes, issue, task \in Ids : LinkFollowUp(w, issue, task)

ViewSpec == ViewInit /\ [][ViewNext]_viewVars

----------------------------------------------------------------------------
(* Properties.                                                              *)

\* Every charge of the standing stands once with its elements in statutory
\* order, as long as no two of them share posture and label; and as long as
\* nobody decides about evidence or maps a proposition meanwhile, its five
\* later statements tell one story: support a person checked has an original
\* behind it, support with nothing behind it has none, and each proposition is
\* in one place: without evidence, mapped to no element, or bearing on one.
IsSound(standing) ==
  LET entries == standing.entries
      listed == {entries[i].charge : i \in DOMAIN entries}
  IN /\ (\A c, d \in listed : c # d => charges[c].label # charges[d].label)
          => /\ Len(entries) = Cardinality(listed)
             /\ \A i \in DOMAIN entries : entries[i].elements = charges[entries[i].charge].elements
     /\ standing.fresh /\ standing.links = links =>
          /\ \A x \in Listed(entries) :
               LET fact == standing.facts[x]
               IN /\ fact.unchecked # fact.supporting => standing.sources[x] # {}
                  /\ fact.supporting \subseteq fact.unbacked => standing.sources[x] = {}
          /\ \A p \in Propositions :
               /\ p \in standing.unmapped => standing.bearsOn[p] = {} /\ p \notin standing.unsupported
               /\ p \in standing.disputes => p \notin standing.unsupported
               /\ p \in standing.unsupported \cup standing.unmapped \/ standing.bearsOn[p] # {}

\* A comparison lists a charge once with every element it has, although charges
\* are authored between its three statements; it shows every mapping there was
\* when it began, in the direction it has; and it is the matrix, unless
\* somebody wrote meanwhile.
IsComplete(comparison) ==
  LET rows == comparison.rows
      shown == UNION {UNION {{<<rows[i].charge, x.element, "supports", p>> : p \in x.supporting}
                               \cup {<<rows[i].charge, x.element, "opposes", p>> : p \in x.opposing}
                             : x \in ToSet(rows[i].elements)} : i \in DOMAIN rows}
      mappings == {row \in MatrixRows : row[4] # None}
  IN /\ Cardinality(ToSet(comparison.listed)) = Len(comparison.listed)
     /\ \A i \in DOMAIN rows :
          [j \in DOMAIN rows[i].elements |-> rows[i].elements[j].element] = charges[rows[i].charge].elements
     /\ shown \subseteq mappings
     /\ {row \in mappings : <<row[2], row[4]>> \in DOMAIN comparison.links} \subseteq shown
     /\ comparison.links = links => shown = mappings

\* collation_index: no passage in force gets lost.  It is in the group of its
\* date and of its place or among those that need placement, for every anchor
\* it lacks; a shared anchor shows all its passages and has two originals.
IndexIsWhole ==
  LET index == CollationIndex
      kept == {c \in Passages : passageState[c] # "rejected"}
      Lacks(c, part) == c \in DOMAIN index.missing /\ part \in index.missing[c]
  IN /\ \A c \in Passages :
          /\ c \in kept <=> (\E d \in DOMAIN index.dates : c \in index.dates[d]) \/ Lacks(c, "date")
          /\ c \in kept <=> (\E p \in DOMAIN index.places : c \in index.places[p]) \/ Lacks(c, "place")
     /\ \A k \in DOMAIN index.both :
          /\ index.both[k] = index.dates[k[1]] \cap index.places[k[2]]
          /\ Cardinality(Originals(index.both[k])) > 1

\* case_standing, offense_comparison, search: what several statements of a view
\* read is one view.  The search names the relationships the export has, the
\* brief shown for a posture is the one the team's export holds, and the index
\* of times and places loses no passage.
ViewsAgree ==
  /\ IndexIsWhole
  /\ \A posture \in {briefs[b].posture : b \in DOMAIN briefs} :
       {b \in DOMAIN briefs : briefs[b].posture = posture /\ <<"brief", b>> \in CurrentWork}
         = {LatestBrief(posture)}
  /\ \A w \in Processes :
       /\ doing[w].op = "stood" => IsSound(doing[w])
       /\ doing[w].op = "compared" => IsComplete(doing[w])
       /\ doing[w].op = "found" /\ doing[w].fresh =>
            doing[w].bears = {e \in ExportedEvidence : Bears[e].passage \in doing[w].hits}

\* case_standing: every charge stands once, whatever it is called.  It does not
\* hold: the rows of two charges with one posture and label interleave.
EveryChargeStandsOnce == Len(ChargesStanding) = Cardinality(DOMAIN charges)

\* issue_workspaces: a task belongs to the issue that raised it.  It does not
\* hold: an edge names a version, and a revision of the task or of the issue is
\* another one.
TasksStay ==
  \A issue, task \in DOMAIN versions :
    <<issue, task>> \in followUps =>
      Last(History(task)) \in FollowUps(Last(History(issue)))

\* witness_dossier: a relationship a reviewer rejected is out of the working
\* view.  It does not hold: neither statement looks at the review state.
RejectionLeavesTheDossier ==
  \A c \in Passages : \A e \in Credibility(c) : lineState[e] # "rejected"
=============================================================================
