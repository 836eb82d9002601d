------------------------------ MODULE WorkFile ------------------------------
(* What a team writes about a case: privileged work product kept in         *)
(* versions (author_advocacy_item, annotate and their revisions), decision  *)
(* briefs, charges with their elements, the mapping of propositions to      *)
(* elements; and the export of the whole case (export_case).  The views      *)
(* built on them are in Views.                                              *)
(*                                                                          *)
(* Windows and command line are processes of their own on one file in WAL   *)
(* mode.  A command checks with SELECTs and then writes, each a step.       *)
EXTENDS Naturals, FiniteSets, Sequences, SequencesExt

CONSTANTS
  Processes,
  Ids,              \* identifiers of versions, in the work-product tables
  WorkKinds,        \* the kinds of work product written
  Postures,         \* what a brief is written for
  ChargeRequests,   \* the charges that may be recorded
  LabelRank,        \* the order of posture and label of a charge
  Propositions,
  Evidence,         \* relationships from a passage to a proposition
  Bears,            \* per relationship: proposition, passage, source, relation
  Histories,        \* the charges, mappings and review states a case may start with
  MaxCommands,      \* bound on commands and decisions
  None

Passages == {Bears[e].passage : e \in Evidence}
Relations == {"supports", "opposes", "qualifies"}
Assessments == {"supports", "opposes"}
AllKinds == {"legal_issue", "investigation_task", "annotation"}
ParagraphKinds == {"factual", "judgment"}

ReviewStates == {"absent", "unreviewed", "reviewed", "rejected"}

ASSUME ConstantsAssumption ==
  /\ \A e \in Evidence :
       /\ Bears[e].proposition \in Propositions
       /\ Bears[e].relation \in Relations
  /\ \A r \in ChargeRequests : r.elements # << >> /\ LabelRank[r.label] \in Nat
  /\ \A h \in Histories :
       /\ h.line \in [Evidence -> ReviewStates]
       /\ h.passage \in [Passages -> ReviewStates \ {"absent"}]
       /\ \A k \in DOMAIN h.links : h.links[k] \in Assessments
  /\ IsFiniteSet(Evidence)
  /\ WorkKinds \subseteq AllKinds
  /\ MaxCommands \in Nat
  /\ None \notin Ids

VARIABLES
  versions,      \* the versions written: kind, number and the one superseded
  briefs,        \* the briefs written: posture, number and paragraphs
  charges,       \* the charges recorded: label and elements in order
  links,         \* the direction in which a proposition bears on an element
  lineState,     \* per relationship: its review state
  passageState,  \* per passage: its review state
  doing,         \* per process: the command it is in
  spent

vars == <<versions, briefs, charges, links, lineState, passageState, doing, spent>>
tables == <<versions, briefs, charges, links>>
reviews == <<lineState, passageState>>

Idle == [op |-> "idle"]
EmptyTable == << >>

Init ==
  /\ versions = EmptyTable /\ briefs = EmptyTable
  /\ \E h \in Histories :
       /\ charges = h.charges /\ links = h.links
       /\ lineState = h.line /\ passageState = h.passage
  /\ doing = [w \in Processes |-> Idle]
  /\ spent = 0

Spend == spent < MaxCommands /\ spent' = spent + 1
Become(w, command) == doing' = [doing EXCEPT ![w] = command]
AddRow(table, key, row) == [k \in DOMAIN table \cup {key} |-> IF k = key THEN row ELSE table[k]]

\* A commit moves the file past every snapshot another transaction reads from.
CommitAs(w, command) ==
  doing' = [v \in Processes |->
    IF v = w THEN command
    ELSE IF doing[v].op = "brief" THEN [doing[v] EXCEPT !.snapshot = "stale"]
    ELSE doing[v]]

----------------------------------------------------------------------------
(* Versions.  Advocacy items and annotations have a table each, written the *)
(* same way.                                                                *)

IsCurrent(id) == \A later \in DOMAIN versions : versions[later].supersedes # id

\* author_advocacy_item, annotate: the identifier is still free.
BeginAuthor(w, kind, id) ==
  /\ Spend
  /\ doing[w] = Idle
  /\ id \notin DOMAIN versions
  /\ Become(w, [op |-> "version", id |-> id,
                row |-> [kind |-> kind, version |-> 1, supersedes |-> None]])
  /\ UNCHANGED <<tables, reviews>>

\* revise_advocacy_item, revise_annotation: the version revised is current.
BeginRevise(w, of, id) ==
  /\ Spend
  /\ doing[w] = Idle
  /\ of \in DOMAIN versions
  /\ IsCurrent(of)
  /\ id \notin DOMAIN versions
  /\ Become(w, [op |-> "version", id |-> id,
                row |-> [kind |-> versions[of].kind, version |-> versions[of].version + 1,
                         supersedes |-> of]])
  /\ UNCHANGED <<tables, reviews>>

\* Mutant: without the unique indexes on what a version supersedes.
AcceptsFreeId(id, row) == id \notin DOMAIN versions

\* The primary key and the unique indexes of 0005_work_product.
Accepts(id, row) ==
  /\ id \notin DOMAIN versions
  /\ row.supersedes = None \/ IsCurrent(row.supersedes)

InsertVersion(w) ==
  /\ doing[w].op = "version"
  /\ IF Accepts(doing[w].id, doing[w].row)
     THEN /\ versions' = AddRow(versions, doing[w].id, doing[w].row)
          /\ CommitAs(w, Idle)
     ELSE Become(w, Idle) /\ UNCHANGED versions
  /\ UNCHANGED <<briefs, charges, links, reviews, spent>>

\* advocacy_history: back to the version that supersedes none, then forward.
Earliest[id \in Ids] ==
  IF id \notin DOMAIN versions \/ versions[id].supersedes = None THEN id
  ELSE Earliest[versions[id].supersedes]
Forward[id \in Ids] ==
  IF IsCurrent(id) THEN <<id>>
  ELSE <<id>> \o Forward[CHOOSE later \in DOMAIN versions : versions[later].supersedes = id]
History(id) == Forward[Earliest[id]]

----------------------------------------------------------------------------
(* Briefs: one transaction that reads the highest number and writes the     *)
(* brief and its paragraphs.                                                *)

Paragraphs == {<< >>} \cup {<<[kind |-> k, cited |-> c]>> : k \in ParagraphKinds, c \in BOOLEAN}

Supported(paragraphs) ==
  \A i \in DOMAIN paragraphs : paragraphs[i].kind = "factual" => paragraphs[i].cited

BeginBrief(w, id, posture, paragraphs) ==
  /\ Spend
  /\ doing[w] = Idle
  /\ Supported(paragraphs)
  /\ id \notin DOMAIN briefs
  /\ Become(w, [op |-> "brief", id |-> id, snapshot |-> "none",
                row |-> [posture |-> posture, version |-> 0, paragraphs |-> paragraphs]])
  /\ UNCHANGED <<tables, reviews>>

NumbersOf(posture) == {briefs[id].version : id \in {b \in DOMAIN briefs : briefs[b].posture = posture}}
Highest(S) == IF S = {} THEN 0 ELSE CHOOSE n \in S : \A m \in S : m <= n

\* The first SELECT of the transaction takes its snapshot.
ReadNumber(w) ==
  /\ doing[w].op = "brief"
  /\ doing[w].row.version = 0
  /\ Become(w, [doing[w] EXCEPT !.snapshot = "current",
                                !.row.version = Highest(NumbersOf(doing[w].row.posture)) + 1])
  /\ UNCHANGED <<tables, reviews, spent>>

\* An INSERT on a snapshot another commit has overtaken is refused, and so is
\* a second brief of the same posture and number.
BriefIsAccepted(b) ==
  /\ b.snapshot = "current"
  /\ b.id \notin DOMAIN briefs
  /\ b.row.version \notin NumbersOf(b.row.posture)

InsertBrief(w) ==
  /\ doing[w].op = "brief"
  /\ doing[w].row.version # 0
  /\ IF BriefIsAccepted(doing[w])
     THEN /\ briefs' = AddRow(briefs, doing[w].id, doing[w].row)
          /\ CommitAs(w, Idle)
     ELSE Become(w, Idle) /\ UNCHANGED briefs
  /\ UNCHANGED <<versions, charges, links, reviews, spent>>

----------------------------------------------------------------------------
(* Charges, their elements, and what bears on them.                         *)

ElementsOf(c) == {charges[c].elements[i] : i \in DOMAIN charges[c].elements}
AllElements == UNION {ElementsOf(c) : c \in DOMAIN charges}

BeginCharge(w, r) ==
  /\ Spend
  /\ doing[w] = Idle
  /\ r.id \notin DOMAIN charges
  /\ Become(w, [op |-> "charge", request |-> r])
  /\ UNCHANGED <<tables, reviews>>

\* The charge and its elements in one transaction, unless a key is taken.
InsertCharge(w) ==
  /\ doing[w].op = "charge"
  /\ LET r == doing[w].request
     IN IF r.id \notin DOMAIN charges /\ \A i \in DOMAIN r.elements : r.elements[i] \notin AllElements
        THEN /\ charges' = AddRow(charges, r.id, [label |-> r.label, elements |-> r.elements])
             /\ CommitAs(w, Idle)
        ELSE Become(w, Idle) /\ UNCHANGED charges
  /\ UNCHANGED <<versions, briefs, links, reviews, spent>>

\* map_element: one proposition bears on one element in one direction.
BeginMap(w, element, proposition, assessment) ==
  /\ Spend
  /\ doing[w] = Idle
  /\ element \in AllElements
  /\ <<element, proposition>> \notin DOMAIN links
  /\ Become(w, [op |-> "map", pair |-> <<element, proposition>>, assessment |-> assessment])
  /\ UNCHANGED <<tables, reviews>>

InsertMapping(w) ==
  /\ doing[w].op = "map"
  /\ IF doing[w].pair \notin DOMAIN links
     THEN /\ links' = AddRow(links, doing[w].pair, doing[w].assessment)
          /\ CommitAs(w, Idle)
     ELSE Become(w, Idle) /\ UNCHANGED links
  /\ UNCHANGED <<versions, briefs, charges, reviews, spent>>

----------------------------------------------------------------------------
(* The export, one SELECT after the other.                                  *)

BeginExport(w, audience) ==
  /\ Spend
  /\ doing[w] = Idle
  /\ Become(w, [op |-> "export", audience |-> audience, fresh |-> TRUE])
  /\ UNCHANGED <<tables, reviews>>

\* Mutant: a passage a reviewer rejected takes its lines along.
EvidenceOfStandingPassages ==
  {e \in Evidence :
     lineState[e] \notin {"absent", "rejected"} /\ passageState[Bears[e].passage] # "rejected"}

\* evidence_by_proposition looks at the state of the relationship alone.
ExportedEvidence == {e \in Evidence : lineState[e] \notin {"absent", "rejected"}}

ReadEvidence(w) ==
  /\ doing[w].op = "export"
  /\ LET lines == ExportedEvidence
     IN Become(w, [op |-> "count", audience |-> doing[w].audience, fresh |-> doing[w].fresh,
                   lines |-> lines,
                   unsupported |-> {p \in Propositions : \A e \in lines : Bears[e].proposition # p},
                   unreviewed |-> Cardinality({e \in lines :
                     "unreviewed" \in {lineState[e], passageState[Bears[e].passage]}})])
  /\ UNCHANGED <<tables, reviews, spent>>

CountRejected(w) ==
  /\ doing[w].op = "count"
  /\ Become(w, [op |-> "privilege", audience |-> doing[w].audience, fresh |-> doing[w].fresh,
                lines |-> doing[w].lines, unsupported |-> doing[w].unsupported,
                unreviewed |-> doing[w].unreviewed,
                omitted |-> Cardinality({e \in Evidence : lineState[e] = "rejected"})])
  /\ UNCHANGED <<tables, reviews, spent>>

\* privileged_work_product: the current version of everything, for the team only.
CurrentWork ==
  {<<"version", id>> : id \in {v \in DOMAIN versions : IsCurrent(v)}}
    \cup {<<"brief", id>> : id \in {b \in DOMAIN briefs :
                                     briefs[b].version = Highest(NumbersOf(briefs[b].posture))}}

ReadPrivileged(w) ==
  /\ doing[w].op = "privilege"
  /\ Become(w, [op |-> "exported", fresh |-> doing[w].fresh,
                lines |-> doing[w].lines, unsupported |-> doing[w].unsupported,
                unreviewed |-> doing[w].unreviewed, omitted |-> doing[w].omitted,
                privileged |-> IF doing[w].audience = "work-file" THEN CurrentWork ELSE {}])
  /\ UNCHANGED <<tables, reviews, spent>>

----------------------------------------------------------------------------
\* The process is killed, or the command returns: nothing uncommitted is left.
Finish(w) ==
  /\ doing[w] # Idle
  /\ Become(w, Idle)
  /\ UNCHANGED <<tables, reviews, spent>>

\* Whatever is read over several statements has partly seen an older case.
Disturb ==
  doing' = [w \in Processes |->
    IF doing[w].op = "brief" THEN [doing[w] EXCEPT !.snapshot = "stale"]
    ELSE IF "fresh" \in DOMAIN doing[w] THEN [doing[w] EXCEPT !.fresh = FALSE]
    ELSE doing[w]]

\* A relationship is written, or a reviewer decides about it or about a passage
\* (see Relations and Review).
DecideLine(e, state) ==
  /\ Spend
  /\ lineState[e] # state
  /\ lineState' = [lineState EXCEPT ![e] = IF @ = "absent" THEN "unreviewed" ELSE state]
  /\ Disturb
  /\ UNCHANGED <<tables, passageState>>

DecidePassage(c, state) ==
  /\ Spend
  /\ passageState[c] # state
  /\ passageState' = [passageState EXCEPT ![c] = state]
  /\ Disturb
  /\ UNCHANGED <<tables, lineState>>

Begin(w) ==
  \/ \E kind \in WorkKinds, id \in Ids : BeginAuthor(w, kind, id)
  \/ \E of, id \in Ids : BeginRevise(w, of, id)
  \/ \E id \in Ids, posture \in Postures, paragraphs \in Paragraphs :
       BeginBrief(w, id, posture, paragraphs)
  \/ \E r \in ChargeRequests : BeginCharge(w, r)
  \/ \E element \in AllElements, p \in Propositions, a \in Assessments : BeginMap(w, element, p, a)
  \/ \E audience \in {"disclosable", "work-file"} : BeginExport(w, audience)

Step(w) ==
  \/ InsertVersion(w) \/ ReadNumber(w) \/ InsertBrief(w)
  \/ InsertCharge(w) \/ InsertMapping(w)
  \/ ReadEvidence(w) \/ CountRejected(w) \/ ReadPrivileged(w)

Next ==
  \/ \E w \in Processes : Begin(w) \/ Step(w) \/ Finish(w)
  \/ \E e \in Evidence, state \in {"reviewed", "rejected"} : DecideLine(e, state)
  \/ \E c \in Passages, state \in {"reviewed", "rejected"} : DecidePassage(c, state)

Spec == Init /\ [][Next]_vars

----------------------------------------------------------------------------
(* Properties.                                                              *)

\* The tables hold what the schema admits.
TypeOK ==
  /\ DOMAIN versions \subseteq Ids
  /\ \A id \in DOMAIN versions :
       versions[id] \in [kind : WorkKinds, version : Nat \ {0}, supersedes : Ids \cup {None}]
  /\ DOMAIN briefs \subseteq Ids
  /\ \A id \in DOMAIN briefs :
       briefs[id] \in [posture : Postures, version : Nat \ {0}, paragraphs : Paragraphs]
  /\ lineState \in [Evidence -> ReviewStates]
  /\ passageState \in [Passages -> ReviewStates]
  /\ \A k \in DOMAIN links : links[k] \in Assessments

\* revise_advocacy_item: two people who revise the same version at the same time
\* never fork its history: from any version the walk both ways meets every
\* version of the same kind it descends from or that descends from it, each
\* once, numbered 1, 2, 3 without a gap.
HistoryIsLinear ==
  \A id \in DOMAIN versions :
    LET walk == History(id)
    IN /\ \A i \in DOMAIN walk :
            versions[walk[i]].version = i /\ versions[walk[i]].kind = versions[id].kind
       /\ id \in {walk[i] : i \in DOMAIN walk}
       /\ \A later \in DOMAIN versions :
            versions[later].supersedes = id => later \in {walk[i] : i \in DOMAIN walk}

\* export_case: as long as nobody decides about the evidence meanwhile, nothing
\* leaves silently.  Every relationship is a line or is counted as omitted, a
\* proposition without a line is listed as unsupported, a line either counts as
\* unreviewed or rests on two decisions, and each history and each posture gives
\* one privileged line at most.
ExportIsAccounted ==
  \A w \in Processes :
    doing[w].op = "exported" =>
      LET report == doing[w]
      IN /\ report.fresh =>
              /\ Cardinality(report.lines) + report.omitted
                   = Cardinality({e \in Evidence : lineState[e] # "absent"})
              /\ report.unreviewed
                   = Cardinality({e \in report.lines :
                       ~(lineState[e] \in {"reviewed", "rejected"}
                           /\ passageState[Bears[e].passage] \in {"reviewed", "rejected"})})
         /\ report.unsupported = Propositions \ {Bears[e].proposition : e \in report.lines}
         /\ \A a, b \in report.privileged :
              a # b /\ a[1] = b[1] =>
                IF a[1] = "version" THEN Earliest[a[2]] # Earliest[b[2]]
                ELSE briefs[a[2]].posture # briefs[b[2]].posture
=============================================================================
