------------------------------ MODULE CaseFile ------------------------------
(***************************************************************************)
(* The evidence of the case file: what an adapter's batch brings in        *)
(* (Store::import_normalized), the finder index over derived stills        *)
(* (Store::index_keyframes, search_keyframes) and the human review of the  *)
(* records they bring, which module Review models.                         *)
(*                                                                         *)
(* An import reads and checks before its transaction, and other            *)
(* connections may write in between: Begin and Commit are two steps.  The  *)
(* transaction is one step: its first statement reads, so SQLite refuses   *)
(* it when another connection has written since.  A segment holds one      *)
(* passage here and shares its name.                                       *)
(***************************************************************************)
EXTENDS Review, SequencesExt

CONSTANTS
  Batches,      \* the batches adapters may hand in
  Indexes,      \* the keyframe indexes adapters may hand in
  Allowances,   \* bound: transactions and batches, decisions and their records
  CaseOf,       \* the case of each production and entity
  None,
  Descriptive   \* the relations that describe and do not argue

VARIABLES
  file,         \* the rows of sources, contents, edges and vectors, by id
  importing,    \* per connection: the batch checked and not yet committed
  allowance     \* what is left of one of Allowances

caseVars == <<reviewState, trail, imported, deciding, file, importing, allowance>>
NoBatch == [sources |-> <<>>, edges |-> <<>>]

CaseInit ==
  /\ Init
  /\ file = [sources |-> <<>>, contents |-> <<>>, edges |-> <<>>, vectors |-> <<>>]
  /\ importing = [w \in Connections |-> NoBatch]
  /\ allowance \in Allowances

Holds(rows, id, case) == id \in DOMAIN rows /\ rows[id].case = case
SameText(h, k) == h.text = k.text

----------------------------------------------------------------------------
(* The checks before the transaction.                                      *)

\* The passages of a batch by their turn: the source's, then their own.
Turns(b) ==
  UNION {{<<i, j>> : j \in DOMAIN b.sources[i].passages} : i \in DOMAIN b.sources}
PassageAt(b, t) == b.sources[t[1]].passages[t[2]]
Before(t, u) == t[1] < u[1] \/ (t[1] = u[1] /\ t[2] < u[2])

PassagesOf(b) == {PassageAt(b, t) : t \in Turns(b)}

\* Sources, passages and edges come in sequences, and rows in a review state.
ASSUME BatchAssumption ==
  \A b \in Batches :
    /\ DOMAIN b.sources \subseteq Nat /\ DOMAIN b.edges \subseteq Nat
    /\ \A i \in DOMAIN b.sources : DOMAIN b.sources[i].passages \subseteq Nat
    /\ \A c \in PassagesOf(b) : c.state \in ReviewStates

ASSUME AllowanceAssumption ==
  Allowances \subseteq [imports : Nat, batches : SUBSET Batches,
                       decisions : Nat, decidable : SUBSET Records]

\* validate_batch, validate_edges
Valid(b) ==
  /\ b.sources # <<>> \/ b.edges # <<>>
  /\ \A c \in PassagesOf(b) : c.machine => c.state = "suggested"
  /\ \A i, k \in DOMAIN b.edges : b.edges[i].id = b.edges[k].id => i = k
  /\ \A e \in ToSet(b.edges) : e.relation \in Descriptive /\ e.from # e.to

\* refuse_cross_case_batch
KeepsToItsCase(b) ==
  \A c \in PassagesOf(b) :
    /\ c.speaker # None => CaseOf[c.speaker] = b.case
    /\ c.parent # None /\ c.parent \notin {d.id : d \in PassagesOf(b)} =>
         Holds(file.contents, c.parent, b.case)

----------------------------------------------------------------------------
(* The transaction.  A row is checked against the file as it stands when     *)
(* its turn comes: what was there, and the rows of the batch before it.  One *)
(* row refused refuses the batch.                                            *)

\* A table with a row more for each of the turns.
With(rows, turns, Id(_), Row(_)) ==
  [id \in DOMAIN rows \cup {Id(t) : t \in turns} |->
     IF id \in DOMAIN rows THEN rows[id] ELSE Row(CHOOSE t \in turns : Id(t) = id)]

Earlier(turns, n) == {k \in turns : k < n}

\* Of the turns gone by, those that brought a source nobody held.
NewSources(f, b, turns) ==
  {i \in turns : /\ b.sources[i].id \notin DOMAIN f.sources
                 /\ \A k \in Earlier(turns, i) : b.sources[k].id # b.sources[i].id}

SourcesAfter(f, b, turns) ==
  With(f.sources, NewSources(f, b, turns),
       LAMBDA i : b.sources[i].id,
       LAMBDA i : [case |-> b.case, production |-> b.sources[i].production,
                   hash |-> b.sources[i].hash])

\* Mutant: a source held under the name is taken for the same one.
MatchesByName(held, b, s) == held.case = b.case

\* A source held already must be the same original in every respect.
Matches(held, b, s) ==
  held.case = b.case /\ held.production = s.production /\ SameText(held.hash, s.hash)

\* UNIQUE(case_id, sha256), which tells the spellings of a hash apart.
HashIsFree(rows, b, s) ==
  \A id \in DOMAIN rows : rows[id].case = b.case => rows[id].hash # s.hash

AcceptsSource(f, b, i) ==
  LET s == b.sources[i]
      rows == SourcesAfter(f, b, Earlier(DOMAIN b.sources, i))
  IN  /\ CaseOf[s.production] = b.case
      /\ IF s.id \in DOMAIN rows THEN Matches(rows[s.id], b, s) ELSE HashIsFree(rows, b, s)

\* The foreign key, and the trigger of 0008 that keeps a parent in its case.
ParentStands(f, b, t) ==
  LET c == PassageAt(b, t)
  IN  \/ c.parent \in {None, c.id}
      \/ Holds(f.contents, c.parent, b.case)
      \/ \E u \in Turns(b) : Before(u, t) /\ PassageAt(b, u).id = c.parent

AcceptsPassage(f, b, t) ==
  /\ PassageAt(b, t).id \notin DOMAIN f.contents
  /\ \A u \in Turns(b) : Before(u, t) => PassageAt(b, u).id # PassageAt(b, t).id
  /\ ParentStands(f, b, t)

ContentsAfter(f, b) ==
  With(f.contents, Turns(b),
       LAMBDA t : PassageAt(b, t).id,
       LAMBDA t : [case |-> b.case, source |-> b.sources[t[1]].id, shows |-> b.sources[t[1]].hash,
                   parent |-> PassageAt(b, t).parent, speaker |-> PassageAt(b, t).speaker])

WithEvidence(f, b) ==
  [f EXCEPT !.sources = SourcesAfter(f, b, DOMAIN b.sources), !.contents = ContentsAfter(f, b)]

\* Mutant: an endpoint only has to exist.
EndpointExists(f, b, id) == id \in DOMAIN f.sources \cup DOMAIN f.contents

EndpointStands(f, b, id) == Holds(f.sources, id, b.case) \/ Holds(f.contents, id, b.case)

\* Mutant: only the orientation the unique index sees.
HeldThisWay(rows, b, e) ==
  \E x \in {rows[id] : id \in DOMAIN rows} :
    /\ x.case = b.case
    /\ x.relation = e.relation
    /\ <<x.from, x.to>> = <<e.from, e.to>>

PairIsHeld(rows, b, e) ==
  \E x \in {rows[id] : id \in DOMAIN rows} :
    /\ x.case = b.case
    /\ x.relation = e.relation
    /\ <<x.from, x.to>> \in {<<e.from, e.to>>, <<e.to, e.from>>}

EdgesAfter(f, b, turns) ==
  With(f.edges, turns,
       LAMBDA i : b.edges[i].id,
       LAMBDA i : [case |-> b.case, from |-> b.edges[i].from, relation |-> b.edges[i].relation,
                   to |-> b.edges[i].to])

AcceptsEdge(f, b, i) ==
  LET e == b.edges[i]
  IN  /\ e.id \notin DOMAIN f.edges
      /\ EndpointStands(f, b, e.from)
      /\ EndpointStands(f, b, e.to)
      /\ ~ PairIsHeld(EdgesAfter(f, b, Earlier(DOMAIN b.edges, i)), b, e)

\* import_normalized_tx, import_edges
Accepted(f, b) ==
  /\ \A i \in DOMAIN b.sources : AcceptsSource(f, b, i)
  /\ \A t \in Turns(b) : AcceptsPassage(f, b, t)
  /\ \A i \in DOMAIN b.edges : AcceptsEdge(WithEvidence(f, b), b, i)

Imported(f, b) ==
  [WithEvidence(f, b) EXCEPT !.edges = EdgesAfter(f, b, DOMAIN b.edges)]

\* The review state each new row starts from.
EntersAs(b, r) ==
  IF \E c \in PassagesOf(b) : c.id = r THEN (CHOOSE c \in PassagesOf(b) : c.id = r).state
  ELSE IF \E e \in ToSet(b.edges) : e.id = r THEN "suggested"
  ELSE "unreviewed"

Rows(f) == DOMAIN f.sources \cup DOMAIN f.contents \cup DOMAIN f.edges

----------------------------------------------------------------------------

BeginImport(w, b) ==
  /\ importing[w] = NoBatch
  /\ allowance.imports > 0 /\ b \in allowance.batches
  /\ Valid(b)
  /\ KeepsToItsCase(b)
  /\ importing' = [importing EXCEPT ![w] = b]
  /\ UNCHANGED <<reviewState, trail, imported, deciding, file, allowance>>

CommitImport(w) ==
  /\ importing[w] # NoBatch
  /\ allowance.imports > 0
  /\ Accepted(file, importing[w])
  /\ file' = Imported(file, importing[w])
  /\ LET new == Rows(file') \ Rows(file)
         Entered(states) ==
           [r \in Records |-> IF r \in new THEN EntersAs(importing[w], r) ELSE states[r]]
     IN  /\ reviewState' = Entered(reviewState)
         /\ imported' = Entered(imported)
  /\ importing' = [importing EXCEPT ![w] = NoBatch]
  /\ allowance' = [allowance EXCEPT !.imports = @ - 1]
  /\ UNCHANGED <<trail, deciding>>

\* The transaction is refused, or the process ends before the commit.
LoseImport(w) ==
  /\ importing[w] # NoBatch
  /\ importing' = [importing EXCEPT ![w] = NoBatch]
  /\ UNCHANGED <<reviewState, trail, imported, deciding, file, allowance>>

----------------------------------------------------------------------------
(* The finder: one vector per derived still and model.                      *)

\* validate_keyframe_index
ValidIndex(x) ==
  /\ x.items # <<>>
  /\ \A i, k \in DOMAIN x.items :
       x.items[i].model = x.items[k].model =>
         x.items[i].dim = x.items[k].dim /\ (x.items[i].still = x.items[k].still => i = k)

Derivations(f, case, still) ==
  {id \in DOMAIN f.edges :
     /\ f.edges[id].case = case
     /\ f.edges[id].relation = "derived_from"
     /\ f.edges[id].from = still
     /\ f.edges[id].to \in DOMAIN f.sources}

IndexedIn(f, case, model) == {k \in DOMAIN f.vectors : f.vectors[k].case = case /\ k[2] = model}
Dims(f, case, model) == {f.vectors[k].dim : k \in IndexedIn(f, case, model)}

\* Mutant: a still's own vector is the only one compared with.
FitsItsOwn(f, x, i) ==
  <<i.still, i.model>> \in DOMAIN f.vectors => f.vectors[<<i.still, i.model>>].dim = i.dim

\* The query reads one row of the case's model (LIMIT 1), and only before the
\* index has written one: its vectors of a model agree with each other.
FitsTheModel(f, x, i) == Dims(f, x.case, i.model) = {} \/ i.dim \in Dims(f, x.case, i.model)

AcceptsStill(f, x, i) ==
  /\ Holds(f.sources, i.still, x.case)
  /\ Derivations(f, x.case, i.still) # {}
  /\ FitsTheModel(f, x, i)

\* The vectors of an index replace those of the same still and model.
Indexed(f, x) ==
  LET Key(n) == <<x.items[n].still, x.items[n].model>>
      keys == {Key(n) : n \in DOMAIN x.items}
  IN  [f EXCEPT !.vectors =
        [k \in DOMAIN @ \cup keys |->
           IF k \in keys
           THEN [case |-> x.case, dim |-> x.items[CHOOSE n \in DOMAIN x.items : Key(n) = k].dim]
           ELSE @[k]]]

IndexKeyframes(x) ==
  /\ ValidIndex(x)
  /\ allowance.imports > 0
  /\ \A i \in ToSet(x.items) : AcceptsStill(file, x, i)
  /\ file' = Indexed(file, x)
  /\ allowance' = [allowance EXCEPT !.imports = @ - 1]
  /\ UNCHANGED <<reviewState, trail, imported, deciding, importing>>

\* search_keyframes: the stills of a model joined to their derivations that
\* nobody rejected and to a passage; a query of another dimension is refused at
\* the first still it does not fit.
Joined(case, model) ==
  {k[1] : k \in {v \in IndexedIn(file, case, model) :
     /\ \E e \in Derivations(file, case, v[1]) : reviewState[e] # "rejected"
     /\ \E c \in DOMAIN file.contents : file.contents[c].source = v[1]}}

Search(case, model, dim) ==
  IF \A s \in Joined(case, model) : file.vectors[<<s, model>>].dim = dim
  THEN [refused |-> FALSE, hits |-> Joined(case, model)]
  ELSE [refused |-> TRUE, hits |-> {}]

----------------------------------------------------------------------------

Brought ==
  UNION {{b.sources[i].id : i \in DOMAIN b.sources} \cup {c.id : c \in PassagesOf(b)}
           \cup {e.id : e \in ToSet(b.edges)} : b \in Batches}

Reviewing ==
  /\ \/ \E r \in allowance.decidable \ Brought : EnterByMachine(r) \/ EnterByPerson(r)
     \/ \E w \in Connections :
          \/ \E d \in Decisions :
               /\ d.target \in allowance.decidable
               /\ Len(trail) < allowance.decisions
               /\ Decide(w, d)
          \/ Len(trail) < allowance.decisions /\ Record(w)
          \/ Lose(w)
  /\ UNCHANGED <<file, importing, allowance>>

CaseNext ==
  \/ Reviewing
  \/ \E w \in Connections :
       (\E b \in Batches : BeginImport(w, b)) \/ CommitImport(w) \/ LoseImport(w)
  \/ \E x \in Indexes : IndexKeyframes(x)

CaseSpec == CaseInit /\ [][CaseNext]_caseVars

----------------------------------------------------------------------------
(* Properties.                                                             *)

\* The parts of the next property: a source stands in its production's case, and
\* a passage, an edge or a vector in the case of everything it names.
SourcesKeepTheirCase ==
  \A s \in DOMAIN file.sources : CaseOf[file.sources[s].production] = file.sources[s].case
PassagesKeepTheirCase ==
  \A c \in DOMAIN file.contents :
    LET row == file.contents[c]
    IN  /\ Holds(file.sources, row.source, row.case)
        /\ row.parent # None => Holds(file.contents, row.parent, row.case)
        /\ row.speaker # None => CaseOf[row.speaker] = row.case
EdgesKeepTheirCase ==
  \A e \in DOMAIN file.edges :
    \A end \in {file.edges[e].from, file.edges[e].to} :
      \/ Holds(file.sources, end, file.edges[e].case)
      \/ Holds(file.contents, end, file.edges[e].case)
VectorsKeepTheirCase ==
  \A k \in DOMAIN file.vectors : Holds(file.sources, k[1], file.vectors[k].case)

\* Two cases share a file and no record, whatever identifiers the batches of
\* the other case chose.
NothingCrossesCases ==
  /\ SourcesKeepTheirCase
  /\ PassagesKeepTheirCase
  /\ EdgesKeepTheirCase
  /\ VectorsKeepTheirCase

\* A later batch that adds passages to an original already held was made from
\* the same bytes: no passage stands under an original it does not show.
PassagesShowTheirSource ==
  \A c \in DOMAIN file.contents :
    SameText(file.contents[c].shows, file.sources[file.contents[c].source].hash)

\* "the mirror image is not a second thing to review": however batches orient
\* their claims and whichever commits first, a case relates a pair of records
\* one way once.
PairsStandOnce ==
  \A e, d \in DOMAIN file.edges :
    LET x == file.edges[e]
        y == file.edges[d]
    IN  e # d /\ x.case = y.case /\ x.relation = y.relation => {x.from, x.to} # {y.from, y.to}

\* The finder never loses a still another run indexed: a search in the
\* dimension of any vector of the model is answered, and shows every still
\* except those whose derivation people rejected or that have no passage.
FramesStayFindable ==
  \A k \in DOMAIN file.vectors :
    LET vector == file.vectors[k]
        answer == Search(vector.case, k[2], vector.dim)
    IN  /\ ~ answer.refused
        /\ \/ k[1] \in answer.hits
           \/ \A e \in Derivations(file, vector.case, k[1]) : reviewState[e] = "rejected"
           \/ \A c \in DOMAIN file.contents : file.contents[c].source # k[1]
=============================================================================
