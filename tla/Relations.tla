----------------------------- MODULE Relations -----------------------------
(* The typed relationships of a case: what a person links (link_evidence),  *)
(* what the analyzers propose (suggest), the occurrence assembled from      *)
(* several accounts (author_occurrence), and the walk along reviewed        *)
(* dependencies (lineage) that must find no common root before two records  *)
(* may be said to corroborate each other independently.                     *)
(*                                                                          *)
(* Several processes hold the case file open at once: the windows and the   *)
(* command line are separate programs.  Every SELECT and every INSERT is a  *)
(* step; only what one transaction writes becomes visible together.         *)
(* Passages, originals and groups are never deleted and are constants here. *)
EXTENDS Naturals, FiniteSets, Sequences, SequencesExt

CONSTANTS
  Processes,
  Contents, Sources, Groups, Propositions, Occurrences,
  SourceOf,            \* the original each passage was extracted from
  Members,             \* the passages of each content group
  Witness,             \* the person a passage is attributed to, or Nobody
  Nobody,
  Rank,                \* the order of identifiers
  Span,                \* per occurrence: its lane and its normalized interval
  Anchored,            \* pairs of passages that share a reviewed time and place
  Echoing,             \* pairs of passages of two originals that share words
  Dates,               \* what a source profile may claim as date of creation
  LinkRequests,        \* the claims persons make
  OccurrenceRequests,  \* the occurrences persons assemble
  Histories,           \* sets of claims that may be reviewed when the processes start
  InitialDates,        \* the date of creation each passage starts with
  MaxCommands,         \* bound on commands and decisions
  None

Nodes == Contents \cup Sources \cup Groups \cup Propositions \cup Occurrences
Pairs == {pair \in SUBSET Contents : Cardinality(pair) = 2}

ASSUME ConstantsAssumption ==
  /\ IsFiniteSet(Nodes)
  /\ Contents \cap Groups = {}
  /\ SourceOf \in [Contents -> Sources]
  /\ Members \in [Groups -> SUBSET Contents]
  /\ Nobody \in {Witness[c] : c \in Contents} \cup {Nobody}
  /\ Rank \in [Nodes -> Nat]
  /\ \A m, n \in Nodes : Rank[m] = Rank[n] => m = n
  /\ Anchored \subseteq Pairs
  /\ Echoing \subseteq Pairs
  /\ Dates \subseteq Nat
  /\ InitialDates \in [Contents -> Dates]
  /\ None \notin Nodes

\* The seven dependencies a lineage follows stand for two: the one an analyzer
\* may propose and the one only a person writes.
Dependencies == {"quotes", "based_on"}
Supporting == {"supports", "independently_corroborates"}
Opposing == {"contradicts", "impeaches"}
RelationNames == Dependencies \cup Supporting \cup Opposing
  \cup {"candidate_same_occurrence", "temporally_overlaps", "account_of"}

Claims == [from : Nodes, relation : RelationNames, to : Nodes]
Claim(a, relation, b) == [from |-> a, relation |-> relation, to |-> b]
Mirror(c) == Claim(c.to, c.relation, c.from)

ASSUME RequestsAssumption ==
  /\ LinkRequests \subseteq Claims
  /\ Histories \subseteq SUBSET Claims
  /\ \A r \in OccurrenceRequests :
       r.id \in Occurrences /\ r.passages \subseteq Contents /\ Cardinality(r.passages) >= 2
  /\ MaxCommands \in Nat

ReviewStates == {"unreviewed", "suggested", "reviewed", "rejected"}

VARIABLES
  edges,      \* the claims recorded, each with its review state and its author
  events,     \* the occurrences recorded
  createdAt,  \* the date of creation claimed for the original of each passage
  doing,      \* per process: the command it is in
  writer,     \* the process whose transaction has written and not yet committed
  spent       \* commands and decisions so far; bounds the model

vars == <<edges, events, createdAt, doing, writer, spent>>

Idle == [op |-> "idle"]

Init ==
  /\ \E kept \in Histories :
       edges = [c \in kept |-> [state |-> "reviewed", by |-> "person"]]
  /\ events = {}
  /\ createdAt = InitialDates
  /\ doing = [w \in Processes |-> Idle]
  /\ writer = None
  /\ spent = 0

Spend == spent < MaxCommands /\ spent' = spent + 1

Become(w, command) == doing' = [doing EXCEPT ![w] = command]

\* The unique index over the claim: a second INSERT of the same one does nothing.
With(c, state, author) ==
  IF c \in DOMAIN edges THEN edges
  ELSE [d \in DOMAIN edges \cup {c} |->
          IF d = c THEN [state |-> state, by |-> author] ELSE edges[d]]

----------------------------------------------------------------------------
(* The lineage of a record.                                                 *)

Depends(a, b) ==
  \E c \in DOMAIN edges :
    c.from = a /\ c.to = b /\ c.relation \in Dependencies /\ edges[c].state = "reviewed"

\* Mutant: the members of a group are forgotten.
ParentsOutsideGroups(n) ==
  LET found == {m \in Nodes : Depends(n, m)}
  IN IF n \in Contents /\ found = {} THEN {SourceOf[n]} ELSE found

\* lineage_parents: the members of a group, the reviewed dependencies, and the
\* original of a passage that depends on nothing else.
Parents(n) ==
  LET found == {m \in Nodes : Depends(n, m)}
                 \cup (IF n \in Groups THEN Members[n] ELSE {})
  IN IF n \in Contents /\ found = {} THEN {SourceOf[n]} ELSE found

\* node_order: the i-th node is the one that i - 1 others come before.
InOrder(S) ==
  [i \in 1 .. Cardinality(S) |->
     CHOOSE n \in S : Cardinality({m \in S : Rank[m] < Rank[n]}) = i - 1]

Exists(n) == n \in Occurrences => n \in events

Walk(c, side, first) ==
  [op |-> "walk", claim |-> c, side |-> side, first |-> first, fresh |-> TRUE,
   queue |-> <<c[side]>>, seen |-> {}, roots |-> {}]

\* link_evidence up to the first of its further reads.
BeginLink(w, c) ==
  /\ Spend
  /\ doing[w] = Idle
  /\ c.from # c.to
  /\ Exists(c.from) /\ Exists(c.to)
  /\ Become(w, IF c.relation = "independently_corroborates"
               THEN Walk(c, "from", {})
               ELSE [op |-> "link", claim |-> c, fresh |-> TRUE])
  /\ UNCHANGED <<edges, events, createdAt, writer>>

\* Mutant: a node met again is expanded again.
VisitAgain(w) ==
  /\ doing[w].op = "walk"
  /\ doing[w].queue # << >>
  /\ LET n == Head(doing[w].queue)
     IN Become(w, [doing[w] EXCEPT
          !.queue = Tail(@) \o InOrder(Parents(n)),
          !.seen = @ \cup {n},
          !.roots = IF Parents(n) = {} THEN @ \cup {n} ELSE @])
  /\ UNCHANGED <<edges, events, createdAt, writer, spent>>

\* One turn of the loop of lineage, which reads the parents of one node.
Visit(w) ==
  /\ doing[w].op = "walk"
  /\ doing[w].queue # << >>
  /\ LET n == Head(doing[w].queue)
         parents == IF n \in doing[w].seen THEN {} ELSE Parents(n)
         isRoot == n \notin doing[w].seen /\ parents = {}
     IN Become(w, [doing[w] EXCEPT
          !.queue = Tail(@) \o InOrder(parents),
          !.seen = @ \cup {n},
          !.roots = IF isRoot THEN @ \cup {n} ELSE @])
  /\ UNCHANGED <<edges, events, createdAt, writer, spent>>

\* The walk from one endpoint is over: walk from the other, or compare.
EndWalk(w) ==
  /\ doing[w].op = "walk"
  /\ doing[w].queue = << >>
  /\ Become(w,
       IF doing[w].side = "from"
       THEN [Walk(doing[w].claim, "to", doing[w].roots) EXCEPT !.fresh = doing[w].fresh]
       ELSE IF doing[w].first \cap doing[w].roots # {}
       THEN Idle
       ELSE [op |-> "link", claim |-> doing[w].claim, fresh |-> doing[w].fresh])
  /\ UNCHANGED <<edges, events, createdAt, writer, spent>>

InsertLink(w) ==
  /\ doing[w].op = "link"
  /\ writer = None
  /\ edges' = With(doing[w].claim, "unreviewed", "person")
  /\ Become(w, Idle)
  /\ UNCHANGED <<events, createdAt, writer, spent>>

----------------------------------------------------------------------------
(* What the analyzers propose.                                              *)

BearsOn(a, relations, p) ==
  \E c \in DOMAIN edges :
    c.from = a /\ c.to = p /\ c.relation \in relations /\ edges[c].state # "rejected"

\* Two passages standing on opposite sides of one proposition.
Opposed(a, b) ==
  /\ a # b
  /\ \E p \in Propositions : BearsOn(a, Supporting, p) /\ BearsOn(b, Opposing, p)

SameWitness(a, b) == Witness[a] # Nobody /\ Witness[a] = Witness[b]

\* Mutant: the pair keeps the direction in which it was found.
AsFound(a, relation, b) == Claim(a, relation, b)

\* A second run must propose the direction of the first.
ByIdentifier(a, relation, b) ==
  IF Rank[a] < Rank[b] THEN Claim(a, relation, b) ELSE Claim(b, relation, a)

Tensions ==
  {ByIdentifier(pair[1], IF SameWitness(pair[1], pair[2]) THEN "impeaches" ELSE "contradicts",
                pair[2]) :
     pair \in {p \in Contents \X Contents : Opposed(p[1], p[2])}}

\* Half-open intervals in two lanes; an event with no end is a point.
Overlap(a, b) ==
  /\ Span[a].lane # Span[b].lane
  /\ Span[a].start < Span[b].end
  /\ Span[b].start < Span[a].end

Overlaps ==
  {ByIdentifier(pair[1], "temporally_overlaps", pair[2]) :
     pair \in {p \in events \X events : Overlap(p[1], p[2])}}

SharedAnchors ==
  {ByIdentifier(pair[1], "candidate_same_occurrence", pair[2]) :
     pair \in {p \in Contents \X Contents : {p[1], p[2]} \in Anchored}}

\* The later passage is directed toward the earlier one.
Echoes ==
  {Claim(pair[1], "quotes", pair[2]) :
     pair \in {p \in Contents \X Contents :
                 /\ {p[1], p[2]} \in Echoing
                 /\ SourceOf[p[1]] # SourceOf[p[2]]
                 /\ createdAt[p[1]] > createdAt[p[2]]}}

\* One rule of suggest reads its candidates.
BeginSuggest(w) ==
  /\ Spend
  /\ doing[w] = Idle
  /\ \E candidates \in {Tensions, Overlaps, SharedAnchors, Echoes} :
       /\ candidates # {}
       /\ Become(w, [op |-> "suggest", todo |-> candidates, checked |-> None])
  /\ UNCHANGED <<edges, events, createdAt, writer>>

\* propose: a claim the case holds is held however it is oriented.
Held(c) == c \in DOMAIN edges \/ Mirror(c) \in DOMAIN edges

CheckHeld(w) ==
  /\ doing[w].op = "suggest"
  /\ doing[w].checked = None
  /\ \E c \in doing[w].todo :
       IF Held(c)
       THEN Become(w, IF doing[w].todo = {c} THEN Idle ELSE [doing[w] EXCEPT !.todo = @ \ {c}])
       ELSE Become(w, [doing[w] EXCEPT !.checked = c])
  /\ UNCHANGED <<edges, events, createdAt, writer, spent>>

Propose(w) ==
  /\ doing[w].op = "suggest"
  /\ doing[w].checked # None
  /\ writer = None
  /\ edges' = With(doing[w].checked, "suggested", "analyzer")
  /\ LET left == doing[w].todo \ {doing[w].checked}
     IN Become(w, IF left = {} THEN Idle
                  ELSE [op |-> "suggest", todo |-> left, checked |-> None])
  /\ UNCHANGED <<events, createdAt, writer, spent>>

----------------------------------------------------------------------------
(* The occurrence a person assembles: the event and every account of it in  *)
(* one transaction, statement by statement.                                 *)

Separated(a, b) ==
  \E c \in DOMAIN edges :
    /\ c.relation = "candidate_same_occurrence"
    /\ {c.from, c.to} = {a, b}
    /\ edges[c].state = "rejected"

BeginOccurrence(w, r) ==
  /\ Spend
  /\ doing[w] = Idle
  /\ \A a, b \in r.passages : a # b => ~Separated(a, b)
  /\ r.id \notin events
  /\ Become(w, [op |-> "occurrence", id |-> r.id, todo |-> r.passages])
  /\ UNCHANGED <<edges, events, createdAt, writer>>

\* The identifier is free, or another process has taken it since it was looked up.
InsertEvent(w) ==
  /\ doing[w].op = "occurrence"
  /\ writer = None
  /\ IF doing[w].id \in events
     THEN Become(w, Idle) /\ UNCHANGED writer
     ELSE /\ Become(w, [op |-> "accounts", id |-> doing[w].id, todo |-> doing[w].todo,
                        written |-> {}])
          /\ writer' = w
  /\ UNCHANGED <<edges, events, createdAt, spent>>

InsertAccount(w) ==
  /\ doing[w].op = "accounts"
  /\ \E p \in doing[w].todo :
       Become(w, [doing[w] EXCEPT !.todo = @ \ {p},
                                  !.written = @ \cup {Claim(p, "account_of", doing[w].id)}])
  /\ UNCHANGED <<edges, events, createdAt, writer, spent>>

Commit(w) ==
  /\ doing[w].op = "accounts"
  /\ doing[w].todo = {}
  /\ events' = events \cup {doing[w].id}
  /\ edges' = [c \in DOMAIN edges \cup doing[w].written |->
                 IF c \in DOMAIN edges THEN edges[c]
                 ELSE [state |-> "unreviewed", by |-> "person"]]
  /\ writer' = None
  /\ Become(w, Idle)
  /\ UNCHANGED <<createdAt, spent>>

----------------------------------------------------------------------------
\* The process is killed or the database refuses a statement: what it had not
\* committed is gone.
GiveUp(w) ==
  /\ doing[w] # Idle
  /\ Become(w, Idle)
  /\ writer' = IF writer = w THEN None ELSE writer
  /\ UNCHANGED <<edges, events, createdAt, spent>>

\* A reviewer decides about a relationship (see Review).  A command that is
\* walking, or about to write after a walk, has read what is no longer so.
Decide(c, state) ==
  /\ Spend
  /\ writer = None
  /\ edges[c].state # state
  /\ edges' = [edges EXCEPT ![c].state = state]
  /\ doing' = [w \in Processes |->
       IF c.relation \in Dependencies /\ doing[w].op \in {"walk", "link"}
       THEN [doing[w] EXCEPT !.fresh = FALSE] ELSE doing[w]]
  /\ UNCHANGED <<events, createdAt, writer>>

\* A person revises the profile of an original (see Interpretation).
Redate(c, date) ==
  /\ Spend
  /\ writer = None
  /\ createdAt[c] # date
  /\ createdAt' = [createdAt EXCEPT ![c] = date]
  /\ UNCHANGED <<edges, events, doing, writer>>

Step(w) ==
  \/ Visit(w) \/ EndWalk(w) \/ InsertLink(w)
  \/ CheckHeld(w) \/ Propose(w)
  \/ InsertEvent(w) \/ InsertAccount(w) \/ Commit(w)

Begin(w) ==
  \/ \E c \in LinkRequests : BeginLink(w, c)
  \/ BeginSuggest(w)
  \/ \E r \in OccurrenceRequests : BeginOccurrence(w, r)

Next ==
  \/ \E w \in Processes : Begin(w) \/ Step(w) \/ GiveUp(w)
  \/ \E c \in DOMAIN edges, state \in {"reviewed", "rejected"} : Decide(c, state)
  \/ \E c \in UNION Echoing, date \in Dates : Redate(c, date)

Spec == Init /\ [][Next]_vars

\* Nothing holds up a walk between two of its SELECTs.
Fairness == \A w \in Processes : WF_vars(Visit(w)) /\ WF_vars(EndWalk(w))

----------------------------------------------------------------------------
(* Properties.                                                              *)

Walks ==
  [op : {"walk"}, claim : Claims, side : {"from", "to"}, first : SUBSET Nodes,
   fresh : BOOLEAN, queue : Seq(Nodes), seen : SUBSET Nodes, roots : SUBSET Nodes]
Links == [op : {"link"}, claim : Claims, fresh : BOOLEAN]
Suggestions == [op : {"suggest"}, todo : SUBSET Claims, checked : Claims \cup {None}]
Assemblies == [op : {"occurrence"}, id : Occurrences, todo : SUBSET Contents]
Accounts ==
  [op : {"accounts"}, id : Occurrences, todo : SUBSET Contents, written : SUBSET Claims]
Commands == {Idle} \cup Walks \cup Links \cup Suggestions \cup Assemblies \cup Accounts

\* The tables and the commands have the shape the code gives them.
TypeOK ==
  /\ DOMAIN edges \subseteq Claims
  /\ \A c \in DOMAIN edges : edges[c] \in [state : ReviewStates, by : {"person", "analyzer"}]
  /\ events \subseteq Occurrences
  /\ createdAt \in [Contents -> Dates]
  /\ doing \in [Processes -> Commands]
  /\ writer \in Processes \cup {None}

\* What a record rests on, by definition rather than by walking: every record
\* that no set holding it and closed under dependence can leave out.  A passage
\* that depends on nothing rests on its original.
Beneath(n) ==
  {m \in Nodes :
     \/ Depends(n, m)
     \/ n \in Groups /\ m \in Members[n]
     \/ n \in Contents /\ m = SourceOf[n] /\ \A k \in Nodes : ~Depends(n, k)}
RestsOn(n) ==
  {m \in Nodes : \A S \in SUBSET Nodes :
     (n \in S /\ \A x \in S : Beneath(x) \subseteq S) => m \in S}
Grounds(n) == {m \in RestsOn(n) : Beneath(m) = {}}

\* link_evidence: a claim of independent corroboration is written only between
\* records with no ground in common, whatever groups, chains and cycles lie
\* between them, unless a dependency was decided about while the command ran.
CorroborationWasIndependent ==
  [][\A w \in Processes :
       /\ doing[w].op = "link" /\ doing[w].fresh
       /\ doing[w].claim.relation = "independently_corroborates"
       /\ doing[w].claim \in DOMAIN edges' \ DOMAIN edges
       => Grounds(doing[w].claim.from) \cap Grounds(doing[w].claim.to) = {}]_vars

\* lineage: the walk ends even when reviewed dependencies form a cycle, and
\* while reviewers decide about them.
EveryWalkEnds ==
  \A w \in Processes : doing[w].op = "walk" ~> doing[w].op # "walk"

\* suggest: analyzers running in two processes never ask the same question in
\* both directions.  Only an echo, directed by dates a person may revise between
\* the two runs, can be found both ways.
AnalyzersNeverMirror ==
  \A c \in DOMAIN edges :
    /\ c.relation # "quotes" /\ edges[c].by = "analyzer"
    /\ Mirror(c) \in DOMAIN edges
    => edges[Mirror(c)].by = "person"
=============================================================================
