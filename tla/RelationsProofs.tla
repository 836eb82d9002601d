---------------------------- MODULE RelationsProofs ----------------------------
(***************************************************************************)
(* Theorems about the relationships of a case of any size, for any number  *)
(* of processes, commands and claims; and about what opening a file of an  *)
(* earlier version does to them.                                           *)
(***************************************************************************)
EXTENDS Relations, Migration, FunctionTheorems, FiniteSetTheorems, SequenceTheorems, TLAPS

----------------------------------------------------------------------------
(* node_order is a total order, so sorting loses no node.                   *)

\* How many nodes of S come before n.
Place(S, n) == Cardinality({m \in S : Rank[m] < Rank[n]})

LEMMA PlaceIsOwn ==
  ASSUME NEW S \in SUBSET Nodes, NEW m \in S, NEW n \in S
  PROVE  /\ IsFiniteSet(S)
         /\ Cardinality(S) \in Nat
         /\ Place(S, m) \in 0 .. Cardinality(S) - 1
         /\ Place(S, m) = Place(S, n) => m = n
<1> DEFINE Before(k) == {x \in S : Rank[x] < Rank[k]}
<1>1. IsFiniteSet(S) /\ Cardinality(S) \in Nat
  BY FS_Subset, FS_CardinalityType, ConstantsAssumption
<1>2. \A x \in S : Rank[x] \in Nat
  BY ConstantsAssumption
<1>3. ASSUME NEW k \in S
      PROVE  /\ IsFiniteSet(Before(k)) /\ Cardinality(Before(k)) \in Nat
             /\ Cardinality(Before(k)) < Cardinality(S)
  <2>1. Before(k) \in SUBSET S /\ k \notin Before(k)
    BY <1>2
  <2> HIDE DEF Before
  <2>2. QED
    BY <1>1, <2>1, FS_Subset, FS_CardinalityType
<1>4. ASSUME NEW j \in S, NEW k \in S, Rank[j] < Rank[k]
      PROVE  Cardinality(Before(j)) < Cardinality(Before(k))
  <2>1. Before(j) \in SUBSET Before(k) /\ j \in Before(k) /\ j \notin Before(j)
    BY <1>2, <1>4
  <2>2. IsFiniteSet(Before(k)) /\ Cardinality(Before(k)) \in Nat
    BY <1>3
  <2> HIDE DEF Before
  <2>3. QED
    BY <2>1, <2>2, FS_Subset, FS_CardinalityType
<1>5. m # n => Rank[m] < Rank[n] \/ Rank[n] < Rank[m]
  BY <1>2, ConstantsAssumption
<1>6. QED
  <2>1. Place(S, m) = Cardinality(Before(m)) /\ Place(S, n) = Cardinality(Before(n))
    BY DEF Place
  <2>2. /\ Cardinality(Before(m)) \in Nat /\ Cardinality(Before(n)) \in Nat
        /\ Cardinality(Before(m)) < Cardinality(S)
    BY <1>3
  <2>3. Rank[m] < Rank[n] => Cardinality(Before(m)) < Cardinality(Before(n))
    BY <1>4
  <2>4. Rank[n] < Rank[m] => Cardinality(Before(n)) < Cardinality(Before(m))
    BY <1>4
  <2> HIDE DEF Before
  <2>5. QED
    BY <1>1, <1>5, <2>1, <2>2, <2>3, <2>4

\* What a sort returns: a sequence of exactly the nodes it was given.
LEMMA InOrderProperties ==
  ASSUME NEW S \in SUBSET Nodes
  PROVE  /\ InOrder(S) \in Seq(S)
         /\ Range(InOrder(S)) = S
<1> DEFINE n == Cardinality(S)
           place == [x \in S |-> Place(S, x)]
<1>1. IsFiniteSet(S) /\ n \in Nat
  BY FS_Subset, FS_CardinalityType, ConstantsAssumption
<1>2. place \in Injection(S, 0 .. n - 1)
  <2>1. \A x \in S : Place(S, x) \in 0 .. n - 1
    BY PlaceIsOwn
  <2>2. place \in [S -> 0 .. n - 1]
    BY <2>1
  <2>3. \A x, y \in S : Place(S, x) = Place(S, y) => x = y
    BY PlaceIsOwn
  <2>4. IsInjective(place)
    BY <2>3 DEF IsInjective
  <2>5. QED
    BY <2>2, <2>4 DEF Injection
<1>3. IsFiniteSet(0 .. n - 1) /\ Cardinality(0 .. n - 1) = n
  BY <1>1, FS_Interval
<1>4. place \in Surjection(S, 0 .. n - 1)
  BY <1>2, <1>3, FS_Injection
<1>5. \A i \in 1 .. n : \E x \in S : Place(S, x) = i - 1
  <2> SUFFICES ASSUME NEW i \in 1 .. n PROVE \E x \in S : Place(S, x) = i - 1
    OBVIOUS
  <2>1. i - 1 \in 0 .. n - 1
    BY <1>1
  <2>2. \E x \in S : place[x] = i - 1
    BY <1>4, <2>1 DEF Surjection
  <2>3. QED
    BY <2>2
<1>6. InOrder(S) = [i \in 1 .. n |-> CHOOSE x \in S : Place(S, x) = i - 1]
  BY DEF InOrder, Place
<1> HIDE DEF n
<1>7. \A i \in 1 .. n : InOrder(S)[i] \in S /\ Place(S, InOrder(S)[i]) = i - 1
  BY <1>5, <1>6
<1>8. InOrder(S) \in Seq(S)
  BY <1>1, <1>6, <1>7
<1>9. ASSUME NEW x \in S PROVE x \in Range(InOrder(S))
  <2>0. Place(S, x) \in 0 .. n - 1
    BY PlaceIsOwn DEF n
  <2>1. PICK i \in 1 .. n : i - 1 = Place(S, x)
    <3>1. Place(S, x) + 1 \in 1 .. n /\ (Place(S, x) + 1) - 1 = Place(S, x)
      BY <1>1, <2>0
    <3>2. QED
      BY <3>1
  <2>2. InOrder(S)[i] \in S /\ Place(S, InOrder(S)[i]) = Place(S, x)
    BY <1>7, <2>1
  <2>3. InOrder(S)[i] = x
    BY <2>2, PlaceIsOwn
  <2>4. QED
    BY <1>6, <2>3 DEF Range
<1>10. Range(InOrder(S)) \subseteq S
  BY <1>6, <1>7 DEF Range
<1>11. QED
  BY <1>8, <1>9, <1>10

----------------------------------------------------------------------------
(* Types.                                                                   *)

LEMMA CommandIsOfItsKind ==
  ASSUME NEW command \in Commands
  PROVE  /\ command.op = "walk" => command \in Walks
         /\ command.op = "link" => command \in Links
         /\ command.op = "suggest" => command \in Suggestions
         /\ command.op = "occurrence" => command \in Assemblies
         /\ command.op = "accounts" => command \in Accounts
         /\ command.op \in {"idle", "walk", "link", "suggest", "occurrence", "accounts"}
<1>1. CASE command = Idle
  BY <1>1 DEF Idle
<1>2. CASE command \in Walks
  BY <1>2 DEF Walks
<1>3. CASE command \in Links
  BY <1>3 DEF Links
<1>4. CASE command \in Suggestions
  BY <1>4 DEF Suggestions
<1>5. CASE command \in Assemblies
  BY <1>5 DEF Assemblies
<1>6. CASE command \in Accounts
  BY <1>6 DEF Accounts
<1>7. QED
  BY <1>1, <1>2, <1>3, <1>4, <1>5, <1>6 DEF Commands

LEMMA CommandKinds ==
  ASSUME TypeOK, NEW w \in Processes
  PROVE  /\ doing[w].op = "walk" => doing[w] \in Walks
         /\ doing[w].op = "link" => doing[w] \in Links
         /\ doing[w].op = "suggest" => doing[w] \in Suggestions
         /\ doing[w].op = "occurrence" => doing[w] \in Assemblies
         /\ doing[w].op = "accounts" => doing[w] \in Accounts
         /\ doing[w].op \in {"idle", "walk", "link", "suggest", "occurrence", "accounts"}
<1>1. doing[w] \in Commands
  BY DEF TypeOK
<1>2. QED
  BY <1>1, CommandIsOfItsKind

LEMMA ClaimType ==
  ASSUME NEW a \in Nodes, NEW b \in Nodes, NEW relation \in RelationNames
  PROVE  /\ Claim(a, relation, b) \in Claims
         /\ Claim(a, relation, b).from = a
         /\ Claim(a, relation, b).relation = relation
         /\ Claim(a, relation, b).to = b
BY DEF Claim, Claims

LEMMA ParentsType ==
  ASSUME NEW n \in Nodes
  PROVE  Parents(n) \in SUBSET Nodes
BY ConstantsAssumption DEF Parents, Nodes

\* An INSERT adds one claim with what it says of it, or nothing.
LEMMA WithType ==
  ASSUME TypeOK, NEW c \in Claims, NEW s \in ReviewStates, NEW author \in {"person", "analyzer"}
  PROVE  LET table == With(c, s, author)
         IN /\ DOMAIN table = DOMAIN edges \cup {c}
            /\ \A d \in DOMAIN table :
                 \/ d \in DOMAIN edges /\ table[d] = edges[d]
                 \/ d = c /\ table[d] = [state |-> s, by |-> author]
<1>1. CASE c \in DOMAIN edges
  BY <1>1 DEF With
<1>2. CASE c \notin DOMAIN edges
  BY <1>2 DEF With
<1>3. QED
  BY <1>1, <1>2

LEMMA WithKeepsType ==
  ASSUME TypeOK, NEW c \in Claims, NEW s \in ReviewStates, NEW author \in {"person", "analyzer"},
         edges' = With(c, s, author)
  PROVE  /\ DOMAIN edges' \subseteq Claims
         /\ \A d \in DOMAIN edges' :
              edges'[d] \in [state : ReviewStates, by : {"person", "analyzer"}]
<1>1. /\ DOMAIN edges' = DOMAIN edges \cup {c}
      /\ \A d \in DOMAIN edges' :
           \/ d \in DOMAIN edges /\ edges'[d] = edges[d]
           \/ d = c /\ edges'[d] = [state |-> s, by |-> author]
  BY WithType
<1>2. [state |-> s, by |-> author] \in [state : ReviewStates, by : {"person", "analyzer"}]
  OBVIOUS
<1>3. QED
  BY <1>1, <1>2 DEF TypeOK

LEMMA InitType == Init => TypeOK
<1> SUFFICES ASSUME Init PROVE TypeOK
  OBVIOUS
<1>1. PICK kept \in Histories : edges = [c \in kept |-> [state |-> "reviewed", by |-> "person"]]
  BY DEF Init
<1>2. /\ DOMAIN edges \subseteq Claims
      /\ \A c \in DOMAIN edges : edges[c] \in [state : ReviewStates, by : {"person", "analyzer"}]
  BY <1>1, RequestsAssumption DEF ReviewStates
<1>3. QED
  BY <1>2, ConstantsAssumption DEF Init, TypeOK, Commands

\* The tables stay as they are, and one process goes on to another command.
LEMMA BecomeType ==
  ASSUME TypeOK, NEW w \in Processes, NEW command \in Commands, Become(w, command),
         UNCHANGED <<edges, events, createdAt>>, writer' \in Processes \cup {None}
  PROVE  TypeOK'
BY DEF TypeOK, Become

LEMMA WalkType ==
  ASSUME TypeOK, NEW w \in Processes,
         (\E c \in LinkRequests : BeginLink(w, c)) \/ Visit(w) \/ EndWalk(w)
  PROVE  TypeOK'
<1>0. UNCHANGED <<edges, events, createdAt, writer>>
  BY DEF BeginLink, Visit, EndWalk
<1>1. ASSUME NEW c \in Claims, NEW side \in {"from", "to"}, NEW first \in SUBSET Nodes
      PROVE  Walk(c, side, first) \in Walks
  <2>1. c[side] \in Nodes
    BY DEF Claims
  <2>2. <<c[side]>> \in Seq(Nodes)
    BY <2>1
  <2>3. QED
    BY <2>2 DEF Walk, Walks
<1>2. CASE \E c \in LinkRequests : BeginLink(w, c)
  <2>1. PICK c \in LinkRequests : BeginLink(w, c)
    BY <1>2
  <2>2. c \in Claims
    BY RequestsAssumption
  <2>3. Walk(c, "from", {}) \in Commands /\ [op |-> "link", claim |-> c, fresh |-> TRUE] \in Commands
    BY <1>1, <2>2 DEF Commands, Links
  <2>4. QED
    BY <1>0, <2>1, <2>3, BecomeType DEF BeginLink, TypeOK
<1>3. CASE Visit(w)
  <2> DEFINE n == Head(doing[w].queue)
             parents == IF n \in doing[w].seen THEN {} ELSE Parents(n)
             isRoot == n \notin doing[w].seen /\ parents = {}
             next == [doing[w] EXCEPT
                        !.queue = Tail(@) \o InOrder(parents),
                        !.seen = @ \cup {n},
                        !.roots = IF isRoot THEN @ \cup {n} ELSE @]
  <2>1. doing[w] \in Walks /\ doing[w].queue # << >>
    BY <1>3, CommandKinds DEF Visit
  <2>2. doing[w].queue \in Seq(Nodes)
    BY <2>1 DEF Walks
  <2>3. n \in Nodes /\ Tail(doing[w].queue) \in Seq(Nodes)
    BY <2>1, <2>2
  <2>4. parents \in SUBSET Nodes
    BY <2>3, ParentsType
  <2>5. InOrder(parents) \in Seq(parents)
    BY <2>4, InOrderProperties
  <2>6. InOrder(parents) \in Seq(Nodes)
    BY <2>4, <2>5, SeqMonotonic
  <2>7. Tail(doing[w].queue) \o InOrder(parents) \in Seq(Nodes)
    BY <2>3, <2>6
  <2> HIDE DEF n, parents, isRoot
  <2>8. next \in Walks
    BY <2>1, <2>3, <2>7 DEF Walks
  <2>9. Become(w, next)
    BY <1>3 DEF Visit, n, parents, isRoot
  <2> HIDE DEF next
  <2>10. QED
    BY <1>0, <2>8, <2>9, BecomeType DEF Commands, TypeOK
<1>4. CASE EndWalk(w)
  <2>1. doing[w] \in Walks
    BY <1>4, CommandKinds DEF EndWalk
  <2>2. /\ doing[w].claim \in Claims /\ doing[w].roots \in SUBSET Nodes
        /\ doing[w].fresh \in BOOLEAN
    BY <2>1 DEF Walks
  <2>3. [Walk(doing[w].claim, "to", doing[w].roots) EXCEPT !.fresh = doing[w].fresh] \in Walks
    BY <1>1, <2>2 DEF Walks
  <2>4. [op |-> "link", claim |-> doing[w].claim, fresh |-> doing[w].fresh] \in Links
    BY <2>2 DEF Links
  <2>5. QED
    BY <1>0, <1>4, <2>3, <2>4, BecomeType DEF EndWalk, Commands, TypeOK
<1>5. QED
  BY <1>2, <1>3, <1>4

\* A claim no two analyzers can find in opposite directions.
Oriented(c) == c.relation = "quotes" \/ Rank[c.from] < Rank[c.to]

LEMMA ByIdentifierOrients ==
  ASSUME NEW a \in Nodes, NEW b \in Nodes, a # b, NEW relation \in RelationNames
  PROVE  ByIdentifier(a, relation, b) \in Claims /\ Oriented(ByIdentifier(a, relation, b))
<1>1. Rank[a] \in Nat /\ Rank[b] \in Nat /\ Rank[a] # Rank[b]
  BY ConstantsAssumption
<1>2. CASE Rank[a] < Rank[b]
  BY <1>2, ClaimType DEF ByIdentifier, Oriented
<1>3. CASE Rank[b] < Rank[a]
  <2>1. ByIdentifier(a, relation, b) = Claim(b, relation, a)
    BY <1>1, <1>3 DEF ByIdentifier
  <2>2. QED
    BY <1>3, <2>1, ClaimType DEF Oriented
<1>4. QED
  BY <1>1, <1>2, <1>3

LEMMA PairOfTwo ==
  ASSUME NEW a, NEW b, Cardinality({a, b}) = 2
  PROVE  a # b
<1>1. ASSUME a = b PROVE FALSE
  <2>1. {a, b} = {a}
    BY <1>1
  <2>2. Cardinality({a}) = 1
    BY FS_Singleton
  <2>3. QED
    BY <2>1, <2>2
<1>2. QED
  BY <1>1

\* What the four rules of suggest find.
LEMMA CandidatesAreOriented ==
  ASSUME TypeOK, NEW candidates \in {Tensions, Overlaps, SharedAnchors, Echoes}, NEW c \in candidates
  PROVE  c \in Claims /\ Oriented(c)
<1>1. CASE c \in Tensions
  <2>1. PICK pair \in Contents \X Contents :
          /\ Opposed(pair[1], pair[2])
          /\ c = ByIdentifier(pair[1],
                              IF SameWitness(pair[1], pair[2]) THEN "impeaches" ELSE "contradicts",
                              pair[2])
    BY <1>1 DEF Tensions
  <2>2. pair[1] \in Nodes /\ pair[2] \in Nodes /\ pair[1] # pair[2]
    BY <2>1 DEF Nodes, Opposed
  <2>3. (IF SameWitness(pair[1], pair[2]) THEN "impeaches" ELSE "contradicts") \in RelationNames
    BY DEF RelationNames, Opposing
  <2>4. QED
    BY <2>1, <2>2, <2>3, ByIdentifierOrients
<1>2. CASE c \in Overlaps
  <2>1. PICK pair \in events \X events :
          /\ Overlap(pair[1], pair[2])
          /\ c = ByIdentifier(pair[1], "temporally_overlaps", pair[2])
    BY <1>2 DEF Overlaps
  <2>2. pair[1] \in Nodes /\ pair[2] \in Nodes /\ pair[1] # pair[2]
    BY <2>1 DEF TypeOK, Nodes, Overlap
  <2>3. QED
    BY <2>1, <2>2, ByIdentifierOrients DEF RelationNames
<1>3. CASE c \in SharedAnchors
  <2>1. PICK pair \in Contents \X Contents :
          /\ {pair[1], pair[2]} \in Anchored
          /\ c = ByIdentifier(pair[1], "candidate_same_occurrence", pair[2])
    BY <1>3 DEF SharedAnchors
  <2>2. Cardinality({pair[1], pair[2]}) = 2
    BY <2>1, ConstantsAssumption DEF Pairs
  <2>3. pair[1] \in Nodes /\ pair[2] \in Nodes /\ pair[1] # pair[2]
    BY <2>1, <2>2, PairOfTwo DEF Nodes
  <2>4. QED
    BY <2>1, <2>3, ByIdentifierOrients DEF RelationNames
<1>4. CASE c \in Echoes
  <2>1. PICK pair \in Contents \X Contents : c = Claim(pair[1], "quotes", pair[2])
    BY <1>4 DEF Echoes
  <2>2. pair[1] \in Nodes /\ pair[2] \in Nodes
    BY <2>1 DEF Nodes
  <2>3. QED
    BY <2>1, <2>2, ClaimType DEF RelationNames, Dependencies, Oriented
<1>5. QED
  BY <1>1, <1>2, <1>3, <1>4

LEMMA SuggestType ==
  ASSUME TypeOK, NEW w \in Processes, BeginSuggest(w) \/ CheckHeld(w)
  PROVE  TypeOK'
<1>0. UNCHANGED <<edges, events, createdAt, writer>>
  BY DEF BeginSuggest, CheckHeld
<1>1. CASE BeginSuggest(w)
  <2>1. PICK candidates \in {Tensions, Overlaps, SharedAnchors, Echoes} :
          Become(w, [op |-> "suggest", todo |-> candidates, checked |-> None])
    BY <1>1 DEF BeginSuggest
  <2>2. candidates \subseteq Claims
    BY CandidatesAreOriented
  <2>3. [op |-> "suggest", todo |-> candidates, checked |-> None] \in Suggestions
    BY <2>2 DEF Suggestions
  <2>4. QED
    BY <1>0, <2>1, <2>3, BecomeType DEF Commands, TypeOK
<1>2. CASE CheckHeld(w)
  <2>1. doing[w] \in Suggestions
    BY <1>2, CommandKinds DEF CheckHeld
  <2>2. PICK c \in doing[w].todo :
          \/ Become(w, Idle)
          \/ Become(w, [doing[w] EXCEPT !.todo = @ \ {c}])
          \/ Become(w, [doing[w] EXCEPT !.checked = c])
    BY <1>2 DEF CheckHeld
  <2>3. /\ [doing[w] EXCEPT !.todo = @ \ {c}] \in Suggestions
        /\ [doing[w] EXCEPT !.checked = c] \in Suggestions
    BY <2>1 DEF Suggestions
  <2>4. QED
    BY <1>0, <2>2, <2>3, BecomeType DEF Commands, TypeOK
<1>3. QED
  BY <1>1, <1>2

LEMMA InsertType ==
  ASSUME TypeOK, NEW w \in Processes, InsertLink(w) \/ Propose(w)
  PROVE  TypeOK'
<1>1. CASE InsertLink(w)
  <2>1. doing[w].claim \in Claims
    BY <1>1, CommandKinds DEF InsertLink, Links
  <2>2. /\ DOMAIN edges' \subseteq Claims
        /\ \A d \in DOMAIN edges' :
             edges'[d] \in [state : ReviewStates, by : {"person", "analyzer"}]
    BY <1>1, <2>1, WithKeepsType DEF InsertLink, ReviewStates
  <2>3. QED
    BY <1>1, <2>2 DEF InsertLink, Become, Commands, TypeOK
<1>2. CASE Propose(w)
  <2>1. doing[w] \in Suggestions
    BY <1>2, CommandKinds DEF Propose
  <2>2. doing[w].checked \in Claims
    BY <1>2, <2>1 DEF Propose, Suggestions
  <2>3. /\ DOMAIN edges' \subseteq Claims
        /\ \A d \in DOMAIN edges' :
             edges'[d] \in [state : ReviewStates, by : {"person", "analyzer"}]
    BY <1>2, <2>2, WithKeepsType DEF Propose, ReviewStates
  <2>4. doing[w].todo \ {doing[w].checked} \in SUBSET Claims
    BY <2>1 DEF Suggestions
  <2>5. [op |-> "suggest", todo |-> doing[w].todo \ {doing[w].checked}, checked |-> None]
          \in Suggestions
    BY <2>4 DEF Suggestions
  <2>6. doing' \in [Processes -> Commands]
    BY <1>2, <2>5 DEF Propose, Become, Commands, TypeOK
  <2>7. QED
    BY <1>2, <2>3, <2>6 DEF Propose, TypeOK
<1>3. QED
  BY <1>1, <1>2

LEMMA OccurrenceType ==
  ASSUME TypeOK, NEW w \in Processes,
         \/ \E r \in OccurrenceRequests : BeginOccurrence(w, r)
         \/ InsertEvent(w) \/ InsertAccount(w) \/ Commit(w)
  PROVE  TypeOK'
<1>1. CASE \E r \in OccurrenceRequests : BeginOccurrence(w, r)
  <2>1. PICK r \in OccurrenceRequests : BeginOccurrence(w, r)
    BY <1>1
  <2>2. [op |-> "occurrence", id |-> r.id, todo |-> r.passages] \in Assemblies
    BY RequestsAssumption DEF Assemblies
  <2>3. QED
    BY <2>1, <2>2, BecomeType DEF BeginOccurrence, Commands, TypeOK
<1>2. CASE InsertEvent(w)
  <2>1. doing[w] \in Assemblies
    BY <1>2, CommandKinds DEF InsertEvent
  <2>2. [op |-> "accounts", id |-> doing[w].id, todo |-> doing[w].todo, written |-> {}] \in Accounts
    BY <2>1 DEF Assemblies, Accounts
  <2>3. QED
    BY <1>2, <2>2, BecomeType DEF InsertEvent, Commands, TypeOK
<1>3. CASE InsertAccount(w)
  <2>1. doing[w] \in Accounts
    BY <1>3, CommandKinds DEF InsertAccount
  <2>2. PICK p \in doing[w].todo :
          Become(w, [doing[w] EXCEPT !.todo = @ \ {p},
                                     !.written = @ \cup {Claim(p, "account_of", doing[w].id)}])
    BY <1>3 DEF InsertAccount
  <2>3. p \in Nodes /\ doing[w].id \in Nodes
    BY <2>1 DEF Accounts, Nodes
  <2>4. Claim(p, "account_of", doing[w].id) \in Claims
    BY <2>3, ClaimType DEF RelationNames
  <2>5. [doing[w] EXCEPT !.todo = @ \ {p},
                         !.written = @ \cup {Claim(p, "account_of", doing[w].id)}] \in Accounts
    BY <2>1, <2>4 DEF Accounts
  <2>6. QED
    BY <1>3, <2>2, <2>5, BecomeType DEF InsertAccount, Commands, TypeOK
<1>4. CASE Commit(w)
  <2>1. doing[w].id \in Occurrences /\ doing[w].written \subseteq Claims
    BY <1>4, CommandKinds DEF Commit, Accounts
  <2>2. QED
    BY <1>4, <2>1 DEF Commit, Become, Commands, ReviewStates, TypeOK
<1>5. QED
  BY <1>1, <1>2, <1>3, <1>4

LEMMA DecideType ==
  ASSUME TypeOK, NEW c \in DOMAIN edges, NEW s \in {"reviewed", "rejected"}, Decide(c, s)
  PROVE  TypeOK'
<1>1. /\ DOMAIN edges' \subseteq Claims
      /\ \A d \in DOMAIN edges' :
           edges'[d] \in [state : ReviewStates, by : {"person", "analyzer"}]
  BY DEF Decide, TypeOK, ReviewStates
<1>2. ASSUME NEW w \in Processes PROVE doing'[w] \in Commands
  <2>1. CASE doing[w].op = "walk"
    <3>1. doing[w] \in Walks
      BY <2>1, CommandKinds
    <3>2. [doing[w] EXCEPT !.fresh = FALSE] \in Walks
      BY <3>1 DEF Walks
    <3>3. QED
      BY <3>1, <3>2 DEF Decide, Commands
  <2>2. CASE doing[w].op = "link"
    <3>1. doing[w] \in Links
      BY <2>2, CommandKinds
    <3>2. [doing[w] EXCEPT !.fresh = FALSE] \in Links
      BY <3>1 DEF Links
    <3>3. QED
      BY <3>1, <3>2 DEF Decide, Commands
  <2>3. CASE doing[w].op \notin {"walk", "link"}
    BY <2>3 DEF Decide, TypeOK
  <2>4. QED
    BY <2>1, <2>2, <2>3
<1>3. doing' \in [Processes -> Commands]
  BY <1>2 DEF Decide
<1>4. QED
  BY <1>1, <1>3 DEF Decide, TypeOK

LEMMA NextType == TypeOK /\ [Next]_vars => TypeOK'
<1> SUFFICES ASSUME TypeOK, [Next]_vars PROVE TypeOK'
  OBVIOUS
<1>1. ASSUME NEW w \in Processes, Begin(w) \/ Step(w) PROVE TypeOK'
  BY <1>1, WalkType, SuggestType, InsertType, OccurrenceType DEF Begin, Step
<1>2. ASSUME NEW w \in Processes, GiveUp(w) PROVE TypeOK'
  BY <1>2, BecomeType DEF GiveUp, Commands, TypeOK
<1>3. CASE \E c \in DOMAIN edges, s \in {"reviewed", "rejected"} : Decide(c, s)
  BY <1>3, DecideType
<1>4. CASE \E c \in UNION Echoing, date \in Dates : Redate(c, date)
  BY <1>4 DEF Redate, TypeOK
<1>5. CASE UNCHANGED vars
  BY <1>5 DEF vars, TypeOK
<1>6. QED
  BY <1>1, <1>2, <1>3, <1>4, <1>5 DEF Next

\* Every table and every command of every process keeps its shape; the
\* queue of a walk holds records of the case only.
THEOREM TypeCorrect == Spec => []TypeOK
<1>1. QED
  BY InitType, NextType, PTL DEF Spec

----------------------------------------------------------------------------
(* Analyzers.  A claim keeps the author it was written under, and what an   *)
(* analyzer holds, checks or has written runs in the one direction.         *)

AnalyzersOrient ==
  /\ \A c \in DOMAIN edges : edges[c].by = "analyzer" => Oriented(c)
  /\ \A w \in Processes :
       doing[w].op = "suggest" =>
         /\ \A c \in doing[w].todo : Oriented(c)
         /\ doing[w].checked # None => Oriented(doing[w].checked)

OInv == TypeOK /\ AnalyzersOrient

LEMMA AuthorsStay ==
  ASSUME TypeOK, [Next]_vars, NEW c \in DOMAIN edges'
  PROVE  \/ c \in DOMAIN edges /\ edges'[c].by = edges[c].by
         \/ edges'[c].by = "person"
         \/ \E w \in Processes :
              doing[w].op = "suggest" /\ doing[w].checked # None /\ c = doing[w].checked
<1>1. CASE \E w \in Processes : InsertLink(w)
  <2>1. PICK w \in Processes : InsertLink(w)
    BY <1>1
  <2>2. doing[w].claim \in Claims
    BY <2>1, CommandKinds DEF InsertLink, Links
  <2>3. \A d \in DOMAIN edges' :
          \/ d \in DOMAIN edges /\ edges'[d] = edges[d]
          \/ d = doing[w].claim /\ edges'[d] = [state |-> "unreviewed", by |-> "person"]
    BY <2>1 DEF InsertLink, With
  <2>4. QED
    BY <2>3
<1>2. CASE \E w \in Processes : Propose(w)
  <2>1. PICK w \in Processes : Propose(w)
    BY <1>2
  <2>2. doing[w].checked \in Claims
    BY <2>1, CommandKinds DEF Propose, Suggestions
  <2>3. \A d \in DOMAIN edges' :
          \/ d \in DOMAIN edges /\ edges'[d] = edges[d]
          \/ d = doing[w].checked
    BY <2>1 DEF Propose, With
  <2>4. QED
    BY <2>1, <2>3 DEF Propose
<1>3. CASE \E w \in Processes : Commit(w)
  BY <1>3 DEF Commit
<1>4. CASE \E d \in DOMAIN edges, s \in {"reviewed", "rejected"} : Decide(d, s)
  BY <1>4 DEF Decide, TypeOK
<1>5. CASE edges' = edges
  BY <1>5
<1>6. QED
  BY <1>1, <1>2, <1>3, <1>4, <1>5
     DEF Next, Begin, Step, BeginLink, BeginSuggest, BeginOccurrence, Visit, EndWalk, CheckHeld,
         InsertEvent, InsertAccount, GiveUp, Redate, vars

LEMMA SuggestionsOrient ==
  ASSUME OInv, [Next]_vars, NEW w \in Processes, doing'[w].op = "suggest"
  PROVE  /\ \A c \in doing'[w].todo : Oriented(c)
         /\ doing'[w].checked # None => Oriented(doing'[w].checked)
<1>0. /\ TypeOK /\ doing \in [Processes -> Commands]
      /\ doing[w].op = "suggest" =>
           /\ doing[w] \in Suggestions
           /\ \A c \in doing[w].todo : Oriented(c)
           /\ doing[w].checked # None => Oriented(doing[w].checked)
  BY CommandKinds DEF OInv, AnalyzersOrient, TypeOK
<1>1. CASE BeginSuggest(w)
  <2>1. PICK candidates \in {Tensions, Overlaps, SharedAnchors, Echoes} :
          doing'[w] = [op |-> "suggest", todo |-> candidates, checked |-> None]
    BY <1>0, <1>1 DEF BeginSuggest, Become
  <2>2. \A c \in candidates : Oriented(c)
    BY <1>0, CandidatesAreOriented
  <2>3. QED
    BY <2>1, <2>2
<1>2. CASE CheckHeld(w)
  <2>1. doing[w] \in Suggestions /\ doing[w].checked = None
    BY <1>0, <1>2 DEF CheckHeld
  <2>2. PICK c \in doing[w].todo :
          \/ doing'[w] = Idle
          \/ doing'[w] = [doing[w] EXCEPT !.todo = @ \ {c}]
          \/ doing'[w] = [doing[w] EXCEPT !.checked = c]
    BY <1>0, <1>2 DEF CheckHeld, Become
  <2>3. Oriented(c) /\ \A d \in doing[w].todo : Oriented(d)
    BY <1>0, <1>2 DEF CheckHeld
  <2>4. QED
    BY <2>1, <2>2, <2>3 DEF Suggestions, Idle
<1>3. CASE Propose(w)
  <2>1. doing[w].op = "suggest"
    BY <1>3 DEF Propose
  <2>2. \/ doing'[w] = Idle
        \/ doing'[w] = [op |-> "suggest", todo |-> doing[w].todo \ {doing[w].checked},
                        checked |-> None]
    BY <1>0, <1>3 DEF Propose, Become
  <2>3. QED
    BY <1>0, <2>1, <2>2 DEF Idle
<1>4. CASE doing'[w] = doing[w]
  BY <1>0, <1>4
<1>5. CASE \E c \in DOMAIN edges, s \in {"reviewed", "rejected"} : Decide(c, s)
  <2>1. CASE doing[w].op \in {"walk", "link"}
    <3>1. doing[w] \in Walks \cup Links
      BY <1>0, <2>1, CommandKinds
    <3>2. [doing[w] EXCEPT !.fresh = FALSE].op # "suggest"
      BY <2>1, <3>1 DEF Walks, Links
    <3>3. QED
      BY <1>5, <2>1, <3>2 DEF Decide
  <2>2. CASE doing[w].op \notin {"walk", "link"}
    <3>1. doing'[w] = doing[w]
      BY <1>5, <2>2 DEF Decide
    <3>2. QED
      BY <1>4, <3>1
  <2>3. QED
    BY <2>1, <2>2
<1>6. ASSUME \/ \E c \in LinkRequests : BeginLink(w, c)
             \/ \E r \in OccurrenceRequests : BeginOccurrence(w, r)
             \/ Visit(w) \/ EndWalk(w) \/ InsertLink(w)
             \/ InsertEvent(w) \/ InsertAccount(w) \/ Commit(w) \/ GiveUp(w)
      PROVE  doing'[w].op # "suggest"
  <2>1. CASE Visit(w) \/ InsertAccount(w)
    <3>1. doing[w] \in Walks \cup Accounts
      BY <1>0, <2>1, CommandKinds DEF Visit, InsertAccount
    <3>2. doing'[w].op = doing[w].op
      BY <1>0, <2>1, <3>1 DEF Visit, InsertAccount, Become, Walks, Accounts
    <3>3. QED
      BY <2>1, <3>2 DEF Visit, InsertAccount
  <2>2. CASE EndWalk(w)
    <3>1. doing[w] \in Walks
      BY <1>0, <2>2, CommandKinds DEF EndWalk
    <3>2. QED
      BY <1>0, <2>2, <3>1 DEF EndWalk, Become, Walk, Idle
  <2>3. QED
    BY <1>0, <1>6, <2>1, <2>2
       DEF BeginLink, BeginOccurrence, InsertLink, InsertEvent, Commit, GiveUp, Become, Walk, Idle
<1>7. CASE \E x \in Processes : (Begin(x) \/ Step(x) \/ GiveUp(x)) /\ x # w
  <2>1. doing'[w] = doing[w]
    BY <1>0, <1>7
       DEF Begin, Step, BeginLink, BeginSuggest, BeginOccurrence, Visit, EndWalk, CheckHeld, Propose,
           InsertLink, InsertEvent, InsertAccount, Commit, GiveUp, Become
  <2>2. QED
    BY <1>4, <2>1
<1>8. CASE (\E c \in UNION Echoing, date \in Dates : Redate(c, date)) \/ UNCHANGED vars
  BY <1>4, <1>8 DEF Redate, vars
<1>9. QED
  BY <1>1, <1>2, <1>3, <1>5, <1>6, <1>7, <1>8 DEF Next, Begin, Step

LEMMA InitOInv == Init => OInv
<1> SUFFICES ASSUME Init PROVE OInv
  OBVIOUS
<1>1. \A c \in DOMAIN edges : edges[c].by = "person"
  BY DEF Init
<1>2. QED
  BY <1>1, InitType DEF Init, OInv, AnalyzersOrient, Idle

LEMMA NextOInv == OInv /\ [Next]_vars => OInv'
<1> SUFFICES ASSUME OInv, [Next]_vars PROVE OInv'
  OBVIOUS
<1>1. TypeOK'
  BY NextType DEF OInv
<1>2. ASSUME NEW c \in DOMAIN edges', edges'[c].by = "analyzer" PROVE Oriented(c)
  BY <1>2, AuthorsStay DEF OInv, AnalyzersOrient
<1>3. AnalyzersOrient'
  BY <1>2, SuggestionsOrient DEF AnalyzersOrient, Oriented
<1>4. QED
  BY <1>1, <1>3 DEF OInv

\* propose: analyzers in any number of processes, over any case, never ask one
\* question in both directions.  Echoes are excepted, see the property.
THEOREM AnalyzersNeverMirrorHolds == Spec => []AnalyzersNeverMirror
<1>1. OInv => AnalyzersNeverMirror
  <2> SUFFICES ASSUME OInv, NEW c \in DOMAIN edges, c.relation # "quotes",
                      edges[c].by = "analyzer", Mirror(c) \in DOMAIN edges
               PROVE  edges[Mirror(c)].by = "person"
    BY DEF AnalyzersNeverMirror
  <2>1. c.from \in Nodes /\ c.to \in Nodes
    BY DEF OInv, TypeOK, Claims
  <2>2. Rank[c.from] \in Nat /\ Rank[c.to] \in Nat /\ Rank[c.from] < Rank[c.to]
    BY <2>1, ConstantsAssumption DEF OInv, AnalyzersOrient, Oriented
  <2>3. ~ Oriented(Mirror(c))
    BY <2>2 DEF Oriented, Mirror, Claim
  <2>4. QED
    BY <2>3 DEF OInv, TypeOK, AnalyzersOrient
<1>2. QED
  BY <1>1, InitOInv, NextOInv, PTL DEF Spec

----------------------------------------------------------------------------
(* Independent corroboration.  While no dependency is decided about, the    *)
(* dependencies do not change, and a walk keeps what it has met closed: a   *)
(* record expanded has all it rests on directly either expanded or queued.  *)

Reached(command) == command.seen \cup Range(command.queue)

WalkIsThorough(command) ==
  /\ command.claim[command.side] \in Reached(command)
  /\ \A m \in command.seen : Beneath(m) \subseteq Reached(command)
  /\ \A m \in command.seen : Beneath(m) = {} => m \in command.roots
  /\ command.side = "to" => Grounds(command.claim.from) \subseteq command.first

LinkIsIndependent(command) ==
  command.claim.relation = "independently_corroborates" =>
    Grounds(command.claim.from) \cap Grounds(command.claim.to) = {}

CommandsAreInformed ==
  \A w \in Processes :
    /\ doing[w].op = "walk" /\ doing[w].fresh => WalkIsThorough(doing[w])
    /\ doing[w].op = "link" /\ doing[w].fresh => LinkIsIndependent(doing[w])

CInv == TypeOK /\ CommandsAreInformed

\* What lineage_parents reads is what a record rests on directly.
LEMMA ParentsAreBeneath ==
  ASSUME NEW n \in Nodes
  PROVE  Parents(n) = Beneath(n)
<1> DEFINE found == {m \in Nodes : Depends(n, m)}
<1>1. CASE n \in Groups
  <2>1. n \notin Contents /\ Members[n] \subseteq Nodes
    BY <1>1, ConstantsAssumption DEF Nodes
  <2>2. Parents(n) = found \cup Members[n]
    BY <1>1, <2>1 DEF Parents
  <2>3. QED
    BY <1>1, <2>1, <2>2 DEF Beneath
<1>2. CASE n \in Contents
  <2>1. n \notin Groups /\ SourceOf[n] \in Nodes
    BY <1>2, ConstantsAssumption DEF Nodes
  <2>2. CASE found = {}
    BY <1>2, <2>1, <2>2 DEF Parents, Beneath
  <2>3. CASE found # {}
    BY <2>1, <2>3 DEF Parents, Beneath
  <2>4. QED
    BY <2>2, <2>3
<1>3. CASE n \notin Groups /\ n \notin Contents
  BY <1>3 DEF Parents, Beneath
<1>4. QED
  BY <1>1, <1>2, <1>3

\* A set of records that is closed under dependence, and holds the record a
\* walk started from, holds everything that record rests on.
LEMMA ClosedHoldsAll ==
  ASSUME NEW n \in Nodes, NEW S \in SUBSET Nodes, n \in S, \A x \in S : Beneath(x) \subseteq S
  PROVE  RestsOn(n) \subseteq S
BY DEF RestsOn

\* The dependencies a lineage follows.
Followed == {c \in DOMAIN edges : c.relation \in Dependencies /\ edges[c].state = "reviewed"}

LEMMA SameDependenciesSameGrounds ==
  ASSUME UNCHANGED Followed
  PROVE  \A n \in Nodes : Beneath(n)' = Beneath(n) /\ Grounds(n)' = Grounds(n)
<1>1. \A a, b : Depends(a, b) <=> \E c \in Followed : c.from = a /\ c.to = b
  BY DEF Depends, Followed
<1>2. \A a, b : Depends(a, b)' <=> \E c \in Followed' : c.from = a /\ c.to = b
  BY DEF Depends, Followed
<1>3. \A a, b : Depends(a, b)' <=> Depends(a, b)
  BY <1>1, <1>2
<1>4. \A n : Beneath(n)' = Beneath(n)
  BY <1>3 DEF Beneath
<1>5. \A n : RestsOn(n)' = RestsOn(n)
  BY <1>4 DEF RestsOn
<1>6. \A n : Grounds(n)' = Grounds(n)
  BY <1>4, <1>5 DEF Grounds
<1>7. QED
  BY <1>4, <1>6

\* Whatever is written without a decision is written unreviewed.
LEMMA OnlyDecisionsMatter ==
  ASSUME TypeOK, [Next]_vars
  PROVE  \/ UNCHANGED Followed
         \/ \A w \in Processes : doing'[w].op \in {"walk", "link"} => ~ doing'[w].fresh
<1>1. ASSUME NEW c \in Claims, NEW s \in {"unreviewed", "suggested"},
             NEW author \in {"person", "analyzer"}, edges' = With(c, s, author)
      PROVE  UNCHANGED Followed
  <2>1. /\ DOMAIN edges' = DOMAIN edges \cup {c}
        /\ \A d \in DOMAIN edges' :
             \/ d \in DOMAIN edges /\ edges'[d] = edges[d]
             \/ d = c /\ d \notin DOMAIN edges /\ edges'[d] = [state |-> s, by |-> author]
    BY <1>1 DEF With
  <2>2. QED
    BY <2>1 DEF Followed
<1>2. ASSUME NEW w \in Processes, InsertLink(w) PROVE UNCHANGED Followed
  <2>1. doing[w].claim \in Claims
    BY <1>2, CommandKinds DEF InsertLink, Links
  <2>2. QED
    BY <1>1, <1>2, <2>1 DEF InsertLink
<1>3. ASSUME NEW w \in Processes, Propose(w) PROVE UNCHANGED Followed
  <2>1. doing[w].checked \in Claims
    BY <1>3, CommandKinds DEF Propose, Suggestions
  <2>2. QED
    BY <1>1, <1>3, <2>1 DEF Propose
<1>4. ASSUME NEW w \in Processes, Commit(w) PROVE UNCHANGED Followed
  BY <1>4 DEF Commit, Followed
<1>5. ASSUME NEW c \in DOMAIN edges, NEW s \in {"reviewed", "rejected"}, Decide(c, s)
      PROVE  \/ UNCHANGED Followed
             \/ \A w \in Processes : doing'[w].op \in {"walk", "link"} => ~ doing'[w].fresh
  <2>1. CASE c.relation \notin Dependencies
    BY <1>5, <2>1 DEF Decide, TypeOK, Followed
  <2>2. CASE c.relation \in Dependencies
    <3> SUFFICES ASSUME NEW w \in Processes, doing'[w].op \in {"walk", "link"}
                 PROVE  ~ doing'[w].fresh
      OBVIOUS
    <3>1. CASE doing[w].op \in {"walk", "link"}
      <4>1. doing[w] \in Walks \cup Links
        BY <3>1, CommandKinds
      <4>2. [doing[w] EXCEPT !.fresh = FALSE].fresh = FALSE
        BY <4>1 DEF Walks, Links
      <4>3. QED
        BY <1>5, <2>2, <3>1, <4>2 DEF Decide
    <3>2. CASE doing[w].op \notin {"walk", "link"}
      BY <1>5, <3>2 DEF Decide
    <3>3. QED
      BY <3>1, <3>2
  <2>3. QED
    BY <2>1, <2>2
<1>6. CASE UNCHANGED edges
  BY <1>6 DEF Followed
<1>7. QED
  BY <1>2, <1>3, <1>4, <1>5, <1>6
     DEF Next, Begin, Step, BeginLink, BeginSuggest, BeginOccurrence, Visit, EndWalk, CheckHeld,
         InsertEvent, InsertAccount, GiveUp, Redate, vars


\* A step of another process leaves a command as it is, or no longer fresh.
LEMMA CommandStays ==
  ASSUME TypeOK, NEW w \in Processes,
         \/ \E x \in Processes : (Begin(x) \/ Step(x) \/ GiveUp(x)) /\ x # w
         \/ \E c \in DOMAIN edges, s \in {"reviewed", "rejected"} : Decide(c, s)
         \/ \E c \in UNION Echoing, date \in Dates : Redate(c, date)
         \/ UNCHANGED vars,
         doing'[w].op \in {"walk", "link"}, doing'[w].fresh
  PROVE  doing'[w] = doing[w]
<1>1. CASE \E x \in Processes : (Begin(x) \/ Step(x) \/ GiveUp(x)) /\ x # w
  BY <1>1 DEF TypeOK, Begin, Step, BeginLink, BeginSuggest, BeginOccurrence, Visit, EndWalk, CheckHeld,
              Propose, InsertLink, InsertEvent, InsertAccount, Commit, GiveUp, Become
<1>2. CASE \E c \in DOMAIN edges, s \in {"reviewed", "rejected"} : Decide(c, s)
  <2>1. doing[w].op \in {"walk", "link"} => [doing[w] EXCEPT !.fresh = FALSE].fresh = FALSE
    <3>1. doing[w].op \in {"walk", "link"} => doing[w] \in Walks \cup Links
      BY CommandKinds
    <3>2. QED
      BY <3>1 DEF Walks, Links
  <2>2. \/ doing'[w] = doing[w]
        \/ doing[w].op \in {"walk", "link"} /\ doing'[w] = [doing[w] EXCEPT !.fresh = FALSE]
    BY <1>2 DEF Decide
  <2>3. QED
    BY <2>1, <2>2
<1>3. CASE (\E c \in UNION Echoing, date \in Dates : Redate(c, date)) \/ UNCHANGED vars
  BY <1>3 DEF Redate, vars
<1>4. QED
  BY <1>1, <1>2, <1>3

\* One turn takes the first record off the queue and puts others at its end.
LEMMA QueueAfterTurn ==
  ASSUME NEW queue \in Seq(Nodes), queue # << >>
  PROVE  /\ Head(queue) \in Nodes /\ Tail(queue) \in Seq(Nodes)
         /\ Range(queue) = {Head(queue)} \cup Range(Tail(queue))
         /\ \A more \in Seq(Nodes) : Range(Tail(queue) \o more) = Range(Tail(queue)) \cup Range(more)
<1>1. /\ Len(queue) \in Nat /\ Len(queue) # 0
      /\ Head(queue) = queue[1] /\ Head(queue) \in Nodes /\ Tail(queue) \in Seq(Nodes)
      /\ Len(Tail(queue)) = Len(queue) - 1
      /\ \A i \in 1 .. Len(queue) - 1 : Tail(queue)[i] = queue[i + 1]
  OBVIOUS
<1>2. /\ Range(queue) = {queue[i] : i \in 1 .. Len(queue)}
      /\ Range(Tail(queue)) = {Tail(queue)[i] : i \in 1 .. Len(queue) - 1}
  BY <1>1, RangeEquality
<1>3. ASSUME NEW x \in Range(queue) PROVE x = Head(queue) \/ x \in Range(Tail(queue))
  <2>1. PICK i \in 1 .. Len(queue) : x = queue[i]
    BY <1>2
  <2>2. CASE i # 1
    <3>1. i - 1 \in 1 .. Len(queue) - 1 /\ (i - 1) + 1 = i
      BY <1>1, <2>2
    <3>2. x = Tail(queue)[i - 1]
      BY <1>1, <2>1, <3>1
    <3>3. QED
      BY <1>2, <3>1, <3>2
  <2>3. QED
    BY <1>1, <2>1, <2>2
<1>4. ASSUME NEW x \in Range(Tail(queue)) PROVE x \in Range(queue)
  <2>1. PICK i \in 1 .. Len(queue) - 1 : x = Tail(queue)[i]
    BY <1>2
  <2>2. i + 1 \in 1 .. Len(queue) /\ x = queue[i + 1]
    BY <1>1, <2>1
  <2>3. QED
    BY <1>2, <2>2
<1>5. Head(queue) \in Range(queue)
  <2>1. 1 \in 1 .. Len(queue)
    BY <1>1
  <2>2. QED
    BY <1>1, <1>2, <2>1
<1>6. \A more \in Seq(Nodes) : Range(Tail(queue) \o more) = Range(Tail(queue)) \cup Range(more)
  BY <1>1, RangeConcatenation
<1>7. QED
  BY <1>1, <1>3, <1>4, <1>5, <1>6

\* The turns of the loop keep what was met closed.
LEMMA VisitIsThorough ==
  ASSUME CInv, NEW w \in Processes, Visit(w), doing'[w].fresh
  PROVE  doing'[w].op = "walk" /\ WalkIsThorough(doing'[w])
<1> DEFINE command == doing[w]
           n == Head(command.queue)
           parents == IF n \in command.seen THEN {} ELSE Parents(n)
           isRoot == n \notin command.seen /\ parents = {}
<1>1. command \in Walks /\ command.op = "walk" /\ command.queue \in Seq(Nodes) /\ command.queue # << >>
  BY CommandKinds DEF CInv, Visit, Walks
<1>2. /\ n \in Nodes /\ Tail(command.queue) \in Seq(Nodes)
      /\ Range(command.queue) = {n} \cup Range(Tail(command.queue))
  BY <1>1, QueueAfterTurn DEF command
<1>3. parents \in SUBSET Nodes /\ (n \notin command.seen => parents = Beneath(n))
  BY <1>2, ParentsType, ParentsAreBeneath
<1>4. InOrder(parents) \in Seq(Nodes) /\ Range(InOrder(parents)) = parents
  BY <1>3, InOrderProperties, SeqMonotonic
<1>5. Range(Tail(command.queue) \o InOrder(parents)) = Range(Tail(command.queue)) \cup parents
  BY <1>1, <1>4, QueueAfterTurn DEF command
<1>6. doing'[w] = [command EXCEPT
                     !.queue = Tail(@) \o InOrder(parents),
                     !.seen = @ \cup {n},
                     !.roots = IF isRoot THEN @ \cup {n} ELSE @]
  BY DEF Visit, Become, CInv, TypeOK
<1> HIDE DEF command, n, parents, isRoot
<1>7. /\ doing'[w].op = "walk" /\ doing'[w].claim = command.claim /\ doing'[w].side = command.side
      /\ doing'[w].first = command.first /\ doing'[w].fresh = command.fresh
      /\ doing'[w].queue = Tail(command.queue) \o InOrder(parents)
      /\ doing'[w].seen = command.seen \cup {n}
      /\ doing'[w].roots = IF isRoot THEN command.roots \cup {n} ELSE command.roots
  BY <1>1, <1>6 DEF Walks
<1>8. WalkIsThorough(command)
  BY <1>1, <1>7 DEF CInv, CommandsAreInformed, command
<1>9. Reached(doing'[w]) = Reached(command) \cup parents
  BY <1>2, <1>5, <1>7 DEF Reached
<1>10. ASSUME NEW m \in doing'[w].seen
       PROVE  /\ Beneath(m) \subseteq Reached(doing'[w])
              /\ Beneath(m) = {} => m \in doing'[w].roots
  <2>1. CASE m \in command.seen
    BY <1>7, <1>8, <1>9, <2>1 DEF WalkIsThorough
  <2>2. CASE m = n /\ n \notin command.seen
    BY <1>3, <1>7, <1>9, <2>2 DEF isRoot
  <2>3. QED
    BY <1>7, <2>1, <2>2
<1>11. QED
  BY <1>7, <1>8, <1>9, <1>10 DEF WalkIsThorough

\* A walk that is over has found every ground of the record it started from.
LEMMA WalkFindsGrounds ==
  ASSUME CInv, NEW w \in Processes, EndWalk(w), doing[w].fresh
  PROVE  Grounds(doing[w].claim[doing[w].side]) \subseteq doing[w].roots
<1> DEFINE command == doing[w]
           start == command.claim[command.side]
<1>1. command \in Walks /\ command.queue = << >>
  BY CommandKinds DEF CInv, EndWalk
<1>2. start \in Nodes /\ command.seen \in SUBSET Nodes
  BY <1>1 DEF Walks, Claims
<1>3. Reached(command) = command.seen
  BY <1>1 DEF Reached, Range
<1>4. WalkIsThorough(command)
  BY DEF CInv, CommandsAreInformed, EndWalk
<1>5. start \in command.seen /\ \A m \in command.seen : Beneath(m) \subseteq command.seen
  BY <1>3, <1>4 DEF WalkIsThorough
<1>6. RestsOn(start) \subseteq command.seen
  BY <1>2, <1>5, ClosedHoldsAll
<1>7. QED
  BY <1>4, <1>6 DEF Grounds, WalkIsThorough

LEMMA EndWalkIsInformed ==
  ASSUME CInv, NEW w \in Processes, EndWalk(w)
  PROVE  /\ doing'[w].op = "walk" /\ doing'[w].fresh => WalkIsThorough(doing'[w])
         /\ doing'[w].op = "link" /\ doing'[w].fresh => LinkIsIndependent(doing'[w])
<1> DEFINE command == doing[w]
<1>1. command \in Walks
  BY CommandKinds DEF CInv, EndWalk
<1>2. CASE command.side = "from"
  <2>1. doing'[w] = [Walk(command.claim, "to", command.roots) EXCEPT !.fresh = command.fresh]
    BY <1>2 DEF EndWalk, Become, CInv, TypeOK
  <2>2. /\ doing'[w].op = "walk" /\ doing'[w].claim = command.claim /\ doing'[w].side = "to"
        /\ doing'[w].first = command.roots /\ doing'[w].fresh = command.fresh
        /\ doing'[w].queue = <<command.claim.to>> /\ doing'[w].seen = {}
    BY <2>1 DEF Walk
  <2>3. command.claim.to \in Range(<<command.claim.to>>)
    BY DEF Range
  <2>4. command.fresh => Grounds(command.claim.from) \subseteq command.roots
    BY <1>2, WalkFindsGrounds
  <2>5. QED
    BY <2>2, <2>3, <2>4 DEF WalkIsThorough, Reached
<1>3. CASE command.side = "to"
  <2>1. \/ doing'[w] = Idle
        \/ /\ command.first \cap command.roots = {}
           /\ doing'[w] = [op |-> "link", claim |-> command.claim, fresh |-> command.fresh]
    BY <1>3 DEF EndWalk, Become, CInv, TypeOK
  <2>2. command.fresh => Grounds(command.claim.to) \subseteq command.roots
    BY <1>3, WalkFindsGrounds
  <2>3. command.fresh => Grounds(command.claim.from) \subseteq command.first
    BY <1>3 DEF CInv, CommandsAreInformed, EndWalk, WalkIsThorough
  <2>4. QED
    BY <2>1, <2>2, <2>3 DEF Idle, LinkIsIndependent
<1>4. QED
  BY <1>1, <1>2, <1>3 DEF Walks

LEMMA BeginLinkIsInformed ==
  ASSUME CInv, NEW w \in Processes, NEW c \in LinkRequests, BeginLink(w, c)
  PROVE  /\ doing'[w].op = "walk" => WalkIsThorough(doing'[w])
         /\ doing'[w].op = "link" => LinkIsIndependent(doing'[w])
<1>1. CASE c.relation = "independently_corroborates"
  <2>1. doing'[w] = Walk(c, "from", {})
    BY <1>1 DEF BeginLink, Become, CInv, TypeOK
  <2>2. c.from \in Range(<<c.from>>)
    BY DEF Range
  <2>3. QED
    BY <2>1, <2>2 DEF Walk, WalkIsThorough, Reached
<1>2. CASE c.relation # "independently_corroborates"
  <2>1. doing'[w] = [op |-> "link", claim |-> c, fresh |-> TRUE]
    BY <1>2 DEF BeginLink, Become, CInv, TypeOK
  <2>2. QED
    BY <1>2, <2>1 DEF LinkIsIndependent
<1>3. QED
  BY <1>1, <1>2

LEMMA OthersAreNoWalks ==
  ASSUME TypeOK, NEW w \in Processes,
         \/ BeginSuggest(w) \/ InsertLink(w) \/ CheckHeld(w) \/ Propose(w) \/ GiveUp(w)
         \/ \E r \in OccurrenceRequests : BeginOccurrence(w, r)
         \/ InsertEvent(w) \/ InsertAccount(w) \/ Commit(w)
  PROVE  doing'[w].op \notin {"walk", "link"}
<1>1. CASE CheckHeld(w)
  <2>1. doing[w] \in Suggestions
    BY <1>1, CommandKinds DEF CheckHeld
  <2>2. QED
    BY <1>1, <2>1 DEF CheckHeld, Become, TypeOK, Suggestions, Idle
<1>2. CASE InsertAccount(w)
  <2>1. doing[w] \in Accounts
    BY <1>2, CommandKinds DEF InsertAccount
  <2>2. PICK p \in doing[w].todo :
          doing'[w] = [doing[w] EXCEPT !.todo = @ \ {p},
                                       !.written = @ \cup {Claim(p, "account_of", doing[w].id)}]
    BY <1>2 DEF InsertAccount, Become, TypeOK
  <2>3. QED
    BY <2>1, <2>2 DEF Accounts
<1>3. QED
  BY <1>1, <1>2
     DEF BeginSuggest, InsertLink, Propose, GiveUp, BeginOccurrence, InsertEvent, Commit, Become,
         TypeOK, Idle

\* What a command of a process has established is true of the dependencies as
\* they now are, unless a decision made it stale.
LEMMA NextCInv == CInv /\ [Next]_vars => CInv'
<1> SUFFICES ASSUME CInv, [Next]_vars PROVE CInv'
  OBVIOUS
<1>1. TypeOK'
  BY NextType DEF CInv
<1>2. ASSUME NEW w \in Processes
      PROVE  /\ doing'[w].op = "walk" /\ doing'[w].fresh => WalkIsThorough(doing'[w])
             /\ doing'[w].op = "link" /\ doing'[w].fresh => LinkIsIndependent(doing'[w])
  <2>1. ASSUME NEW c \in LinkRequests, BeginLink(w, c) PROVE <1>2!2
    BY <2>1, BeginLinkIsInformed
  <2>2. CASE Visit(w)
    BY <2>2, VisitIsThorough
  <2>3. CASE EndWalk(w)
    BY <2>3, EndWalkIsInformed
  <2>4. CASE \/ BeginSuggest(w) \/ InsertLink(w) \/ CheckHeld(w) \/ Propose(w) \/ GiveUp(w)
             \/ \E r \in OccurrenceRequests : BeginOccurrence(w, r)
             \/ InsertEvent(w) \/ InsertAccount(w) \/ Commit(w)
    BY <2>4, OthersAreNoWalks DEF CInv
  <2>5. CASE \/ \E x \in Processes : (Begin(x) \/ Step(x) \/ GiveUp(x)) /\ x # w
             \/ \E c \in DOMAIN edges, s \in {"reviewed", "rejected"} : Decide(c, s)
             \/ \E c \in UNION Echoing, date \in Dates : Redate(c, date)
             \/ UNCHANGED vars
    BY <2>5, CommandStays DEF CInv, CommandsAreInformed
  <2>6. QED
    BY <2>1, <2>2, <2>3, <2>4, <2>5 DEF Next, Begin, Step
<1>3. ASSUME NEW w \in Processes
      PROVE  /\ doing'[w].op = "walk" /\ doing'[w].fresh => WalkIsThorough(doing[w])'
             /\ doing'[w].op = "link" /\ doing'[w].fresh => LinkIsIndependent(doing[w])'
  <2> SUFFICES ASSUME doing'[w].op \in {"walk", "link"}, doing'[w].fresh
               PROVE  /\ doing'[w].op = "walk" => WalkIsThorough(doing[w])'
                      /\ doing'[w].op = "link" => LinkIsIndependent(doing[w])'
    OBVIOUS
  <2>1. UNCHANGED Followed
    BY OnlyDecisionsMatter DEF CInv
  <2>2. \A n \in Nodes : Beneath(n)' = Beneath(n) /\ Grounds(n)' = Grounds(n)
    BY <2>1, SameDependenciesSameGrounds
  <2>3. CASE doing'[w].op = "walk"
    <3>1. doing'[w] \in Walks
      BY <1>1, <2>3, CommandIsOfItsKind DEF TypeOK
    <3>2. doing'[w].seen \subseteq Nodes /\ doing'[w].claim.from \in Nodes
      BY <3>1 DEF Walks, Claims
    <3>3. WalkIsThorough(doing'[w])
      BY <1>2, <2>3
    <3>4. QED
      BY <2>2, <2>3, <3>2, <3>3 DEF WalkIsThorough, Reached
  <2>4. CASE doing'[w].op = "link"
    <3>1. doing'[w] \in Links
      BY <1>1, <2>4, CommandIsOfItsKind DEF TypeOK
    <3>2. doing'[w].claim.from \in Nodes /\ doing'[w].claim.to \in Nodes
      BY <3>1 DEF Links, Claims
    <3>3. LinkIsIndependent(doing'[w])
      BY <1>2, <2>4
    <3>4. QED
      BY <2>2, <2>4, <3>2, <3>3 DEF LinkIsIndependent
  <2>5. QED
    BY <2>3, <2>4
<1>4. QED
  BY <1>1, <1>3 DEF CInv, CommandsAreInformed

\* link_evidence: in a case of any size, with any groups, chains and cycles,
\* two records recorded as corroborating each other independently have no
\* ground in common in the dependencies reviewed when the claim is written,
\* unless one was decided about while the command ran.
THEOREM CorroborationWasIndependentHolds == Spec => CorroborationWasIndependent
<1>1. Init => CInv
  <2>1. Init => \A w \in Processes : doing[w].op = "idle"
    BY DEF Init, Idle
  <2>2. QED
    BY <2>1, InitType DEF CInv, CommandsAreInformed
<1>2. CInv /\ [Next]_vars =>
        [\A w \in Processes :
           /\ doing[w].op = "link" /\ doing[w].fresh
           /\ doing[w].claim.relation = "independently_corroborates"
           /\ doing[w].claim \in DOMAIN edges' \ DOMAIN edges
           => Grounds(doing[w].claim.from) \cap Grounds(doing[w].claim.to) = {}]_vars
  BY DEF CInv, CommandsAreInformed, LinkIsIndependent
<1>3. QED
  BY <1>1, <1>2, NextCInv, PTL DEF Spec, CorroborationWasIndependent

----------------------------------------------------------------------------
(* Opening a file of an earlier version: where its relationships are while   *)
(* one process, cut short any number of times, rebuilds their table.  (With  *)
(* two processes this does not hold: one may drop what the other has just    *)
(* recorded.)                                                               *)

LEMMA SchemaInitType == MigrationInit => SchemaTypeOK
BY DEF MigrationInit, SchemaTypeOK, Tables, SchemaVersion, Points

LEMMA SchemaNextType == SchemaTypeOK /\ [MigrationNext]_migrationVars => SchemaTypeOK'
<1> SUFFICES ASSUME SchemaTypeOK, [MigrationNext]_migrationVars
             PROVE  SchemaTypeOK'
  OBVIOUS
<1>1. CASE \E p \in Openers : Run(p)
  <2>1. PICK p \in Openers : Run(p)
    BY <1>1
  <2>2. After(pc[p]) \in Points
    BY <2>1 DEF Run, After, Statements, Points
  <2>3. /\ version' \in {0, SchemaVersion - 1, SchemaVersion}
        /\ tables' \subseteq Tables
        /\ rows' \in [Tables -> SUBSET Edges]
        /\ guards' \in BOOLEAN
        /\ indexed' \in BOOLEAN
    BY <2>1 DEF SchemaTypeOK, Run, Effect, CreateEdges, CreateIndexes, CreateGuards, CreateScratch,
                CopyRows, DropEdges, RenameScratch, Stamp, Tables
  <2>4. QED
    BY <2>1, <2>2, <2>3 DEF SchemaTypeOK, Run, Goto
<1>2. CASE \E p \in Openers :
             Open(p) \/ ReadVersion(p) \/ Refused(p) \/ Close(p) \/ Crash(p)
  <2>1. UNCHANGED <<version, tables, rows, guards, indexed, authored>>
    BY <1>2 DEF Open, ReadVersion, Refused, Close, Crash
  <2>2. pc' \in [Openers -> Points]
    BY <1>2 DEF SchemaTypeOK, Open, ReadVersion, Refused, Close, Crash, Goto, Points, Statements
  <2>3. QED
    BY <2>1, <2>2 DEF SchemaTypeOK
<1>3. CASE \E p \in Openers, e \in Edges : WriteEdge(p, e)
  BY <1>3 DEF SchemaTypeOK, WriteEdge, Tables
<1>4. CASE UNCHANGED migrationVars
  BY <1>4 DEF SchemaTypeOK, migrationVars
<1>5. QED
  BY <1>1, <1>2, <1>3, <1>4 DEF MigrationNext

\* However many processes open, migrate and crash, the version is one the code
\* writes and no statement puts rows into a table that is not one of the two.
THEOREM SchemaTypeCorrect == MigrationSpec => []SchemaTypeOK
<1>1. QED
  BY SchemaInitType, SchemaNextType, PTL DEF MigrationSpec

----------------------------------------------------------------------------
(* Where the relationships are, statement by statement.                     *)

\* Every relationship is in the table edges.
Whole == "edges" \in tables /\ rows["edges"] = authored

\* The scratch table is the whole of it, and edges is missing or empty: what a
\* crash between the DROP and the RENAME leaves behind.
Stranded ==
  /\ "edges_0012" \in tables
  /\ rows["edges_0012"] = authored
  /\ rows["edges"] = {}

\* A file nobody has written to.
Blank == tables = {} /\ authored = {} /\ rows["edges"] = {}

\* What holds of the file while its only process is at the point s.
At(s) ==
  /\ s \in Statements => version # SchemaVersion
  /\ s \in {"indexes", "guards", "create"} => (Whole \/ Stranded) /\ "edges" \in tables
  /\ s = "copy" => Whole /\ tables = Tables /\ rows["edges_0012"] = {}
  /\ s = "drop" => Whole /\ tables = Tables /\ rows["edges_0012"] = authored
  /\ s = "rename" => Stranded /\ tables = {"edges_0012"}
  /\ s \in {"rename", "index"} => ~ indexed
  /\ s = "failed" => "edges_0012" \in tables
  /\ s \in {"index", "stamp", "open"} => Whole /\ tables = {"edges"}
  /\ version = SchemaVersion => Whole /\ tables = {"edges"}
  /\ Whole \/ Stranded \/ Blank
  /\ "edges_0012" \notin tables => rows["edges_0012"] = {}

MigrationInv(p) == SchemaTypeOK /\ At(pc[p])

LEMMA RunStep ==
  ASSUME NEW p \in Openers, MigrationInv(p), Run(p)
  PROVE  At(pc[p])'
<1>0. /\ SchemaTypeOK /\ At(pc[p]) /\ version # SchemaVersion /\ MayRun(pc[p])
      /\ Effect(pc[p])
      /\ authored' = authored
      /\ pc'[p] = After(pc[p])
  BY DEF MigrationInv, SchemaTypeOK, At, Run, Goto
<1> USE DEF At, Whole, Stranded, Blank, Tables, Statements
<1>1. CASE pc[p] = "tables"
  <2>1. pc'[p] = "indexes" /\ CreateEdges
    BY <1>0, <1>1 DEF After, Effect
  <2>2. QED
    BY <1>0, <1>1, <2>1 DEF SchemaTypeOK, MayRun, CreateEdges
<1>2. CASE pc[p] = "indexes"
  <2>1. pc'[p] = "guards" /\ CreateIndexes
    BY <1>0, <1>2 DEF After, Effect
  <2>2. QED
    BY <1>0, <1>2, <2>1 DEF SchemaTypeOK, MayRun, CreateIndexes
<1>3. CASE pc[p] = "guards"
  <2>1. pc'[p] = "create" /\ CreateGuards
    BY <1>0, <1>3 DEF After, Effect
  <2>2. QED
    BY <1>0, <1>3, <2>1 DEF SchemaTypeOK, MayRun, CreateGuards
<1>4. CASE pc[p] = "create"
  <2>1. pc'[p] = "copy" /\ CreateScratch
    BY <1>0, <1>4 DEF After, Effect
  <2>2. QED
    BY <1>0, <1>4, <2>1 DEF SchemaTypeOK, MayRun, CreateScratch
<1>5. CASE pc[p] = "copy"
  <2>1. pc'[p] = "drop" /\ CopyRows
    BY <1>0, <1>5 DEF After, Effect
  <2>2. QED
    BY <1>0, <1>5, <2>1 DEF SchemaTypeOK, MayRun, CopyRows
<1>6. CASE pc[p] = "drop"
  <2>1. pc'[p] = "rename" /\ DropEdges
    BY <1>0, <1>6 DEF After, Effect
  <2>2. QED
    BY <1>0, <1>6, <2>1 DEF SchemaTypeOK, MayRun, DropEdges
<1>7. CASE pc[p] = "rename"
  <2>1. pc'[p] = "index" /\ RenameScratch
    BY <1>0, <1>7 DEF After, Effect
  <2>2. QED
    BY <1>0, <1>7, <2>1 DEF SchemaTypeOK, MayRun, RenameScratch
<1>8. CASE pc[p] = "index"
  <2>1. pc'[p] = "stamp" /\ CreateIndexes
    BY <1>0, <1>8 DEF After, Effect
  <2>2. QED
    BY <1>0, <1>8, <2>1 DEF SchemaTypeOK, MayRun, CreateIndexes
<1>9. CASE pc[p] = "stamp"
  <2>1. pc'[p] = "open" /\ Stamp
    BY <1>0, <1>9 DEF After, Effect
  <2>2. QED
    BY <1>0, <1>9, <2>1 DEF SchemaTypeOK, MayRun, Stamp
<1>10. QED
  BY <1>1, <1>2, <1>3, <1>4, <1>5, <1>6, <1>7, <1>8, <1>9 DEF Run

\* The points a process reaches without touching the file.
LEMMA MoveStep ==
  ASSUME NEW p \in Openers, MigrationInv(p),
         Open(p) \/ ReadVersion(p) \/ Refused(p) \/ Close(p) \/ Crash(p)
  PROVE  At(pc[p])'
<1>1. SchemaTypeOK /\ UNCHANGED <<version, tables, rows, guards, indexed, authored>>
  BY DEF MigrationInv, Open, ReadVersion, Refused, Close, Crash
<1>2. CASE ReadVersion(p)
  <2>1. pc'[p] = IF version < SchemaVersion THEN "tables" ELSE "open"
    BY <1>2 DEF MigrationInv, SchemaTypeOK, ReadVersion, Goto
  <2>2. version < SchemaVersion <=> version # SchemaVersion
    BY <1>1 DEF SchemaTypeOK, SchemaVersion
  <2>3. QED
    BY <1>1, <2>1, <2>2 DEF MigrationInv, At, Whole, Stranded, Blank, Statements
<1>3. CASE Open(p) \/ Close(p) \/ Crash(p)
  <2>1. pc'[p] \in {"check", "closed"}
    BY <1>3 DEF MigrationInv, SchemaTypeOK, Open, Close, Crash, Goto
  <2>2. QED
    BY <1>1, <2>1 DEF MigrationInv, At, Whole, Stranded, Blank, Statements
<1>4. CASE Refused(p)
  <2>1. pc[p] \in Statements /\ ~ MayRun(pc[p]) /\ pc'[p] = "failed"
    BY <1>4 DEF MigrationInv, SchemaTypeOK, Refused, Goto
  <2>2. pc[p] = "create"
    BY <2>1 DEF MigrationInv, At, MayRun, Whole, Stranded, Tables, Statements
  <2>3. "edges_0012" \in tables
    BY <2>1, <2>2 DEF MayRun
  <2>4. QED
    BY <1>1, <2>1, <2>3 DEF MigrationInv, At, Whole, Stranded, Blank, Statements
<1>5. QED
  BY <1>2, <1>3, <1>4

LEMMA WriteStep ==
  ASSUME NEW p \in Openers, MigrationInv(p), NEW e \in Edges, WriteEdge(p, e)
  PROVE  At(pc[p])'
BY DEF MigrationInv, At, SchemaTypeOK, WriteEdge, Whole, Stranded, Blank, Tables, Statements

LEMMA MigrationNextInv ==
  ASSUME NEW p, Openers = {p}
  PROVE  MigrationInv(p) /\ [MigrationNext]_migrationVars => MigrationInv(p)'
<1> SUFFICES ASSUME MigrationInv(p), [MigrationNext]_migrationVars
             PROVE  MigrationInv(p)'
  OBVIOUS
<1>1. SchemaTypeOK'
  BY SchemaNextType DEF MigrationInv
<1>2. p \in Openers /\ \A q \in Openers : q = p
  OBVIOUS
<1>3. CASE Run(p)
  BY <1>1, <1>2, <1>3, RunStep DEF MigrationInv
<1>4. CASE Open(p) \/ ReadVersion(p) \/ Refused(p) \/ Close(p) \/ Crash(p)
  BY <1>1, <1>2, <1>4, MoveStep DEF MigrationInv
<1>5. CASE \E e \in Edges : WriteEdge(p, e)
  BY <1>1, <1>2, <1>5, WriteStep DEF MigrationInv
<1>6. CASE UNCHANGED migrationVars
  BY <1>6 DEF MigrationInv, SchemaTypeOK, At, Whole, Stranded, Blank, migrationVars
<1>7. QED
  BY <1>2, <1>3, <1>4, <1>5, <1>6 DEF MigrationNext

LEMMA MigrationInitInv ==
  ASSUME NEW p, Openers = {p}
  PROVE  MigrationInit => MigrationInv(p)
<1> SUFFICES ASSUME MigrationInit PROVE MigrationInv(p)
  OBVIOUS
<1>1. SchemaTypeOK
  BY SchemaInitType
<1>2. pc[p] = "closed" /\ version # SchemaVersion /\ (Whole \/ Blank) /\ rows["edges_0012"] = {}
  BY DEF MigrationInit, Whole, Blank, Tables, SchemaVersion
<1>3. QED
  BY <1>1, <1>2 DEF MigrationInv, At, Statements

\* A process alone with the file reads every relationship ever recorded in it
\* from the table edges once it has opened it, however often it was cut short.
THEOREM OpenSeesEverythingAlone ==
  ASSUME NEW p, Openers = {p}
  PROVE  MigrationSpec => []OpenSeesEverything
<1>1. MigrationInv(p) => OpenSeesEverything
  BY DEF MigrationInv, At, Whole, OpenSeesEverything
<1>2. QED
  BY <1>1, MigrationInitInv, MigrationNextInv, PTL DEF MigrationSpec

\* And every relationship is in one of the two tables all along.
THEOREM NothingLostAlone ==
  ASSUME NEW p, Openers = {p}
  PROVE  MigrationSpec => []NothingLost
<1>1. MigrationInv(p) => NothingLost
  BY DEF MigrationInv, At, Whole, Stranded, Blank, NothingLost
<1>2. QED
  BY <1>1, MigrationInitInv, MigrationNextInv, PTL DEF MigrationSpec

\* A process alone with the file fails to open it only where a rebuild that was
\* cut short has left its scratch table.
THEOREM OnlyLeftoversFailAlone ==
  ASSUME NEW p, Openers = {p}
  PROVE  MigrationSpec => []OnlyLeftoversFail
<1>1. MigrationInv(p) => OnlyLeftoversFail
  BY DEF MigrationInv, At, OnlyLeftoversFail
<1>2. QED
  BY <1>1, MigrationInitInv, MigrationNextInv, PTL DEF MigrationSpec
=============================================================================
