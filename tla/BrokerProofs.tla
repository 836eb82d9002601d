----------------------------- MODULE BrokerProofs -----------------------------
(***************************************************************************)
(* Theorems about the inference broker, for any number of connections,     *)
(* packs of any size, any budget and any number of requests; and about the *)
(* jobs of the adapters that ask it, for any recordings, requests, attempts *)
(* and changes of the original.                                            *)
(***************************************************************************)
EXTENDS Broker, AdapterJob, FiniteSetTheorems, SequenceTheorems, WellFoundedInduction, TLAPS

----------------------------------------------------------------------------
(* Recursion.  The library's induction theorems take the property as an     *)
(* operator; these take it as a set.                                        *)

LEMMA LeastNatural ==
  ASSUME NEW S \in SUBSET Nat, S # {}
  PROVE  \E n \in S : \A m \in S : n <= m
<1> DEFINE Less == OpToRel(<, Nat)
<1>1. IsWellFoundedOn(Less, Nat)
  BY NatLessThanWellFounded
<1>2. \A x, y \in Nat : x < y => <<x, y>> \in Less
  BY DEF OpToRel
<1> HIDE DEF Less
<1>3. PICK n \in S : \A m \in S : <<m, n>> \notin Less
  BY <1>1, WFMin
<1>4. ASSUME NEW m \in S PROVE n <= m
  <2>1. m \in Nat /\ n \in Nat
    BY Zenon
  <2>2. ~ (m < n)
    BY <1>2, <1>3, <2>1, Zenon
  <2>3. QED
    BY <2>1, <2>2
<1>5. QED
  BY <1>4

\* What holds where nothing smaller comes before, and passes from what is
\* smaller, holds everywhere.
LEMMA RankInduction ==
  ASSUME NEW D, NEW rank \in [D -> Nat], NEW T,
         \A s \in D : (\A t \in D : rank[t] < rank[s] => t \in T) => s \in T
  PROVE  D \subseteq T
<1> SUFFICES ASSUME NEW x \in D, x \notin T PROVE FALSE
  OBVIOUS
<1> DEFINE Ranks == {rank[s] : s \in D \ T}
<1>1. Ranks \in SUBSET Nat /\ Ranks # {}
  OBVIOUS
<1> HIDE DEF Ranks
<1>2. PICK n \in Ranks : \A m \in Ranks : n <= m
  BY <1>1, LeastNatural
<1>3. PICK s \in D \ T : rank[s] = n
  BY DEF Ranks
<1>4. ASSUME NEW t \in D, rank[t] < rank[s] PROVE t \in T
  <2>1. rank[t] \in Nat /\ rank[s] \in Nat
    OBVIOUS
  <2>2. rank[t] \notin Ranks
    BY <1>2, <1>3, <1>4, <2>1
  <2>3. QED
    BY <2>2 DEF Ranks
<1>5. QED
  BY <1>3, <1>4

\* A function that either stops or goes on from one smaller argument.
Recurs(g, D, Stop, next, base, step) ==
  \A s \in D : g[s] = IF s \in Stop THEN base[s] ELSE step[<<s, g[next[s]]>>]

LEMMA RecursionExists ==
  ASSUME NEW D, NEW V, NEW N \in Nat, NEW rank \in [D -> 0 .. N], NEW Stop,
         NEW next \in [D -> D], NEW base \in [D -> V], NEW step \in [D \X V -> V],
         \A s \in D \ Stop : rank[next[s]] < rank[s]
  PROVE  \E g \in [D -> V] : Recurs(g, D, Stop, next, base, step)
<1> DEFINE Upto(g, n) ==
             \A s \in D : rank[s] < n =>
               g[s] = IF s \in Stop THEN base[s] ELSE step[<<s, g[next[s]]>>]
           Good == {n \in Nat : \E g \in [D -> V] : Upto(g, n)}
<1>1. 0 \in Good
  <2>1. Upto(base, 0)
    OBVIOUS
  <2>2. QED
    BY <2>1
<1>2. ASSUME NEW n \in Nat, n \in Good PROVE n + 1 \in Good
  <2>1. PICK g \in [D -> V] : Upto(g, n)
    BY <1>2
  <2> DEFINE h == [s \in D |-> IF rank[s] < n THEN g[s]
                               ELSE IF s \in Stop THEN base[s] ELSE step[<<s, g[next[s]]>>]]
  <2>2. h \in [D -> V]
    OBVIOUS
  <2>3. ASSUME NEW s \in D, rank[s] < n + 1
        PROVE  h[s] = IF s \in Stop THEN base[s] ELSE step[<<s, h[next[s]]>>]
    <3>1. CASE s \in Stop
      BY <2>1, <3>1
    <3>2. CASE s \notin Stop
      <4>1. next[s] \in D /\ rank[next[s]] < rank[s] /\ rank[s] \in Nat /\ rank[next[s]] \in Nat
        BY <3>2
      <4>2. rank[next[s]] < n
        BY <2>3, <4>1
      <4>3. h[next[s]] = g[next[s]]
        BY <4>1, <4>2
      <4>4. h[s] = step[<<s, g[next[s]]>>]
        BY <2>1, <3>2
      <4>5. QED
        BY <3>2, <4>3, <4>4
    <3>3. QED
      BY <3>1, <3>2
  <2>4. Upto(h, n + 1)
    BY <2>3
  <2> HIDE DEF h
  <2>5. QED
    BY <2>2, <2>4
<1> HIDE DEF Good
<1>3. N + 1 \in Good
  <2>1. [n \in Nat |-> n] \in [Nat -> Nat]
    OBVIOUS
  <2>2. ASSUME NEW n \in Nat, \A k \in Nat : k < n => k \in Good PROVE n \in Good
    <3>1. CASE n = 0
      BY <1>1, <3>1
    <3>2. CASE n # 0
      <4>1. n - 1 \in Nat /\ n - 1 < n /\ (n - 1) + 1 = n
        BY <3>2
      <4>2. QED
        BY <1>2, <2>2, <4>1
    <3>3. QED
      BY <3>1, <3>2
  <2>3. Nat \subseteq Good
    <3> DEFINE own == [n \in Nat |-> n]
    <3>1. \A s \in Nat : (\A t \in Nat : own[t] < own[s] => t \in Good) => s \in Good
      BY <2>2
    <3>2. own \in [Nat -> Nat]
      OBVIOUS
    <3> HIDE DEF own
    <3>3. QED
      BY <3>1, <3>2, RankInduction
  <2>4. QED
    BY <2>3
<1>4. PICK g \in [D -> V] : Upto(g, N + 1)
  BY <1>3 DEF Good
<1>5. \A s \in D : rank[s] < N + 1
  OBVIOUS
<1>6. QED
  BY <1>4, <1>5 DEF Recurs

LEMMA RecursionIsUnique ==
  ASSUME NEW D, NEW rank \in [D -> Nat], NEW Stop,
         NEW next \in [D -> D], NEW base, NEW step,
         \A s \in D \ Stop : rank[next[s]] < rank[s],
         NEW g, Recurs(g, D, Stop, next, base, step),
         NEW h, Recurs(h, D, Stop, next, base, step)
  PROVE  \A s \in D : g[s] = h[s]
<1> DEFINE Same == {s \in D : g[s] = h[s]}
<1>1. ASSUME NEW s \in D, \A t \in D : rank[t] < rank[s] => t \in Same PROVE s \in Same
  <2>1. CASE s \in Stop
    BY <2>1 DEF Recurs
  <2>2. CASE s \notin Stop
    BY <1>1, <2>2 DEF Recurs
  <2>3. QED
    BY <2>1, <2>2
<1> HIDE DEF Same
<1>2. D \subseteq Same
  BY <1>1, RankInduction
<1>3. QED
  BY <1>2 DEF Same

----------------------------------------------------------------------------
(* Sums over finite sets, in whatever order MapThenSumSet takes the terms.  *)

Sum(w, S) == MapThenSumSet(LAMBDA x : w[x], S)
Pick(S) == CHOOSE x \in S : TRUE

\* One term after the other, over the subsets of S.
Adds(f, w, S) ==
  f = [s \in SUBSET S |-> IF s = {} THEN 0 ELSE w[Pick(s)] + f[s \ {Pick(s)}]]

LEMMA SmallerSets ==
  ASSUME NEW I, IsFiniteSet(I)
  PROVE  /\ Cardinality(I) \in Nat
         /\ \A S \in SUBSET I : IsFiniteSet(S) /\ Cardinality(S) \in 0 .. Cardinality(I)
         /\ \A S \in SUBSET I : \A x \in S :
              S \ {x} \in SUBSET I /\ Cardinality(S \ {x}) < Cardinality(S)
<1>1. Cardinality(I) \in Nat
  BY FS_CardinalityType
<1>2. \A S \in SUBSET I : IsFiniteSet(S) /\ Cardinality(S) \in 0 .. Cardinality(I)
  BY <1>1, FS_Subset, FS_CardinalityType
<1>3. ASSUME NEW S \in SUBSET I, NEW x \in S PROVE Cardinality(S \ {x}) < Cardinality(S)
  <2>1. IsFiniteSet(S) /\ Cardinality(S) \in Nat
    BY <1>2
  <2>2. Cardinality(S \ {x}) = Cardinality(S) - 1
    BY <2>1, FS_RemoveElement
  <2>3. QED
    BY <2>1, <2>2
<1>4. QED
  BY <1>1, <1>2, <1>3

LEMMA AddsExists ==
  ASSUME NEW I, IsFiniteSet(I), NEW w \in [I -> Nat]
  PROVE  \E f \in [SUBSET I -> Nat] : Adds(f, w, I)
<1> DEFINE D == SUBSET I
           rank == [s \in D |-> Cardinality(s)]
           next == [s \in D |-> s \ {Pick(s)}]
           base == [s \in D |-> 0]
           step == [p \in D \X Nat |-> IF p[1] = {} THEN 0 ELSE w[Pick(p[1])] + p[2]]
<1>1. rank \in [D -> 0 .. Cardinality(I)] /\ Cardinality(I) \in Nat
  BY SmallerSets
<1>2. next \in [D -> D] /\ base \in [D -> Nat]
  OBVIOUS
<1>3. \A s \in D : s # {} => Pick(s) \in s
  BY DEF Pick
<1>4. step \in [D \X Nat -> Nat]
  <2>1. ASSUME NEW p \in D \X Nat, p[1] # {} PROVE w[Pick(p[1])] + p[2] \in Nat
    <3>1. Pick(p[1]) \in I /\ p[2] \in Nat
      BY <1>3, <2>1
    <3>2. QED
      BY <3>1
  <2>2. QED
    BY <2>1
<1>5. \A s \in D \ {{}} : rank[next[s]] < rank[s]
  BY <1>3, SmallerSets
<1>6. \A s \in D, n \in Nat :
        s # {} => step[<<s, n>>] = w[Pick(s)] + n /\ next[s] = s \ {Pick(s)}
  OBVIOUS
<1>7. \A s \in D : base[s] = 0
  OBVIOUS
<1> HIDE DEF D, rank, next, base, step
<1>8. PICK f \in [D -> Nat] : Recurs(f, D, {{}}, next, base, step)
  BY <1>1, <1>2, <1>4, <1>5, RecursionExists
<1>9. \A s \in D : f[s] = IF s = {} THEN 0 ELSE w[Pick(s)] + f[s \ {Pick(s)}]
  BY <1>2, <1>6, <1>7, <1>8 DEF Recurs
<1>10. f = [s \in D |-> IF s = {} THEN 0 ELSE w[Pick(s)] + f[s \ {Pick(s)}]]
  BY <1>9
<1>11. QED
  BY <1>8, <1>10 DEF Adds, D

LEMMA SumIsAdds ==
  ASSUME NEW I, IsFiniteSet(I), NEW w \in [I -> Nat], NEW f \in [SUBSET I -> Nat], Adds(f, w, I),
         NEW S \in SUBSET I
  PROVE  Sum(w, S) = f[S]
<1> DEFINE c == CHOOSE g : Adds(g, w, S)
           r == [s \in SUBSET S |-> f[s]]
<1>1. Sum(w, S) = c[S]
  BY DEF Sum, MapThenSumSet, MapThenFoldSet, Adds, Pick
<1>2. \A s \in SUBSET I : f[s] = IF s = {} THEN 0 ELSE w[Pick(s)] + f[s \ {Pick(s)}]
  BY DEF Adds
<1>3. Adds(r, w, S)
  <2>1. \A s \in SUBSET S : s \in SUBSET I /\ s \ {Pick(s)} \in SUBSET S
    OBVIOUS
  <2>2. \A s \in SUBSET S : r[s] = IF s = {} THEN 0 ELSE w[Pick(s)] + r[s \ {Pick(s)}]
    BY <1>2, <2>1
  <2>3. QED
    BY <2>2 DEF Adds
<1>4. Adds(c, w, S)
  BY <1>3
<1> HIDE DEF c, r
<1>5. SUBSET S \subseteq {s \in SUBSET S : c[s] = r[s]}
  <2> DEFINE Same == {s \in SUBSET S : c[s] = r[s]}
             rank == [s \in SUBSET S |-> Cardinality(s)]
  <2>1. rank \in [SUBSET S -> Nat]
    BY SmallerSets, FS_Subset
  <2>2. ASSUME NEW s \in SUBSET S, \A t \in SUBSET S : rank[t] < rank[s] => t \in Same
        PROVE  s \in Same
    <3>1. CASE s = {}
      BY <1>3, <1>4, <3>1 DEF Adds
    <3>2. CASE s # {}
      <4>1. Pick(s) \in s
        BY <3>2 DEF Pick
      <4>2. s \ {Pick(s)} \in SUBSET S /\ rank[s \ {Pick(s)}] < rank[s]
        <5>1. IsFiniteSet(S)
          BY FS_Subset
        <5>2. QED
          BY <4>1, <5>1, SmallerSets
      <4>3. c[s \ {Pick(s)}] = r[s \ {Pick(s)}]
        BY <2>2, <4>2
      <4>4. /\ c[s] = w[Pick(s)] + c[s \ {Pick(s)}]
            /\ r[s] = w[Pick(s)] + r[s \ {Pick(s)}]
        BY <1>3, <1>4, <3>2 DEF Adds
      <4>5. QED
        BY <4>3, <4>4
    <3>3. QED
      BY <3>1, <3>2
  <2> HIDE DEF Same, rank
  <2> DEFINE D == SUBSET S
  <2>3. rank \in [D -> Nat]
    BY <2>1
  <2>4. \A s \in D : (\A t \in D : rank[t] < rank[s] => t \in Same) => s \in Same
    BY <2>2
  <2> HIDE DEF D
  <2>5. D \subseteq Same
    BY <2>3, <2>4, RankInduction
  <2>6. QED
    BY <2>5 DEF Same, D
<1>6. c[S] = r[S]
  BY <1>5
<1>7. QED
  BY <1>1, <1>6 DEF r

\* Any term may be taken first.
LEMMA SumProperties ==
  ASSUME NEW I, IsFiniteSet(I), NEW w \in [I -> Nat]
  PROVE  /\ Sum(w, {}) = 0
         /\ \A S \in SUBSET I : Sum(w, S) \in Nat
         /\ \A S \in SUBSET I : \A x \in S : Sum(w, S) = w[x] + Sum(w, S \ {x})
<1>1. PICK f \in [SUBSET I -> Nat] : Adds(f, w, I)
  BY AddsExists
<1>2. \A S \in SUBSET I : Sum(w, S) = f[S] /\ f[S] \in Nat
  BY <1>1, SumIsAdds
<1>3. f[{}] = 0 /\ \A S \in SUBSET I : S # {} => f[S] = w[Pick(S)] + f[S \ {Pick(S)}]
  BY <1>1 DEF Adds
<1> DEFINE Fine == {S \in SUBSET I : \A x \in S : f[S] = w[x] + f[S \ {x}]}
           rank == [S \in SUBSET I |-> Cardinality(S)]
<1>4. rank \in [SUBSET I -> Nat] /\ \A S \in SUBSET I : rank[S] = Cardinality(S)
  BY SmallerSets
<1>5. ASSUME NEW S \in SUBSET I, \A R \in SUBSET I : rank[R] < rank[S] => R \in Fine
      PROVE  S \in Fine
  <2> SUFFICES ASSUME NEW x \in S PROVE f[S] = w[x] + f[S \ {x}]
    OBVIOUS
  <2> DEFINE p == Pick(S)
  <2>1. p \in S
    BY DEF Pick
  <2>2. f[S] = w[p] + f[S \ {p}]
    BY <1>3
  <2> HIDE DEF p
  <2>3. CASE x = p
    BY <2>2, <2>3
  <2>4. CASE x # p
    <3>1. S \ {p} \in Fine /\ S \ {x} \in Fine
      BY <1>4, <1>5, <2>1, SmallerSets
    <3>2. f[S \ {p}] = w[x] + f[(S \ {p}) \ {x}] /\ f[S \ {x}] = w[p] + f[(S \ {x}) \ {p}]
      BY <2>1, <2>4, <3>1
    <3>3. (S \ {p}) \ {x} = (S \ {x}) \ {p} /\ (S \ {x}) \ {p} \in SUBSET I
      OBVIOUS
    <3>4. w[x] \in Nat /\ w[p] \in Nat /\ f[(S \ {x}) \ {p}] \in Nat
      BY <1>2, <2>1, <3>3
    <3> DEFINE rest == f[(S \ {x}) \ {p}]
    <3>5. f[S] = w[p] + (w[x] + rest) /\ f[S \ {x}] = w[p] + rest /\ rest \in Nat
      BY <2>2, <3>2, <3>3, <3>4
    <3> HIDE DEF rest
    <3>6. QED
      BY <3>4, <3>5
  <2>5. QED
    BY <2>3, <2>4
<1> HIDE DEF Fine, rank
<1>6. SUBSET I \subseteq Fine
  BY <1>4, <1>5, RankInduction
<1>7. \A S \in SUBSET I : \A x \in S : f[S] = w[x] + f[S \ {x}] /\ S \ {x} \in SUBSET I
  BY <1>6 DEF Fine
<1>8. QED
  BY <1>2, <1>3, <1>7

LEMMA SumMonotone ==
  ASSUME NEW I, IsFiniteSet(I), NEW w \in [I -> Nat], NEW S \in SUBSET I, NEW R \in SUBSET S
  PROVE  Sum(w, R) <= Sum(w, S)
<1> DEFINE Fine == {T \in SUBSET I : \A U \in SUBSET T : Sum(w, U) <= Sum(w, T)}
           rank == [T \in SUBSET I |-> Cardinality(T)]
<1>1. rank \in [SUBSET I -> Nat] /\ \A T \in SUBSET I : rank[T] = Cardinality(T)
  BY SmallerSets
<1>2. ASSUME NEW T \in SUBSET I, \A U \in SUBSET I : rank[U] < rank[T] => U \in Fine
      PROVE  T \in Fine
  <2> SUFFICES ASSUME NEW U \in SUBSET T PROVE Sum(w, U) <= Sum(w, T)
    OBVIOUS
  <2>1. Sum(w, U) \in Nat /\ Sum(w, T) \in Nat
    BY SumProperties
  <2>2. CASE U = T
    BY <2>1, <2>2
  <2>3. CASE U # T
    <3>1. PICK x \in T : x \notin U
      BY <2>3
    <3>2. T \ {x} \in Fine
      BY <1>1, <1>2, SmallerSets
    <3>3. Sum(w, U) <= Sum(w, T \ {x})
      BY <3>1, <3>2
    <3>4. Sum(w, T) = w[x] + Sum(w, T \ {x}) /\ Sum(w, T \ {x}) \in Nat /\ w[x] \in Nat
      BY SumProperties
    <3>5. QED
      BY <2>1, <3>3, <3>4
  <2>4. QED
    BY <2>2, <2>3
<1> HIDE DEF Fine, rank
<1>3. SUBSET I \subseteq Fine
  BY <1>1, <1>2, RankInduction
<1>4. QED
  BY <1>3 DEF Fine

----------------------------------------------------------------------------
(* The frames on a worker's pipes belong to the one request inside the      *)
(* mutex that waits for them.                                               *)

Inside(c) == stage[c] \in {"loading", "loaded", "asked"}
Waits(c) == stage[c] \in {"loading", "asked"}

Numbered == \A c \in Connections : stage[c] # "idle" => sent[c] # 0

OneInside == \A c, d \in Connections : Inside(c) /\ Inside(d) => c = d

InsideIsAdmitted ==
  \A c \in Connections : Inside(c) =>
    /\ NeedsWorker(request[c]) /\ Model(c) \in Installed
    /\ request[c].fault \in {"none", "input"}
    /\ stage[c] # "loading" => request[c].type = "infer"

Quiet(m) ==
  /\ fromWorker[m] = <<>>
  /\ process[m] = "running" => toWorker[m] = <<>>
QuietPipes ==
  \A m \in Installed : (\A c \in Connections : Waits(c) => Model(c) # m) => Quiet(m)

Expected(c) == Frame(c, IF stage[c] = "loading" THEN "load" ELSE "infer")
ReplyIsOwn(c, r) ==
  r.owner = Owner(c) /\ (stage[c] = "asked" /\ r.ok => request[c].fault = "none")
PipeIsOwn ==
  \A c \in Connections : Waits(c) =>
    LET m == Model(c) IN
    \/ /\ fromWorker[m] = <<>>
       /\ process[m] = "running" => toWorker[m] = <<Expected(c)>>
    \/ /\ process[m] = "running" => toWorker[m] = <<>>
       /\ \E r \in Replies : fromWorker[m] = <<r>> /\ ReplyIsOwn(c, r)

PInv ==
  /\ TypeOK /\ Numbered /\ OneInside /\ InsideIsAdmitted
  /\ QuietPipes /\ PipeIsOwn /\ AnswersAreOwn

LEMMA InitPInv == Init => PInv
<1> SUFFICES ASSUME Init PROVE PInv
  OBVIOUS
<1>1. \A c \in Connections : stage[c] = "idle" /\ ~Inside(c) /\ ~Waits(c)
  BY DEF Init, Inside, Waits
<1>2. TypeOK
  <2>1. NoRequest \in AllRequests /\ Refused \in Answers
    BY DEF NoRequest, AllRequests, Names, Refused, Answers
  <2>2. <<>> \in Seq(Frames) /\ <<>> \in Seq(Replies)
    OBVIOUS
  <2>3. sent \in [Connections -> 0 .. MaxRequests]
    BY MaxRequestsAssumption DEF Init
  <2>4. QED
    BY <2>1, <2>2, <2>3 DEF Init, TypeOK, Stages
<1>3. QuietPipes
  BY DEF Init, QuietPipes, Quiet
<1>4. QED
  BY <1>1, <1>2, <1>3 DEF PInv, Numbered, OneInside, InsideIsAdmitted, PipeIsOwn, AnswersAreOwn

\* Nobody is inside while a thread enters: every pipe is quiet.
LEMMA FreeIsQuiet ==
  ASSUME QuietPipes, MutexIsFree
  PROVE  /\ \A c \in Connections : ~Inside(c) /\ ~Waits(c)
         /\ \A m \in Installed : Quiet(m)
BY DEF QuietPipes, MutexIsFree, Inside, Waits

\* A frame of a request that is under way.
LEMMA FrameType ==
  ASSUME TypeOK, Numbered, NEW c \in Connections, stage[c] # "idle", NEW type \in {"load", "infer"}
  PROVE  Frame(c, type) \in Frames /\ Owner(c) \in Owners
<1>1. sent[c] \in 1 .. MaxRequests
  <2>1. sent[c] \in 0 .. MaxRequests /\ sent[c] # 0
    BY DEF TypeOK, Numbered
  <2>2. QED
    BY <2>1, MaxRequestsAssumption
<1>2. Owner(c) \in Owners
  BY <1>1 DEF Owner, Owners
<1>3. QED
  BY <1>1, <1>2 DEF Frame, Frames

\* A request is numbered within the bound.
LEMMA SendBound ==
  ASSUME TypeOK, NEW c \in Connections,
         MapThenSumSet(LAMBDA d : sent[d], Connections) < MaxRequests
  PROVE  sent[c] + 1 \in 0 .. MaxRequests
<1>1. sent \in [Connections -> Nat] /\ sent[c] \in Nat
  BY MaxRequestsAssumption DEF TypeOK
<1>2. Sum(sent, Connections) < MaxRequests
  BY DEF Sum
<1>3. /\ Sum(sent, Connections) = sent[c] + Sum(sent, Connections \ {c})
      /\ Sum(sent, Connections \ {c}) \in Nat
  BY <1>1, FiniteAssumption, SumProperties
<1>4. QED
  BY <1>1, <1>2, <1>3, MaxRequestsAssumption

----------------------------------------------------------------------------
(* Types.                                                                   *)

LEMMA AnswerTypes ==
  /\ Refused \in Answers /\ Granted \in Answers /\ NoRequest \in AllRequests
  /\ \A o \in Owners : [Granted EXCEPT !.owner = o] = [ok |-> TRUE, owner |-> o]
  /\ \A o \in Owners : [Granted EXCEPT !.owner = o] \in Answers
<1>1. Refused \in Answers /\ Granted \in Answers
  BY DEF Refused, Granted, Answers
<1>2. NoRequest \in AllRequests
  BY DEF NoRequest, AllRequests, Names
<1>3. ASSUME NEW o \in Owners
      PROVE  /\ [Granted EXCEPT !.owner = o] = [ok |-> TRUE, owner |-> o]
             /\ [Granted EXCEPT !.owner = o] \in Answers
  <2>0. \A b \in BOOLEAN :
          [[ok |-> b, owner |-> NoOwner] EXCEPT !.owner = o] = [ok |-> b, owner |-> o]
    OBVIOUS
  <2>1. [Granted EXCEPT !.owner = o] = [ok |-> TRUE, owner |-> o]
    BY <2>0, Zenon DEF Granted
  <2>2. [ok |-> TRUE, owner |-> o] \in Answers
    BY DEF Answers
  <2>3. QED
    BY <2>1, <2>2
<1>4. QED
  BY <1>1, <1>2, <1>3

\* The response is written and the mutex given up.
LEMMA AnswerType ==
  ASSUME TypeOK, NEW c \in Connections, NEW a \in Answers, Answer(c, a)
  PROVE  /\ stage' \in [Connections -> Stages] /\ answer' \in [Connections -> Answers]
         /\ request' = request /\ sent' = sent
BY DEF TypeOK, Answer, Stages, clients

LEMMA KillType ==
  ASSUME TypeOK, NEW models, Kill(models)
  PROVE  /\ process' \in [Installed -> {"none", "running", "exited"}]
         /\ toWorker' \in [Installed -> Seq(Frames)]
         /\ fromWorker' \in [Installed -> Seq(Replies)]
         /\ broken' \in [Installed -> BOOLEAN]
         /\ failed' \in [Installed -> BOOLEAN]
<1>1. <<>> \in Seq(Frames) /\ <<>> \in Seq(Replies)
  OBVIOUS
<1>2. process' \in [Installed -> {"none", "running", "exited"}]
  BY DEF TypeOK, Kill, Without
<1>3. toWorker' \in [Installed -> Seq(Frames)]
  BY <1>1 DEF TypeOK, Kill, Without
<1>4. fromWorker' \in [Installed -> Seq(Replies)]
  BY <1>1 DEF TypeOK, Kill, Without
<1>5. broken' \in [Installed -> BOOLEAN] /\ failed' \in [Installed -> BOOLEAN]
  BY DEF TypeOK, Kill, Without
<1>6. QED
  BY <1>2, <1>3, <1>4, <1>5

LEMMA UseType ==
  ASSUME TypeOK, NEW m \in Installed, Use(m)
  PROVE  lastUsed' \in [Installed -> Nat] /\ clock' \in Nat
BY DEF TypeOK, Use

LEMMA ConsumeType ==
  ASSUME TypeOK, NEW m \in Installed, Consume(m)
  PROVE  fromWorker' \in [Installed -> Seq(Replies)]
<1>1. fromWorker[m] \in Seq(Replies)
  BY DEF TypeOK
<1>2. fromWorker[m] # <<>> => Tail(fromWorker[m]) \in Seq(Replies)
  BY <1>1
<1>3. QED
  BY <1>2 DEF TypeOK, Consume

LEMMA ClientType ==
  ASSUME TypeOK, NEW c \in Connections, (\E r \in Requests : Send(c, r)) \/ Receive(c)
  PROVE  TypeOK'
<1>1. CASE \E r \in Requests : Send(c, r)
  <2>1. PICK r \in Requests : Send(c, r)
    BY <1>1
  <2>2. sent[c] + 1 \in 0 .. MaxRequests
    BY <2>1, SendBound DEF Send
  <2>3. sent' \in [Connections -> 0 .. MaxRequests]
    BY <2>1, <2>2 DEF Send, TypeOK
  <2>4. request' \in [Connections -> AllRequests] /\ stage' \in [Connections -> Stages]
    BY <2>1, RequestsAssumption DEF Send, TypeOK, Stages
  <2>5. QED
    BY <2>1, <2>3, <2>4 DEF Send, table, workers, TypeOK
<1>2. CASE Receive(c)
  <2>1. /\ stage' \in [Connections -> Stages] /\ answer' \in [Connections -> Answers]
        /\ request' \in [Connections -> AllRequests]
    BY <1>2, AnswerTypes DEF Receive, TypeOK, Stages
  <2>2. QED
    BY <1>2, <2>1 DEF Receive, table, workers, TypeOK
<1>3. QED
  BY <1>1, <1>2

LEMMA EnterType ==
  ASSUME TypeOK, Numbered, NEW c \in Connections, HandleAtOnce(c) \/ HandleUnload(c)
  PROVE  TypeOK'
<1>1. CASE HandleAtOnce(c)
  <2>1. \E a \in Answers : Answer(c, a)
    BY <1>1, AnswerTypes DEF HandleAtOnce
  <2>2. /\ stage' \in [Connections -> Stages] /\ answer' \in [Connections -> Answers]
        /\ request' = request /\ sent' = sent
    BY <2>1, AnswerType
  <2>3. QED
    BY <1>1, <2>2 DEF HandleAtOnce, table, workers, TypeOK
<1>2. CASE HandleUnload(c)
  <2>1. Answer(c, Granted) /\ Kill({Model(c)} \cap resident)
    BY <1>2 DEF HandleUnload
  <2>2. /\ stage' \in [Connections -> Stages] /\ answer' \in [Connections -> Answers]
        /\ request' = request /\ sent' = sent
    BY <2>1, AnswerTypes, AnswerType
  <2>3. resident' \subseteq Installed /\ lastUsed' \in [Installed -> Nat] /\ clock' = clock
    BY <1>2 DEF HandleUnload, Without, TypeOK
  <2>4. QED
    BY <2>1, <2>2, <2>3, KillType DEF TypeOK
<1>3. QED
  BY <1>1, <1>2

LEMMA FinishLoadType ==
  ASSUME TypeOK, InsideIsAdmitted, NEW c \in Connections, FinishLoad(c)
  PROVE  TypeOK'
<1> DEFINE m == Model(c)
<1>1. m \in Installed
  BY DEF InsideIsAdmitted, Inside, FinishLoad
<1>2. CASE ReadsReply(m, sent[c]) /\ Head(fromWorker[m]).ok
  <2>1. /\ resident' = resident \cup {m} /\ Use(m) /\ Consume(m)
        /\ process' = process /\ broken' = broken /\ failed' = failed /\ toWorker' = toWorker
    BY <1>2 DEF FinishLoad
  <2>2. Head(fromWorker[m]).owner \in Owners
    <3>1. fromWorker[m] \in Seq(Replies) /\ fromWorker[m] # <<>>
      BY <1>1, <1>2 DEF TypeOK, ReadsReply
    <3>2. Head(fromWorker[m]) \in Replies
      BY <3>1
    <3>3. QED
      BY <3>2 DEF Replies
  <2>3. /\ stage' \in [Connections -> Stages] /\ answer' \in [Connections -> Answers]
        /\ request' = request /\ sent' = sent
    <3>1. CASE Answer(c, [Granted EXCEPT !.owner = Head(fromWorker[m]).owner])
      BY <2>2, <3>1, AnswerTypes, AnswerType
    <3>2. CASE stage' = [stage EXCEPT ![c] = "loaded"] /\ UNCHANGED <<answer, clients>>
      BY <3>2 DEF TypeOK, Stages, clients
    <3>3. QED
      BY <1>2, <3>1, <3>2 DEF FinishLoad
  <2> HIDE DEF m
  <2>4. QED
    BY <1>1, <2>1, <2>3, UseType, ConsumeType DEF TypeOK
<1>3. CASE ~(ReadsReply(m, sent[c]) /\ Head(fromWorker[m]).ok)
  <2>1. /\ Kill({m}) /\ Answer(c, Refused)
        /\ resident' = resident /\ lastUsed' = lastUsed /\ clock' = clock
    BY <1>3 DEF FinishLoad
  <2>2. /\ stage' \in [Connections -> Stages] /\ answer' \in [Connections -> Answers]
        /\ request' = request /\ sent' = sent
    BY <2>1, AnswerTypes, AnswerType
  <2>3. QED
    BY <2>1, <2>2, KillType DEF TypeOK
<1>4. QED
  BY <1>2, <1>3

LEMMA AskType ==
  ASSUME TypeOK, Numbered, NEW c \in Connections, Ask(c)
  PROVE  TypeOK'
<1> DEFINE m == Model(c)
<1>1. m \in Installed /\ stage[c] # "idle"
  BY DEF Ask, TypeOK, Handles
<1>2. /\ Use(m) /\ resident' = resident /\ process' = process /\ broken' = broken
      /\ fromWorker' = fromWorker
  BY DEF Ask
<1>3. /\ stage' \in [Connections -> Stages] /\ answer' \in [Connections -> Answers]
      /\ request' = request /\ sent' = sent
      /\ toWorker' \in [Installed -> Seq(Frames)] /\ failed' \in [Installed -> BOOLEAN]
  <2>1. CASE /\ toWorker' = [toWorker EXCEPT ![m] = Append(@, Frame(c, "infer"))]
             /\ stage' = [stage EXCEPT ![c] = "asked"]
             /\ UNCHANGED <<answer, clients, failed>>
    <3>1. Frame(c, "infer") \in Frames
      BY <1>1, FrameType
    <3>2. Append(toWorker[m], Frame(c, "infer")) \in Seq(Frames)
      BY <1>1, <3>1 DEF TypeOK
    <3> HIDE DEF m
    <3>3. QED
      BY <2>1, <3>2 DEF TypeOK, Stages, clients
  <2>2. CASE /\ failed' = [failed EXCEPT ![m] = TRUE]
             /\ Answer(c, Refused)
             /\ UNCHANGED toWorker
    <3>1. /\ stage' \in [Connections -> Stages] /\ answer' \in [Connections -> Answers]
          /\ request' = request /\ sent' = sent
      BY <2>2, AnswerTypes, AnswerType
    <3>2. QED
      BY <2>2, <3>1 DEF TypeOK
  <2>3. QED
    BY <2>1, <2>2 DEF Ask
<1> HIDE DEF m
<1>4. QED
  BY <1>1, <1>2, <1>3, UseType DEF TypeOK

LEMMA ReadAnswerType ==
  ASSUME TypeOK, InsideIsAdmitted, NEW c \in Connections, ReadAnswer(c)
  PROVE  TypeOK'
<1> DEFINE m == Model(c)
<1>1. m \in Installed
  BY DEF InsideIsAdmitted, Inside, ReadAnswer
<1>2. /\ Consume(m) /\ resident' = resident /\ lastUsed' = lastUsed /\ clock' = clock
      /\ process' = process /\ broken' = broken /\ toWorker' = toWorker
  BY DEF ReadAnswer
<1>3. failed' \in [Installed -> BOOLEAN]
  <2>1. failed' = [failed EXCEPT ![m] = failed[m] \/ ~ReadsReply(m, sent[c])]
    BY DEF ReadAnswer
  <2>2. (failed[m] \/ ~ReadsReply(m, sent[c])) \in BOOLEAN
    BY Zenon
  <2> HIDE DEF m
  <2>3. QED
    BY <2>1, <2>2 DEF TypeOK
<1>4. /\ stage' \in [Connections -> Stages] /\ answer' \in [Connections -> Answers]
      /\ request' = request /\ sent' = sent
  <2>1. CASE ReadsReply(m, sent[c]) /\ Head(fromWorker[m]).ok
    <3>1. fromWorker[m] \in Seq(Replies) /\ fromWorker[m] # <<>>
      BY <1>1, <2>1 DEF TypeOK, ReadsReply
    <3>2. Head(fromWorker[m]) \in Replies
      BY <3>1
    <3>3. Head(fromWorker[m]).owner \in Owners
      BY <3>2 DEF Replies
    <3>4. QED
      BY <2>1, <3>3, AnswerTypes, AnswerType DEF ReadAnswer
  <2>2. CASE ~(ReadsReply(m, sent[c]) /\ Head(fromWorker[m]).ok)
    BY <2>2, AnswerTypes, AnswerType DEF ReadAnswer
  <2>3. QED
    BY <2>1, <2>2
<1> HIDE DEF m
<1>5. QED
  BY <1>1, <1>2, <1>3, <1>4, ConsumeType DEF TypeOK

LEMMA WorkerType ==
  ASSUME TypeOK, NEW m \in Installed, Worker(m)
  PROVE  TypeOK'
<1>0. /\ UNCHANGED <<stage, answer, request, sent, resident, lastUsed, clock, failed>>
  BY DEF Worker, WorkerAnswers, WorkerGarbles, WorkerExits, clients, table
<1>1. CASE WorkerExits(m)
  BY <1>0, <1>1 DEF WorkerExits, TypeOK
<1>2. CASE WorkerAnswers(m) \/ WorkerGarbles(m)
  <2> DEFINE f == Head(toWorker[m])
  <2>1. toWorker[m] \in Seq(Frames) /\ toWorker[m] # <<>> /\ fromWorker[m] \in Seq(Replies)
    BY <1>2 DEF TypeOK, WorkerAnswers, WorkerGarbles
  <2>2. f \in Frames /\ Tail(toWorker[m]) \in Seq(Frames)
    BY <2>1
  <2>3. toWorker' \in [Installed -> Seq(Frames)] /\ process' = process
    BY <1>2, <2>2 DEF TypeOK, WorkerAnswers, WorkerGarbles
  <2>4. PICK ok \in BOOLEAN, sound \in BOOLEAN :
          fromWorker' = [fromWorker EXCEPT ![m] =
            Append(@, [id |-> f.id, owner |-> f.owner, ok |-> ok, wellFormed |-> sound])]
    BY <1>2 DEF WorkerAnswers, WorkerGarbles
  <2>5. [id |-> f.id, owner |-> f.owner, ok |-> ok, wellFormed |-> sound] \in Replies
    BY <2>2 DEF Frames, Replies
  <2>6. Append(fromWorker[m], [id |-> f.id, owner |-> f.owner, ok |-> ok, wellFormed |-> sound])
          \in Seq(Replies)
    BY <2>1, <2>5
  <2>7. fromWorker' \in [Installed -> Seq(Replies)]
    BY <2>4, <2>6 DEF TypeOK
  <2>8. broken' \in [Installed -> BOOLEAN]
    <3>1. CASE WorkerGarbles(m)
      BY <3>1 DEF WorkerGarbles, TypeOK
    <3>2. CASE WorkerAnswers(m)
      <4>1. PICK b : broken' = [broken EXCEPT ![m] = b] /\ b \in BOOLEAN
        <5>1. PICK answered \in BOOLEAN :
                broken' = [broken EXCEPT ![m] = broken[m] \/ GivesUp(m, f, answered)]
          BY <3>2 DEF WorkerAnswers
        <5>2. (broken[m] \/ GivesUp(m, f, answered)) \in BOOLEAN
          BY Zenon
        <5>3. QED
          BY <5>1, <5>2
      <4>2. QED
        BY <4>1 DEF TypeOK
    <3>3. QED
      BY <1>2, <3>1, <3>2
  <2>9. QED
    BY <1>0, <2>3, <2>7, <2>8 DEF TypeOK
<1>3. QED
  BY <1>1, <1>2 DEF Worker

----------------------------------------------------------------------------
(* Making room.                                                             *)

LEMMA UsedProperties ==
  /\ Used({}) = 0
  /\ \A S \in SUBSET Installed : Used(S) \in Nat
  /\ \A S \in SUBSET Installed : \A R \in SUBSET S : Used(R) <= Used(S)
  /\ \A S \in SUBSET Installed : \A m \in Installed \ S :
       Used(S \cup {m}) = Vram[m] + Used(S)
<1>1. \A S : Used(S) = Sum(Vram, S)
  BY DEF Used, Sum
<1>2. IsFiniteSet(Installed) /\ Vram \in [Installed -> Nat]
  BY FiniteAssumption, VramAssumption
<1>3. \A S \in SUBSET Installed : \A R \in SUBSET S : Used(R) <= Used(S)
  BY <1>1, <1>2, SumMonotone
<1>4. ASSUME NEW S \in SUBSET Installed, NEW m \in Installed \ S
      PROVE  Used(S \cup {m}) = Vram[m] + Used(S)
  <2>1. S \cup {m} \in SUBSET Installed /\ (S \cup {m}) \ {m} = S
    OBVIOUS
  <2>2. Sum(Vram, S \cup {m}) = Vram[m] + Sum(Vram, (S \cup {m}) \ {m})
    BY <1>2, <2>1, SumProperties
  <2>3. QED
    BY <1>1, <2>1, <2>2
<1>5. QED
  BY <1>1, <1>2, <1>3, <1>4, SumProperties

LEMMA OldestIsOne ==
  ASSUME NEW models \in SUBSET Installed, models # {}, lastUsed \in [Installed -> Nat]
  PROVE  Oldest(models) \in models
<1> DEFINE Times == {lastUsed[m] : m \in models}
<1>1. Times \in SUBSET Nat /\ Times # {}
  OBVIOUS
<1>2. PICK t \in Times : \A u \in Times : t <= u
  BY <1>1, LeastNatural
<1>3. \E m \in models : \A n \in models : lastUsed[m] <= lastUsed[n]
  BY <1>2
<1>4. QED
  BY <1>3 DEF Oldest

\* ensure_resident: the loop that evicts ends, keeps models that were there,
\* and leaves room for the one that comes, whatever the sizes of the packs.
LEMMA KeptLeavesRoom ==
  ASSUME resident \in SUBSET Installed, lastUsed \in [Installed -> Nat],
         NEW m \in Installed, Vram[m] <= Budget
  PROVE  Kept(m) \in SUBSET resident /\ Used(Kept(m)) + Vram[m] <= Budget
<1> DEFINE D == SUBSET resident
           Fits == {s \in D : Used(s) + Vram[m] <= Budget}
           rank == [s \in D |-> Cardinality(s)]
           next == [s \in D |-> IF s = {} THEN s ELSE s \ {Oldest(s)}]
           base == [s \in D |-> s]
           step == [p \in D \X D |-> p[2]]
           Keeps(f) == f = [models \in SUBSET resident |->
                              IF Used(models) + Vram[m] <= Budget THEN models
                              ELSE f[models \ {Oldest(models)}]]
           keep == CHOOSE f : Keeps(f)
<1>1. IsFiniteSet(resident) /\ Cardinality(resident) \in Nat
  BY FiniteAssumption, FS_Subset, FS_CardinalityType
<1>2. rank \in [D -> 0 .. Cardinality(resident)] /\ rank \in [D -> Nat]
  BY <1>1, SmallerSets
<1>3. next \in [D -> D] /\ base \in [D -> D] /\ step \in [D \X D -> D]
  OBVIOUS
<1>4. ASSUME NEW s \in D \ Fits
      PROVE  s # {} /\ Oldest(s) \in s /\ rank[s \ {Oldest(s)}] < rank[s]
             /\ s \ {Oldest(s)} \in D /\ next[s] = s \ {Oldest(s)}
  <2>1. Vram[m] \in Nat /\ Used({}) = 0 /\ 0 + Vram[m] <= Budget
    BY VramAssumption, BudgetAssumption, UsedProperties
  <2>2. s # {}
    <3>1. {} \in Fits
      BY <2>1
    <3> HIDE DEF Fits
    <3>2. QED
      BY <1>4, <3>1
  <2>3. Oldest(s) \in s
    BY <2>2, OldestIsOne
  <2>4. QED
    BY <1>1, <2>2, <2>3, SmallerSets
<1>5. /\ \A s \in D, r \in D : step[<<s, r>>] = r
      /\ \A s \in D : base[s] = s
      /\ \A s \in D : s \in Fits <=> Used(s) + Vram[m] <= Budget
  OBVIOUS
<1>6. Keeps(keep)
  <2> HIDE DEF Fits, rank, next, base, step
  <2>1. PICK g \in [D -> D] : Recurs(g, D, Fits, next, base, step)
    <3> HIDE DEF D
    <3>1. QED
      BY <1>1, <1>2, <1>3, <1>4, RecursionExists
  <2>2. \A s \in D : g[s] = IF Used(s) + Vram[m] <= Budget THEN s ELSE g[s \ {Oldest(s)}]
    <3> SUFFICES ASSUME NEW s \in D
                 PROVE  g[s] = IF Used(s) + Vram[m] <= Budget THEN s ELSE g[s \ {Oldest(s)}]
      OBVIOUS
    <3> HIDE DEF D
    <3>1. g[s] = IF s \in Fits THEN base[s] ELSE step[<<s, g[next[s]]>>]
      BY <2>1 DEF Recurs
    <3>2. CASE s \in Fits
      BY <1>5, <3>1, <3>2
    <3>3. CASE s \notin Fits
      <4>1. next[s] = s \ {Oldest(s)} /\ next[s] \in D
        BY <1>4, <3>3
      <4>2. g[s] = g[next[s]]
        BY <1>5, <2>1, <3>1, <3>3, <4>1
      <4>3. QED
        BY <1>5, <3>3, <4>1, <4>2
    <3>4. QED
      BY <3>2, <3>3
  <2>3. Keeps(g)
    BY <2>2
  <2> HIDE DEF Keeps
  <2>4. QED
    BY <2>3
<1>7. Kept(m) = keep[resident]
  BY DEF Kept
<1> DEFINE Fine == {s \in D : keep[s] \in D /\ Used(keep[s]) + Vram[m] <= Budget}
<1>8. ASSUME NEW s \in D, \A t \in D : rank[t] < rank[s] => t \in Fine
      PROVE  s \in Fine
  <2>1. keep[s] = IF Used(s) + Vram[m] <= Budget THEN s ELSE keep[s \ {Oldest(s)}]
    BY <1>6
  <2> HIDE DEF keep, Keeps, rank, next, base, step
  <2>2. CASE s \in Fits
    BY <2>1, <2>2
  <2>3. CASE s \notin Fits
    <3>1. s \ {Oldest(s)} \in Fine
      BY <1>4, <1>8, <2>3
    <3>2. keep[s] = keep[s \ {Oldest(s)}]
      BY <1>5, <2>1, <2>3
    <3>3. QED
      BY <3>1, <3>2
  <2>4. QED
    BY <2>2, <2>3
<1> HIDE DEF keep, Keeps, rank, next, base, step, Fine, Fits, D
<1>9. D \subseteq Fine
  BY <1>2, <1>8, RankInduction
<1>10. resident \in Fine
  BY <1>9 DEF D
<1>11. QED
  BY <1>7, <1>10 DEF Fine, D

LEMMA BeginLoadType ==
  ASSUME TypeOK, Numbered, NEW c \in Connections, BeginLoad(c)
  PROVE  TypeOK'
<1> DEFINE m == Model(c)
           evicted == resident \ Kept(m)
<1>1. m \in Installed /\ Vram[m] <= Budget /\ stage[c] # "idle"
  <2>1. m \in Installed
    BY DEF BeginLoad, IsRefused, Model
  <2>2. Vram[m] \in Nat /\ Budget \in Nat
    BY <2>1, VramAssumption, BudgetAssumption
  <2>3. ~(Vram[m] > Budget)
    BY <2>1 DEF BeginLoad, IsRefused, Model
  <2>4. QED
    BY <2>1, <2>2, <2>3 DEF BeginLoad, Handles
<1>2. Kept(m) \in SUBSET resident
  BY <1>1, KeptLeavesRoom DEF TypeOK
<1>3. resident' \subseteq Installed /\ lastUsed' \in [Installed -> Nat] /\ clock' = clock
  BY <1>2 DEF BeginLoad, Without, TypeOK
<1>4. CASE Kill(evicted) /\ Answer(c, Refused)
  <2>1. /\ stage' \in [Connections -> Stages] /\ answer' \in [Connections -> Answers]
        /\ request' = request /\ sent' = sent
    BY <1>4, AnswerTypes, AnswerType
  <2> HIDE DEF evicted, m
  <2>2. QED
    BY <1>3, <1>4, <2>1, KillType DEF TypeOK
<1>5. CASE /\ process' = [Without(process, evicted, "none") EXCEPT ![m] = "running"]
           /\ toWorker' = [Without(toWorker, evicted, <<>>) EXCEPT ![m] = <<Frame(c, "load")>>]
           /\ fromWorker' = Without(fromWorker, evicted, <<>>)
           /\ broken' = Without(broken, evicted, FALSE)
           /\ failed' = Without(failed, evicted, FALSE)
           /\ stage' = [stage EXCEPT ![c] = "loading"]
           /\ UNCHANGED <<answer, clients>>
  <2>1. <<>> \in Seq(Frames) /\ <<>> \in Seq(Replies) /\ <<Frame(c, "load")>> \in Seq(Frames)
    <3>1. Frame(c, "load") \in Frames
      BY <1>1, FrameType
    <3>2. QED
      BY <3>1
  <2> HIDE DEF evicted, m
  <2>2. process' \in [Installed -> {"none", "running", "exited"}]
    BY <1>5 DEF Without, TypeOK
  <2>3. toWorker' \in [Installed -> Seq(Frames)]
    BY <1>5, <2>1 DEF Without, TypeOK
  <2>4. fromWorker' \in [Installed -> Seq(Replies)]
    BY <1>5, <2>1 DEF Without, TypeOK
  <2>5. broken' \in [Installed -> BOOLEAN] /\ failed' \in [Installed -> BOOLEAN]
    BY <1>5 DEF Without, TypeOK
  <2>6. stage' \in [Connections -> Stages] /\ answer' = answer /\ request' = request /\ sent' = sent
    BY <1>5 DEF Stages, TypeOK, clients
  <2>7. QED
    BY <1>3, <2>2, <2>3, <2>4, <2>5, <2>6 DEF TypeOK
<1>6. QED
  BY <1>4, <1>5 DEF BeginLoad

LEMMA NextType ==
  ASSUME TypeOK, Numbered, InsideIsAdmitted, [Next]_vars
  PROVE  TypeOK'
<1>1. CASE UNCHANGED vars
  BY <1>1 DEF vars, clients, table, workers, TypeOK
<1>2. ASSUME NEW c \in Connections, (\E r \in Requests : Send(c, r)) \/ Receive(c) \/ Thread(c)
      PROVE  TypeOK'
  BY <1>2, ClientType, EnterType, BeginLoadType, FinishLoadType, AskType, ReadAnswerType DEF Thread
<1>3. ASSUME NEW m \in Installed, Worker(m) PROVE TypeOK'
  BY <1>3, WorkerType
<1>4. QED
  BY <1>1, <1>2, <1>3 DEF Next

----------------------------------------------------------------------------
(* Every step keeps the pipes in order.                                     *)

\* What an answer must be for a request.
Fits(c, a) ==
  a.ok =>
    /\ a.owner \in {NoOwner, Owner(c)}
    /\ request[c].fault = "none"
    /\ request[c].type = "infer" => a.owner = Owner(c)

Orderly ==
  /\ Numbered /\ OneInside /\ InsideIsAdmitted
  /\ QuietPipes /\ PipeIsOwn /\ AnswersAreOwn

LEMMA OthersAreOutside ==
  ASSUME OneInside, NEW c \in Connections, Inside(c) \/ MutexIsFree
  PROVE  \A d \in Connections : Inside(d) => d = c
BY DEF OneInside, Inside, MutexIsFree

\* Only the pipes of the model a thread waits for are in use.
LEMMA OthersAreQuiet ==
  ASSUME OneInside, QuietPipes, NEW c \in Connections, Inside(c) \/ MutexIsFree
  PROVE  \A m \in Installed : (m = Model(c) /\ Waits(c)) \/ Quiet(m)
BY OthersAreOutside DEF QuietPipes, Waits, Inside

\* A thread answers, leaves, and every pipe is quiet.
LEMMA AnswerIsOrderly ==
  ASSUME PInv, NEW c \in Connections, NEW a \in Answers, Answer(c, a), Fits(c, a),
         stage[c] # "idle", Inside(c) \/ MutexIsFree, \A m \in Installed : Quiet(m)'
  PROVE  Orderly'
<1>1. /\ stage' = [stage EXCEPT ![c] = "answered"] /\ answer' = [answer EXCEPT ![c] = a]
      /\ request' = request /\ sent' = sent
  BY DEF Answer, clients
<1>2. \A d \in Connections : ~Inside(d)' /\ ~Waits(d)'
  BY <1>1, OthersAreOutside DEF PInv, TypeOK, Inside, Waits
<1>3. Numbered'
  BY <1>1 DEF PInv, TypeOK, Numbered
<1>4. AnswersAreOwn'
  <2> SUFFICES ASSUME NEW d \in Connections, stage'[d] = "answered", answer'[d].ok
               PROVE  /\ answer'[d].owner \in {NoOwner, Owner(d)'}
                      /\ request'[d].fault = "none"
                      /\ request'[d].type = "infer" => answer'[d].owner = Owner(d)'
    BY DEF AnswersAreOwn
  <2>1. Owner(d)' = Owner(d)
    BY <1>1 DEF Owner
  <2>2. CASE d = c
    BY <1>1, <2>1, <2>2 DEF Fits, PInv, TypeOK
  <2>3. CASE d # c
    BY <1>1, <2>1, <2>3 DEF AnswersAreOwn, PInv, TypeOK
  <2>4. QED
    BY <2>2, <2>3
<1>5. QED
  BY <1>2, <1>3, <1>4 DEF Orderly, OneInside, InsideIsAdmitted, QuietPipes, PipeIsOwn

LEMMA KillIsQuiet ==
  ASSUME TypeOK, NEW models, Kill(models), NEW m \in Installed, m \in models \/ Quiet(m)
  PROVE  Quiet(m)'
BY DEF TypeOK, Kill, Without, Quiet

LEMMA EnterIsOrderly ==
  ASSUME PInv, NEW c \in Connections, HandleAtOnce(c) \/ HandleUnload(c)
  PROVE  Orderly'
<1>1. MutexIsFree /\ stage[c] = "sent" /\ \A m \in Installed : Quiet(m)
  BY FreeIsQuiet DEF PInv, HandleAtOnce, HandleUnload, Handles
<1>2. request[c] \in AllRequests
  BY DEF PInv, TypeOK
<1>3. CASE HandleAtOnce(c)
  <2>1. \A m \in Installed : Quiet(m)'
    BY <1>1, <1>3 DEF HandleAtOnce, workers, Quiet
  <2>2. Fits(c, Refused)
    BY DEF Fits, Refused
  <2>3. Answer(c, Granted) => Fits(c, Granted)
    <3> SUFFICES ASSUME Answer(c, Granted) PROVE Fits(c, Granted)
      OBVIOUS
    <3>1. CASE IsRefused(request[c]) /\ Answer(c, Refused)
      <4>1. Refused = Granted
        BY <3>1 DEF Answer, PInv, TypeOK
      <4>2. QED
        BY <4>1 DEF Refused, Granted
    <3>2. CASE ~IsRefused(request[c])
      <4>1. request[c].type \in {"models", "load"} /\ request[c].fault \notin {"protocol", "pack"}
        BY <1>3, <3>2 DEF HandleAtOnce, IsRefused
      <4>2. request[c].fault = "none"
        BY <1>2, <4>1 DEF AllRequests
      <4>3. QED
        BY <4>1, <4>2 DEF Fits, Granted
    <3>3. QED
      BY <1>3, <3>1, <3>2 DEF HandleAtOnce
  <2>4. Answer(c, Refused) \/ Answer(c, Granted)
    BY <1>3 DEF HandleAtOnce
  <2>5. QED
    BY <1>1, <2>1, <2>2, <2>3, <2>4, AnswerTypes, AnswerIsOrderly
<1>4. CASE HandleUnload(c)
  <2>1. \A m \in Installed : Quiet(m)'
    BY <1>1, <1>4, KillIsQuiet DEF HandleUnload, PInv
  <2>2. request[c].type = "unload" /\ request[c].fault \notin {"protocol", "pack"}
    BY <1>4 DEF HandleUnload, IsRefused
  <2>3. Fits(c, Granted)
    BY <1>2, <2>2 DEF Fits, Granted, AllRequests
  <2>4. QED
    BY <1>1, <1>4, <2>1, <2>3, AnswerTypes, AnswerIsOrderly DEF HandleUnload
<1>5. QED
  BY <1>3, <1>4

LEMMA BeginLoadIsOrderly ==
  ASSUME PInv, NEW c \in Connections, BeginLoad(c)
  PROVE  Orderly'
<1> DEFINE m == Model(c)
           evicted == resident \ Kept(m)
<1>1. MutexIsFree /\ stage[c] = "sent" /\ \A k \in Installed : Quiet(k)
  BY FreeIsQuiet DEF PInv, BeginLoad, Handles
<1>2. /\ NeedsWorker(request[c]) /\ m \in Installed
      /\ request[c].fault \in {"none", "input"} /\ request[c] \in AllRequests
  <2>1. request[c] \in AllRequests
    BY DEF PInv, TypeOK
  <2>2. NeedsWorker(request[c]) /\ m \in Installed /\ request[c].fault \notin {"protocol", "pack"}
    BY DEF BeginLoad, IsRefused, Model
  <2>3. QED
    BY <2>1, <2>2 DEF AllRequests
<1>3. CASE Kill(evicted) /\ Answer(c, Refused)
  <2> HIDE DEF evicted
  <2>1. \A k \in Installed : Quiet(k)'
    BY <1>1, <1>3, KillIsQuiet DEF PInv
  <2>2. Fits(c, Refused)
    BY DEF Fits, Refused
  <2>3. QED
    BY <1>1, <1>3, <2>1, <2>2, AnswerTypes, AnswerIsOrderly
<1>4. CASE /\ process' = [Without(process, evicted, "none") EXCEPT ![m] = "running"]
           /\ toWorker' = [Without(toWorker, evicted, <<>>) EXCEPT ![m] = <<Frame(c, "load")>>]
           /\ fromWorker' = Without(fromWorker, evicted, <<>>)
           /\ broken' = Without(broken, evicted, FALSE)
           /\ failed' = Without(failed, evicted, FALSE)
           /\ stage' = [stage EXCEPT ![c] = "loading"]
           /\ UNCHANGED <<answer, clients>>
  <2> HIDE DEF evicted
  <2>1. request' = request /\ sent' = sent /\ answer' = answer
    BY <1>4 DEF clients
  <2>2. /\ stage'[c] = "loading" /\ Inside(c)' /\ Waits(c)'
        /\ \A d \in Connections : d # c => stage'[d] = stage[d] /\ ~Inside(d)' /\ ~Waits(d)'
    BY <1>1, <1>4, FreeIsQuiet DEF PInv, TypeOK, Inside, Waits
  <2>3. /\ process'[m] = "running" /\ toWorker'[m] = <<Frame(c, "load")>> /\ fromWorker'[m] = <<>>
    BY <1>1, <1>2, <1>4 DEF Without, Quiet
  <2>4. \A k \in Installed : k # m => Quiet(k)'
    BY <1>1, <1>4 DEF Without, Quiet
  <2>5. Model(c)' = m /\ Expected(c)' = Frame(c, "load")
    BY <2>1, <2>2 DEF Model, Expected, Frame, Owner
  <2> HIDE DEF m
  <2>6. QuietPipes'
    BY <2>2, <2>4, <2>5 DEF QuietPipes
  <2>7. PipeIsOwn'
    BY <2>2, <2>3, <2>5 DEF PipeIsOwn
  <2>8. InsideIsAdmitted'
    BY <1>2, <2>1, <2>2, <2>5 DEF InsideIsAdmitted
  <2>9. AnswersAreOwn'
    BY <2>1, <2>2 DEF PInv, AnswersAreOwn, Owner
  <2>10. OneInside' /\ Numbered'
    BY <1>1, <2>1, <2>2 DEF PInv, OneInside, Numbered
  <2>11. QED
    BY <2>6, <2>7, <2>8, <2>9, <2>10 DEF Orderly
<1>5. QED
  BY <1>3, <1>4 DEF BeginLoad

\* What a thread that waits reads from its worker is the reply to its own
\* request, and after it nothing is left on the pipes.
LEMMA ReadsOwnReply ==
  ASSUME PInv, NEW c \in Connections, Waits(c), fromWorker[Model(c)] # <<>>
  PROVE  LET m == Model(c) IN
         /\ Head(fromWorker[m]) \in Replies
         /\ ReplyIsOwn(c, Head(fromWorker[m]))
         /\ Tail(fromWorker[m]) = <<>>
         /\ process[m] = "running" => toWorker[m] = <<>>
<1> DEFINE m == Model(c)
<1>1. /\ process[m] = "running" => toWorker[m] = <<>>
      /\ \E r \in Replies : fromWorker[m] = <<r>> /\ ReplyIsOwn(c, r)
  BY DEF PInv, PipeIsOwn
<1>2. PICK r \in Replies : fromWorker[m] = <<r>> /\ ReplyIsOwn(c, r)
  BY <1>1
<1>3. Head(fromWorker[m]) = r /\ Tail(fromWorker[m]) = <<>>
  BY <1>2
<1>4. QED
  BY <1>1, <1>2, <1>3

\* Once it has read, or seen the end of the pipe, the pipes are quiet.
LEMMA ConsumeIsQuiet ==
  ASSUME PInv, NEW c \in Connections, Waits(c), CanRead(Model(c)), Consume(Model(c)),
         process' = process, toWorker' = toWorker
  PROVE  \A k \in Installed : Quiet(k)'
<1> DEFINE m == Model(c)
<1>1. Inside(c) /\ m \in Installed
  BY DEF PInv, InsideIsAdmitted, Inside, Waits
<1>2. \A k \in Installed : k = m \/ Quiet(k)
  BY <1>1, OthersAreQuiet DEF PInv
<1>3. CASE fromWorker[m] = <<>>
  BY <1>1, <1>2, <1>3 DEF CanRead, Consume, Quiet
<1>4. CASE fromWorker[m] # <<>>
  <2>1. fromWorker' = [fromWorker EXCEPT ![m] = <<>>]
    BY <1>4, ReadsOwnReply DEF Consume
  <2>2. process[m] = "running" => toWorker[m] = <<>>
    BY <1>4, ReadsOwnReply
  <2> HIDE DEF m
  <2>3. QED
    BY <1>1, <1>2, <2>1, <2>2 DEF Quiet, PInv, TypeOK
<1>5. QED
  BY <1>3, <1>4

LEMMA FinishLoadIsOrderly ==
  ASSUME PInv, NEW c \in Connections, FinishLoad(c)
  PROVE  Orderly'
<1> DEFINE m == Model(c)
<1>1. /\ stage[c] = "loading" /\ Inside(c) /\ Waits(c) /\ CanRead(m) /\ m \in Installed
      /\ NeedsWorker(request[c]) /\ request[c].fault \in {"none", "input"}
      /\ request[c] \in AllRequests
  BY DEF PInv, TypeOK, FinishLoad, Inside, Waits, InsideIsAdmitted
<1>2. CASE ReadsReply(m, sent[c]) /\ Head(fromWorker[m]).ok
  <2>1. Consume(m) /\ process' = process /\ toWorker' = toWorker
    BY <1>2 DEF FinishLoad
  <2>2. \A k \in Installed : Quiet(k)'
    BY <1>1, <2>1, ConsumeIsQuiet
  <2>3. Head(fromWorker[m]) \in Replies /\ Head(fromWorker[m]).owner = Owner(c)
    BY <1>1, <1>2, ReadsOwnReply DEF ReadsReply, ReplyIsOwn
  <2>4. Owner(c) \in Owners
    BY <2>3 DEF Replies
  <2>5. CASE request[c].type = "load" /\ Answer(c, [Granted EXCEPT !.owner = Owner(c)])
    <3>1. request[c].fault = "none"
      BY <1>1, <2>5 DEF AllRequests
    <3>2. Fits(c, [ok |-> TRUE, owner |-> Owner(c)])
      BY <3>1 DEF Fits
    <3>3. QED
      BY <1>1, <2>2, <2>4, <2>5, <3>2, AnswerTypes, AnswerIsOrderly
  <2>6. CASE /\ request[c].type = "infer"
             /\ stage' = [stage EXCEPT ![c] = "loaded"]
             /\ UNCHANGED <<answer, clients>>
    <3>1. request' = request /\ sent' = sent /\ answer' = answer
      BY <2>6 DEF clients
    <3>2. /\ stage'[c] = "loaded" /\ ~Waits(c)'
          /\ \A d \in Connections : d # c => stage'[d] = stage[d] /\ ~Inside(d)' /\ ~Waits(d)'
      BY <1>1, <2>6, OthersAreOutside DEF PInv, TypeOK, Inside, Waits
    <3>3. QuietPipes' /\ PipeIsOwn'
      BY <2>2, <3>2 DEF QuietPipes, PipeIsOwn
    <3>4. Model(c)' = m
      BY <3>1 DEF Model
    <3> HIDE DEF m
    <3>5. InsideIsAdmitted'
      BY <1>1, <2>6, <3>1, <3>2, <3>4 DEF InsideIsAdmitted
    <3>6. AnswersAreOwn'
      BY <3>1, <3>2 DEF PInv, AnswersAreOwn, Owner
    <3>7. OneInside' /\ Numbered'
      BY <1>1, <3>1, <3>2 DEF PInv, OneInside, Numbered
    <3>8. QED
      BY <3>3, <3>5, <3>6, <3>7 DEF Orderly
  <2>7. QED
    BY <1>2, <2>3, <2>5, <2>6 DEF FinishLoad
<1>3. CASE ~(ReadsReply(m, sent[c]) /\ Head(fromWorker[m]).ok)
  <2>1. Kill({m}) /\ Answer(c, Refused)
    BY <1>3 DEF FinishLoad
  <2>2. \A k \in Installed : k = m \/ Quiet(k)
    BY <1>1, OthersAreQuiet DEF PInv
  <2> HIDE DEF m
  <2>3. \A k \in Installed : Quiet(k)'
    BY <2>1, <2>2, KillIsQuiet DEF PInv
  <2>4. Fits(c, Refused)
    BY DEF Fits, Refused
  <2>5. QED
    BY <1>1, <2>1, <2>3, <2>4, AnswerTypes, AnswerIsOrderly
<1>4. QED
  BY <1>2, <1>3

LEMMA AskIsOrderly ==
  ASSUME PInv, NEW c \in Connections, Ask(c)
  PROVE  Orderly'
<1> DEFINE m == Model(c)
<1>1. /\ Inside(c) \/ MutexIsFree
      /\ stage[c] \in {"sent", "loaded"} /\ ~Waits(c)
      /\ m \in Installed /\ request[c].type = "infer"
      /\ request[c].fault \in {"none", "input"} /\ request[c] \in AllRequests
  <2>1. m \in Installed /\ request[c] \in AllRequests
    BY DEF PInv, TypeOK, Ask
  <2>2. CASE stage[c] = "loaded"
    BY <2>1, <2>2 DEF PInv, InsideIsAdmitted, Inside, Waits
  <2>3. CASE Handles(c) /\ request[c].type = "infer" /\ ~IsRefused(request[c])
    BY <2>1, <2>3 DEF Handles, IsRefused, AllRequests, Waits
  <2>4. QED
    BY <2>2, <2>3 DEF Ask
<1>2. \A k \in Installed : Quiet(k)
  BY <1>1, OthersAreQuiet DEF PInv
<1>3. process' = process /\ fromWorker' = fromWorker
  BY DEF Ask
<1>4. CASE /\ process[m] = "running"
           /\ toWorker' = [toWorker EXCEPT ![m] = Append(@, Frame(c, "infer"))]
           /\ stage' = [stage EXCEPT ![c] = "asked"]
           /\ UNCHANGED <<answer, clients, failed>>
  <2>1. request' = request /\ sent' = sent /\ answer' = answer
    BY <1>4 DEF clients
  <2>2. /\ stage'[c] = "asked" /\ Inside(c)' /\ Waits(c)'
        /\ \A d \in Connections : d # c => stage'[d] = stage[d] /\ ~Inside(d)' /\ ~Waits(d)'
    BY <1>1, <1>4, OthersAreOutside DEF PInv, TypeOK, Inside, Waits
  <2>3. Append(toWorker[m], Frame(c, "infer")) = <<Frame(c, "infer")>>
    <3>1. toWorker[m] = <<>>
      BY <1>1, <1>2, <1>4 DEF Quiet
    <3>2. QED
      BY <3>1
  <2>4. toWorker'[m] = <<Frame(c, "infer")>> /\ fromWorker'[m] = <<>>
    BY <1>1, <1>2, <1>3, <1>4, <2>3 DEF PInv, TypeOK, Quiet
  <2>5. \A k \in Installed : k # m => Quiet(k)'
    BY <1>2, <1>3, <1>4 DEF PInv, TypeOK, Quiet
  <2>6. Model(c)' = m /\ Expected(c)' = Frame(c, "infer")
    BY <2>1, <2>2 DEF Model, Expected, Frame, Owner
  <2> HIDE DEF m
  <2>7. QuietPipes'
    BY <2>2, <2>5, <2>6 DEF QuietPipes
  <2>8. PipeIsOwn'
    BY <2>2, <2>4, <2>6 DEF PipeIsOwn
  <2>9. InsideIsAdmitted'
    BY <1>1, <2>1, <2>2, <2>6 DEF InsideIsAdmitted, NeedsWorker
  <2>10. AnswersAreOwn'
    BY <2>1, <2>2 DEF PInv, AnswersAreOwn, Owner
  <2>11. OneInside' /\ Numbered'
    BY <1>1, <2>1, <2>2 DEF PInv, OneInside, Numbered
  <2>12. QED
    BY <2>7, <2>8, <2>9, <2>10, <2>11 DEF Orderly
<1>5. CASE Answer(c, Refused) /\ UNCHANGED toWorker
  <2>1. \A k \in Installed : Quiet(k)'
    BY <1>2, <1>3, <1>5 DEF Quiet
  <2>2. Fits(c, Refused)
    BY DEF Fits, Refused
  <2>3. QED
    BY <1>1, <1>5, <2>1, <2>2, AnswerTypes, AnswerIsOrderly
<1>6. QED
  BY <1>4, <1>5 DEF Ask

LEMMA ReadAnswerIsOrderly ==
  ASSUME PInv, NEW c \in Connections, ReadAnswer(c)
  PROVE  Orderly'
<1> DEFINE m == Model(c)
<1>1. /\ stage[c] = "asked" /\ Inside(c) /\ Waits(c) /\ CanRead(m)
      /\ Consume(m) /\ process' = process /\ toWorker' = toWorker
  BY DEF ReadAnswer, Inside, Waits
<1>2. \A k \in Installed : Quiet(k)'
  BY <1>1, ConsumeIsQuiet
<1>3. CASE ReadsReply(m, sent[c]) /\ Head(fromWorker[m]).ok
  <2>1. Head(fromWorker[m]) \in Replies /\ ReplyIsOwn(c, Head(fromWorker[m]))
    BY <1>1, <1>3, ReadsOwnReply DEF ReadsReply
  <2>2. Owner(c) \in Owners /\ Head(fromWorker[m]).owner = Owner(c) /\ request[c].fault = "none"
    BY <1>1, <1>3, <2>1 DEF ReplyIsOwn, Replies
  <2>3. Answer(c, [Granted EXCEPT !.owner = Owner(c)])
    BY <1>3, <2>2 DEF ReadAnswer
  <2>4. Fits(c, [ok |-> TRUE, owner |-> Owner(c)])
    BY <2>2 DEF Fits
  <2>5. QED
    BY <1>1, <1>2, <2>2, <2>3, <2>4, AnswerTypes, AnswerIsOrderly
<1>4. CASE ~(ReadsReply(m, sent[c]) /\ Head(fromWorker[m]).ok)
  <2>1. Fits(c, Refused)
    BY DEF Fits, Refused
  <2>2. QED
    BY <1>1, <1>2, <1>4, <2>1, AnswerTypes, AnswerIsOrderly DEF ReadAnswer
<1>5. QED
  BY <1>3, <1>4

LEMMA WorkerIsOrderly ==
  ASSUME PInv, NEW m \in Installed, Worker(m)
  PROVE  Orderly'
<1>0. /\ UNCHANGED <<stage, answer, request, sent>>
      /\ \A c \in Connections :
           /\ Inside(c)' = Inside(c) /\ Waits(c)' = Waits(c) /\ Model(c)' = Model(c)
           /\ Owner(c)' = Owner(c) /\ Expected(c)' = Expected(c)
      /\ \A c \in Connections, r \in Replies : ReplyIsOwn(c, r)' = ReplyIsOwn(c, r)
  BY DEF Worker, WorkerAnswers, WorkerGarbles, WorkerExits, clients,
         Inside, Waits, Model, Owner, Expected, Frame, ReplyIsOwn
<1>1. Numbered' /\ OneInside' /\ InsideIsAdmitted' /\ AnswersAreOwn'
  BY <1>0 DEF PInv, Numbered, OneInside, InsideIsAdmitted, AnswersAreOwn
<1>2. CASE WorkerExits(m)
  <2>1. /\ toWorker' = toWorker /\ fromWorker' = fromWorker
        /\ \A k \in Installed : process'[k] = "running" => process[k] = "running"
    BY <1>2 DEF WorkerExits, PInv, TypeOK
  <2>2. QuietPipes'
    BY <1>0, <2>1 DEF PInv, QuietPipes, Quiet
  <2>3. PipeIsOwn'
    <3> SUFFICES ASSUME NEW c \in Connections, Waits(c)
                 PROVE  LET k == Model(c) IN
                        \/ /\ fromWorker'[k] = <<>>
                           /\ process'[k] = "running" => toWorker'[k] = <<Expected(c)>>
                        \/ /\ process'[k] = "running" => toWorker'[k] = <<>>
                           /\ \E r \in Replies : fromWorker'[k] = <<r>> /\ ReplyIsOwn(c, r)
      BY <1>0 DEF PipeIsOwn
    <3>1. Model(c) \in Installed
      BY DEF PInv, InsideIsAdmitted, Inside, Waits
    <3>2. QED
      BY <2>1, <3>1 DEF PInv, PipeIsOwn
  <2>4. QED
    BY <1>1, <2>2, <2>3 DEF Orderly
<1>3. CASE WorkerAnswers(m) \/ WorkerGarbles(m)
  <2> DEFINE f == Head(toWorker[m])
  <2>1. process[m] = "running" /\ toWorker[m] # <<>> /\ process' = process
    BY <1>3 DEF WorkerAnswers, WorkerGarbles
  <2>2. PICK c \in Connections : Waits(c) /\ Model(c) = m
    BY <2>1 DEF PInv, QuietPipes, Quiet
  <2>3. \A d \in Connections : Waits(d) => d = c
    BY <2>2, OthersAreOutside DEF PInv, Inside, Waits
  <2>4. fromWorker[m] = <<>> /\ toWorker[m] = <<Expected(c)>>
    BY <2>1, <2>2 DEF PInv, PipeIsOwn
  <2>5. f = Expected(c) /\ Tail(toWorker[m]) = <<>>
    BY <2>4
  <2>6. Expected(c) \in Frames
    BY <2>2, FrameType DEF PInv, Expected, Waits
  <2>7. PICK ok \in BOOLEAN, sound \in BOOLEAN :
          /\ fromWorker' = [fromWorker EXCEPT ![m] =
               Append(@, [id |-> f.id, owner |-> f.owner, ok |-> ok, wellFormed |-> sound])]
          /\ ok => MaySucceed(m, f)
    BY <1>3 DEF WorkerAnswers, WorkerGarbles
  <2> DEFINE r == [id |-> f.id, owner |-> f.owner, ok |-> ok, wellFormed |-> sound]
  <2>8. r \in Replies /\ r.owner = Owner(c) /\ r.ok = ok
    BY <2>5, <2>6 DEF Frames, Replies, Expected, Frame
  <2>9. stage[c] = "asked" /\ ok => request[c].fault = "none"
    <3> SUFFICES ASSUME stage[c] = "asked", ok PROVE request[c].fault = "none"
      OBVIOUS
    <3>1. f.type = "infer" /\ f.sound = (request[c].fault # "input")
      BY <2>5 DEF Expected, Frame
    <3>2. request[c].fault # "input"
      BY <2>7, <3>1 DEF MaySucceed
    <3>3. QED
      BY <3>2 DEF PInv, InsideIsAdmitted, Inside
  <2>10. ReplyIsOwn(c, r)
    BY <2>8, <2>9 DEF ReplyIsOwn
  <2> HIDE DEF r
  <2>11. Append(<<>>, r) = <<r>>
    OBVIOUS
  <2>12. fromWorker' = [fromWorker EXCEPT ![m] = <<r>>] /\ toWorker' = [toWorker EXCEPT ![m] = <<>>]
    <3>1. toWorker' = [toWorker EXCEPT ![m] = Tail(@)]
      BY <1>3 DEF WorkerAnswers, WorkerGarbles
    <3>2. QED
      BY <2>4, <2>5, <2>7, <2>11, <3>1 DEF r
  <2> HIDE DEF f
  <2>13. fromWorker'[m] = <<r>> /\ toWorker'[m] = <<>>
         /\ \A k \in Installed : k # m => fromWorker'[k] = fromWorker[k] /\ toWorker'[k] = toWorker[k]
    BY <2>12 DEF PInv, TypeOK
  <2>14. QuietPipes'
    BY <1>0, <2>1, <2>2, <2>13 DEF PInv, QuietPipes, Quiet
  <2>15. PipeIsOwn'
    <3> SUFFICES ASSUME NEW d \in Connections, Waits(d)
                 PROVE  LET k == Model(d) IN
                        /\ process'[k] = "running" => toWorker'[k] = <<>>
                        /\ \E s \in Replies : fromWorker'[k] = <<s>> /\ ReplyIsOwn(d, s)
      BY <1>0 DEF PipeIsOwn
    <3>1. d = c
      BY <2>3
    <3>2. QED
      BY <2>2, <2>8, <2>10, <2>13, <3>1
  <2>16. QED
    BY <1>1, <2>14, <2>15 DEF Orderly
<1>4. QED
  BY <1>2, <1>3 DEF Worker

LEMMA ClientIsOrderly ==
  ASSUME PInv, NEW c \in Connections, (\E r \in Requests : Send(c, r)) \/ Receive(c)
  PROVE  Orderly'
<1>0. /\ stage[c] \in {"idle", "answered"} /\ stage'[c] \in {"sent", "idle"}
      /\ \A d \in Connections : d # c =>
           stage'[d] = stage[d] /\ request'[d] = request[d] /\ sent'[d] = sent[d]
             /\ answer'[d] = answer[d]
      /\ stage'[c] = "sent" => sent'[c] = sent[c] + 1
      /\ process' = process /\ toWorker' = toWorker /\ fromWorker' = fromWorker
  BY DEF Send, Receive, workers, PInv, TypeOK
<1>1. \A d \in Connections :
        /\ Inside(d)' <=> Inside(d)
        /\ Waits(d)' <=> Waits(d)
        /\ d # c => /\ Model(d)' = Model(d) /\ Owner(d)' = Owner(d)
                    /\ Expected(d)' = Expected(d)
                    /\ \A r \in Replies : ReplyIsOwn(d, r)' = ReplyIsOwn(d, r)
        /\ Inside(d) \/ Waits(d) => d # c
  BY <1>0 DEF Inside, Waits, Model, Owner, Expected, Frame, ReplyIsOwn
<1>2. Numbered'
  <2>1. sent[c] \in Nat
    BY MaxRequestsAssumption DEF PInv, TypeOK
  <2>2. QED
    BY <1>0, <2>1 DEF PInv, Numbered
<1>3. OneInside' /\ InsideIsAdmitted'
  BY <1>0, <1>1 DEF PInv, OneInside, InsideIsAdmitted
<1>4. QuietPipes'
  BY <1>0, <1>1 DEF PInv, QuietPipes, Quiet
<1>5. PipeIsOwn'
  BY <1>0, <1>1 DEF PInv, PipeIsOwn
<1>6. AnswersAreOwn'
  BY <1>0, <1>1 DEF PInv, AnswersAreOwn
<1>7. QED
  BY <1>2, <1>3, <1>4, <1>5, <1>6 DEF Orderly

LEMMA NextPInv == PInv /\ [Next]_vars => PInv'
<1> SUFFICES ASSUME PInv, [Next]_vars PROVE PInv'
  OBVIOUS
<1>1. TypeOK'
  BY NextType DEF PInv
<1>2. CASE UNCHANGED vars
  BY <1>2 DEF vars, clients, table, workers, PInv, Orderly, TypeOK, Numbered, OneInside,
              InsideIsAdmitted, QuietPipes, Quiet, PipeIsOwn, AnswersAreOwn, Inside, Waits, Model,
              Owner, Expected, Frame, ReplyIsOwn
<1>3. ASSUME NEW c \in Connections, (\E r \in Requests : Send(c, r)) \/ Receive(c) \/ Thread(c)
      PROVE  Orderly'
  BY <1>3, ClientIsOrderly, EnterIsOrderly, BeginLoadIsOrderly, FinishLoadIsOrderly, AskIsOrderly,
     ReadAnswerIsOrderly DEF Thread
<1>4. ASSUME NEW m \in Installed, Worker(m) PROVE Orderly'
  BY <1>4, WorkerIsOrderly
<1>5. QED
  BY <1>1, <1>2, <1>3, <1>4 DEF Next, PInv, Orderly

\* Every variable of the broker holds what the code keeps there.
THEOREM TypeCorrect == Spec => []TypeOK
<1>1. PInv => TypeOK
  BY DEF PInv
<1>2. QED
  BY <1>1, InitPInv, NextPInv, PTL DEF Spec

\* One thread at a time is between taking the mutex of serve and giving it up.
THEOREM OneThreadInside == Spec => []OneInside
<1>1. PInv => OneInside
  BY DEF PInv
<1>2. QED
  BY <1>1, InitPInv, NextPInv, PTL DEF Spec

\* No client is given the answer to another request, its own earlier ones
\* included, nor a result for a request there was something wrong with, however
\* workers fail, garble and exit and models are evicted and loaded again.
THEOREM AnswersAreOwnHolds == Spec => []AnswersAreOwn
<1>1. PInv => AnswersAreOwn
  BY DEF PInv
<1>2. QED
  BY <1>1, InitPInv, NextPInv, PTL DEF Spec

----------------------------------------------------------------------------
(* Memory.  A worker that is alive is in the table, or is the one being     *)
(* loaded, for which room was made.                                         *)

Room ==
  /\ Used(resident) <= Budget
  /\ \A c \in Connections : stage[c] = "loading" =>
       Model(c) \notin resident /\ Used(resident \cup {Model(c)}) <= Budget
  /\ \A m \in Installed : process[m] = "running" =>
       m \in resident \/ \E c \in Connections : stage[c] = "loading" /\ Model(c) = m

\* A step that loads nothing, keeps no model the table lacked and starts no worker.
LEMMA RoomStays ==
  ASSUME PInv, PInv', Room,
         resident' \subseteq resident,
         \A c \in Connections : stage'[c] = "loading" => stage[c] = "loading" /\ request'[c] = request[c],
         \A m \in Installed : process'[m] = "running" =>
           /\ process[m] = "running"
           /\ m \in resident' \/ \E c \in Connections : stage'[c] = "loading" /\ Model(c) = m
  PROVE  Room'
<1>1. resident \in SUBSET Installed /\ resident' \in SUBSET Installed
  BY DEF PInv, TypeOK
<1>2. Used(resident') <= Budget
  <2>1. Used(resident') \in Nat /\ Used(resident) \in Nat /\ Used(resident') <= Used(resident)
    BY <1>1, UsedProperties
  <2>2. QED
    BY <2>1, BudgetAssumption DEF Room
<1>3. ASSUME NEW c \in Connections, stage'[c] = "loading"
      PROVE  Model(c)' \notin resident' /\ Used(resident' \cup {Model(c)'}) <= Budget
  <2>1. Model(c)' = Model(c) /\ stage[c] = "loading" /\ Model(c) \in Installed
    BY <1>3 DEF Model, PInv, InsideIsAdmitted, Inside
  <2>2. Model(c) \notin resident /\ Used(resident \cup {Model(c)}) <= Budget
    BY <2>1 DEF Room
  <2> DEFINE after == resident' \cup {Model(c)}
             before == resident \cup {Model(c)}
  <2>3. before \in SUBSET Installed /\ after \in SUBSET before /\ after \in SUBSET Installed
    BY <1>1, <2>1
  <2> HIDE DEF after, before
  <2>4. Used(after) \in Nat /\ Used(before) \in Nat /\ Used(after) <= Used(before)
    BY <2>3, UsedProperties
  <2>5. Used(before) <= Budget
    BY <2>2 DEF before
  <2>6. Used(after) <= Budget
    BY <2>4, <2>5, BudgetAssumption
  <2>7. QED
    BY <2>1, <2>2, <2>6 DEF after
<1>4. ASSUME NEW m \in Installed, process'[m] = "running"
      PROVE  m \in resident' \/ \E c \in Connections : stage'[c] = "loading" /\ Model(c)' = m
  BY <1>4 DEF Model
<1>5. Used(resident)' = Used(resident')
  BY DEF Used, MapThenSumSet, MapThenFoldSet
<1>6. \A c \in Connections : Used(resident \cup {Model(c)})' = Used(resident' \cup {Model(c)'})
  BY DEF Used, MapThenSumSet, MapThenFoldSet
<1>7. QED
  BY <1>2, <1>3, <1>4, <1>5, <1>6 DEF Room

LEMMA BeginLoadFindsRoom ==
  ASSUME PInv, PInv', Room, NEW c \in Connections, BeginLoad(c)
  PROVE  Room'
<1> DEFINE m == Model(c)
           evicted == resident \ Kept(m)
<1>1. MutexIsFree /\ m \in Installed /\ m \notin resident /\ Vram[m] <= Budget
  <2>1. m \in Installed /\ ~(Vram[m] > Budget)
    BY DEF BeginLoad, IsRefused, Model
  <2>2. Vram[m] \in Nat
    BY <2>1, VramAssumption
  <2>3. QED
    BY <2>1, <2>2, BudgetAssumption DEF BeginLoad, Handles
<1>2. \A d \in Connections : stage[d] # "loading"
  BY <1>1 DEF MutexIsFree
<1>3. resident' = Kept(m) /\ Kept(m) \in SUBSET resident /\ Used(Kept(m)) + Vram[m] <= Budget
  BY <1>1, KeptLeavesRoom DEF BeginLoad, PInv, TypeOK
<1>4. \A k \in Installed : process[k] = "running" => k \in resident
  BY <1>2 DEF Room
<1>5. CASE Kill(evicted) /\ Answer(c, Refused)
  <2>1. \A d \in Connections : stage'[d] # "loading"
    BY <1>2, <1>5 DEF Answer, PInv, TypeOK
  <2>2. \A k \in Installed : process'[k] = "running" => process[k] = "running" /\ k \in Kept(m)
    BY <1>4, <1>5 DEF Kill, Without
  <2> HIDE DEF m, evicted
  <2>3. QED
    BY <1>3, <2>1, <2>2, RoomStays
<1>6. CASE /\ process' = [Without(process, evicted, "none") EXCEPT ![m] = "running"]
           /\ stage' = [stage EXCEPT ![c] = "loading"]
           /\ UNCHANGED <<answer, clients>>
  <2>1. Model(c)' = m /\ \A d \in Connections : stage'[d] = "loading" => d = c
    BY <1>2, <1>6 DEF Model, clients, PInv, TypeOK
  <2>2. stage'[c] = "loading"
    BY <1>6 DEF PInv, TypeOK
  <2>3. Used(Kept(m) \cup {m}) <= Budget /\ Used(Kept(m)) <= Budget
    <3>1. Kept(m) \in SUBSET Installed /\ m \in Installed \ Kept(m)
      BY <1>1, <1>3 DEF PInv, TypeOK
    <3>2. Used(Kept(m) \cup {m}) = Vram[m] + Used(Kept(m)) /\ Used(Kept(m)) \in Nat /\ Vram[m] \in Nat
      BY <1>1, <3>1, UsedProperties, VramAssumption
    <3> HIDE DEF m
    <3>3. QED
      BY <1>3, <3>2, BudgetAssumption
  <2>4. \A k \in Installed : process'[k] = "running" => k = m \/ k \in Kept(m)
    BY <1>4, <1>6 DEF Without
  <2>5. m \notin Kept(m)
    BY <1>1, <1>3
  <2> HIDE DEF m
  <2>6. Used(resident)' = Used(Kept(m)) /\ Used(resident \cup {Model(c)})' = Used(Kept(m) \cup {m})
    BY <1>3, <2>1 DEF Used, MapThenSumSet, MapThenFoldSet
  <2>7. QED
    BY <1>3, <2>1, <2>2, <2>3, <2>4, <2>5, <2>6 DEF Room
<1>7. QED
  BY <1>5, <1>6 DEF BeginLoad

LEMMA FinishLoadTakesRoom ==
  ASSUME PInv, PInv', Room, NEW c \in Connections, FinishLoad(c)
  PROVE  Room'
<1> DEFINE m == Model(c)
<1>1. /\ stage[c] = "loading" /\ Inside(c) /\ m \in Installed
      /\ m \notin resident /\ Used(resident \cup {m}) <= Budget
  BY DEF PInv, FinishLoad, Inside, InsideIsAdmitted, Room
<1>2. \A d \in Connections : stage[d] = "loading" => d = c
  BY <1>1, OthersAreOutside DEF PInv, Inside
<1>3. \A d \in Connections : stage'[d] # "loading"
  <2>1. stage' = [stage EXCEPT ![c] = "answered"] \/ stage' = [stage EXCEPT ![c] = "loaded"]
    BY DEF FinishLoad, Answer
  <2>2. QED
    BY <1>2, <2>1 DEF PInv, TypeOK
<1>4. \A k \in Installed : process[k] = "running" => k \in resident \cup {m}
  BY <1>2 DEF Room
<1>5. CASE resident' = resident \cup {m} /\ process' = process
  <2> HIDE DEF m
  <2>1. Used(resident)' = Used(resident \cup {m})
    BY <1>5 DEF Used, MapThenSumSet, MapThenFoldSet
  <2>2. QED
    BY <1>1, <1>3, <1>4, <1>5, <2>1 DEF Room
<1>6. CASE resident' = resident /\ Kill({m})
  <2>1. \A k \in Installed : process'[k] = "running" => process[k] = "running" /\ k # m
    BY <1>6 DEF Kill, Without
  <2> HIDE DEF m
  <2>2. QED
    BY <1>3, <1>4, <1>6, <2>1, RoomStays
<1>7. QED
  BY <1>5, <1>6 DEF FinishLoad

LEMMA NextRoom == PInv /\ Room /\ [Next]_vars => Room'
<1> SUFFICES ASSUME PInv, Room, [Next]_vars PROVE Room'
  OBVIOUS
<1>0. PInv'
  BY NextPInv
<1>1. CASE UNCHANGED vars
  <2>1. UNCHANGED <<stage, request, resident, process>>
    BY <1>1 DEF vars, clients, table, workers
  <2>2. QED
    BY <1>0, <2>1, RoomStays DEF Room
<1>2. ASSUME NEW c \in Connections, (\E r \in Requests : Send(c, r)) \/ Receive(c)
      PROVE  Room'
  <2>1. /\ process' = process /\ resident' = resident
        /\ stage[c] # "loading" /\ stage'[c] # "loading"
        /\ \A d \in Connections : d # c => stage'[d] = stage[d] /\ request'[d] = request[d]
    BY <1>2 DEF Send, Receive, table, workers, PInv, TypeOK
  <2>2. QED
    BY <1>0, <2>1, RoomStays DEF Room
<1>3. ASSUME NEW c \in Connections, HandleAtOnce(c) \/ Ask(c) \/ ReadAnswer(c) PROVE Room'
  <2>1. /\ process' = process /\ resident' = resident
        /\ request' = request
        /\ stage[c] # "loading" /\ stage'[c] # "loading"
        /\ \A d \in Connections : d # c => stage'[d] = stage[d]
    BY <1>3 DEF HandleAtOnce, Ask, ReadAnswer, Handles, Answer, clients, table, workers, PInv, TypeOK
  <2>2. QED
    BY <1>0, <2>1, RoomStays DEF Room
<1>4. ASSUME NEW c \in Connections, HandleUnload(c) PROVE Room'
  <2>1. /\ MutexIsFree /\ resident' = resident \ {Model(c)} /\ Kill({Model(c)} \cap resident)
        /\ Answer(c, Granted)
    BY <1>4 DEF HandleUnload, Handles
  <2>2. \A d \in Connections : stage[d] # "loading" /\ stage'[d] # "loading"
    BY <2>1 DEF MutexIsFree, Answer, PInv, TypeOK
  <2>3. \A k \in Installed : process[k] = "running" => k \in resident
    BY <2>2 DEF Room
  <2>4. \A k \in Installed : process'[k] = "running" => process[k] = "running" /\ k \in resident'
    BY <2>1, <2>3 DEF Kill, Without
  <2>5. QED
    BY <1>0, <2>1, <2>2, <2>4, RoomStays
<1>5. ASSUME NEW c \in Connections, BeginLoad(c) \/ FinishLoad(c) PROVE Room'
  BY <1>0, <1>5, BeginLoadFindsRoom, FinishLoadTakesRoom
<1>6. ASSUME NEW m \in Installed, Worker(m) PROVE Room'
  <2>1. /\ UNCHANGED <<stage, request, resident>>
        /\ \A k \in Installed : process'[k] = "running" => process[k] = "running"
    BY <1>6 DEF Worker, WorkerAnswers, WorkerGarbles, WorkerExits, clients, table, PInv, TypeOK
  <2>2. QED
    BY <1>0, <2>1, RoomStays DEF Room
<1>7. QED
  BY <1>1, <1>2, <1>3, <1>4, <1>5, <1>6 DEF Next, Thread

\* ensure_resident: however many packs there are and however large, whatever is
\* loaded, evicted, unloaded or killed, the workers alive fit in the budget.
THEOREM WithinBudgetHolds == Spec => []WithinBudget
<1>1. Init => Room
  <2> SUFFICES ASSUME Init PROVE Room
    OBVIOUS
  <2>1. Used(resident) = Used({})
    BY DEF Init, Used
  <2>2. QED
    BY <2>1, UsedProperties, BudgetAssumption DEF Init, Room
<1>2. PInv /\ Room => WithinBudget
  <2> SUFFICES ASSUME PInv, Room PROVE WithinBudget
    OBVIOUS
  <2> DEFINE alive == {m \in Installed : process[m] = "running"}
  <2>1. resident \in SUBSET Installed
    BY DEF PInv, TypeOK
  <2>2. CASE \E c \in Connections : stage[c] = "loading"
    <3>1. PICK c \in Connections : stage[c] = "loading"
      BY <2>2
    <3>2. Model(c) \in Installed /\ \A d \in Connections : stage[d] = "loading" => d = c
      BY <3>1, OthersAreOutside DEF PInv, Inside, InsideIsAdmitted
    <3> DEFINE claimed == resident \cup {Model(c)}
    <3>3. alive \in SUBSET claimed /\ claimed \in SUBSET Installed
      BY <2>1, <3>2 DEF Room
    <3>4. Used(claimed) <= Budget
      BY <3>1 DEF Room
    <3> HIDE DEF alive, claimed
    <3>5. Used(alive) \in Nat /\ Used(claimed) \in Nat /\ Used(alive) <= Used(claimed)
      BY <3>3, UsedProperties
    <3>6. Used(alive) <= Budget
      BY <3>4, <3>5, BudgetAssumption
    <3>7. QED
      BY <3>6 DEF WithinBudget, alive
  <2>3. CASE \A c \in Connections : stage[c] # "loading"
    <3>1. alive \in SUBSET resident /\ Used(resident) <= Budget
      BY <2>3 DEF Room
    <3> HIDE DEF alive
    <3>2. Used(alive) \in Nat /\ Used(resident) \in Nat /\ Used(alive) <= Used(resident)
      BY <2>1, <3>1, UsedProperties
    <3>3. Used(alive) <= Budget
      BY <3>1, <3>2, BudgetAssumption
    <3>4. QED
      BY <3>3 DEF WithinBudget, alive
  <2>4. QED
    BY <2>2, <2>3
<1>3. QED
  BY <1>1, <1>2, InitPInv, NextPInv, NextRoom, PTL DEF Spec

----------------------------------------------------------------------------
(* Folds over sequences.  They are folds over the set of indices, from the  *)
(* largest down, so recursion over subsets of an interval unfolds them.     *)

LEMMA MaxIsIn ==
  ASSUME NEW n \in Nat, NEW s \in SUBSET (1 .. n), s # {}
  PROVE  Max(s) \in s /\ \A y \in s : y <= Max(s)
<1> DEFINE below == {n - x : x \in s}
<1>1. below \in SUBSET Nat /\ below # {}
  <2>1. \A x \in 1 .. n : n - x \in Nat
    OBVIOUS
  <2>2. QED
    BY <2>1
<1> HIDE DEF below
<1>2. PICK k \in below : \A m \in below : k <= m
  BY <1>1, LeastNatural
<1>3. PICK x \in s : k = n - x
  BY <1>2 DEF below
<1>4. \A y \in s : y <= x
  <2> SUFFICES ASSUME NEW y \in s PROVE y <= x
    OBVIOUS
  <2>1. n - y \in below
    BY DEF below
  <2>2. n - x <= n - y
    BY <1>2, <1>3, <2>1
  <2>3. x \in 1 .. n /\ y \in 1 .. n
    OBVIOUS
  <2>4. QED
    BY <2>2, <2>3
<1>5. \E x_1 \in s : \A y \in s : x_1 >= y
  BY <1>4
<1>6. Max(s) \in s /\ \A y \in s : Max(s) >= y
  BY <1>5, Zenon DEF Max
<1>7. \A y \in 1 .. n : y \in Int
  OBVIOUS
<1>8. Max(s) \in Int /\ \A y \in s : y \in Int
  BY <1>6, <1>7
<1> DEFINE m == Max(s)
<1>9. m \in s /\ m \in Int /\ \A y \in s : m >= y /\ y \in Int
  BY <1>6, <1>8
<1> HIDE DEF m
<1>10. \A y \in s : y <= m
  BY <1>9
<1>11. QED
  BY <1>9, <1>10 DEF m

LEMMA UptoMax ==
  ASSUME NEW k \in Nat, k # 0
  PROVE  Max(1 .. k) = k /\ (1 .. k) \ {k} = 1 .. (k - 1)
<1>1. 1 .. k \in SUBSET (1 .. k) /\ 1 .. k # {} /\ k \in 1 .. k
  OBVIOUS
<1>2. Max(1 .. k) \in 1 .. k /\ \A y \in 1 .. k : y <= Max(1 .. k)
  BY <1>1, MaxIsIn
<1>3. Max(1 .. k) = k
  BY <1>1, <1>2
<1>4. QED
  BY <1>3

LEMMA CountingUp ==
  ASSUME NEW T, NEW n \in Nat, 0 \in T, \A k \in Nat : k < n /\ k \in T => k + 1 \in T
  PROVE  0 .. n \subseteq T
<1> DEFINE own == [k \in Nat |-> k]
           Good == {k \in Nat : k <= n => k \in T}
<1>1. ASSUME NEW k \in Nat, \A j \in Nat : own[j] < own[k] => j \in Good PROVE k \in Good
  <2>1. CASE k = 0
    BY <2>1
  <2>2. CASE k # 0 /\ k <= n
    <3>1. k - 1 \in Nat /\ own[k - 1] < own[k] /\ k - 1 < n /\ k - 1 <= n /\ (k - 1) + 1 = k
      BY <2>2
    <3>2. k - 1 \in T
      BY <1>1, <3>1
    <3>3. QED
      BY <3>1, <3>2
  <2>3. QED
    BY <2>1, <2>2
<1>2. own \in [Nat -> Nat]
  OBVIOUS
<1>3. \A s \in Nat : (\A t \in Nat : own[t] < own[s] => t \in Good) => s \in Good
  BY <1>1
<1> HIDE DEF own, Good
<1>4. Nat \subseteq Good
  BY <1>2, <1>3, RankInduction
<1>5. \A k \in 0 .. n : k \in Nat /\ k <= n
  OBVIOUS
<1>6. QED
  BY <1>4, <1>5 DEF Good

LEMMA Initial ==
  ASSUME NEW n \in Nat, NEW k \in 1 .. n
  PROVE  /\ k \in Nat /\ k # 0 /\ k - 1 \in 0 .. n /\ k \in 0 .. n
         /\ 1 .. k \in SUBSET (1 .. n) /\ 1 .. k # {}
<1>1. \A i \in 1 .. k : i \in 1 .. n
  OBVIOUS
<1>2. k \in 1 .. k
  OBVIOUS
<1>3. QED
  BY <1>1, <1>2

\* A fold over a sequence of n elements, on the sets of indices.
Folded(f, n, start, step) ==
  \A s \in SUBSET (1 .. n) : f[s] = IF s = {} THEN start ELSE step[<<Max(s), f[s \ {Max(s)}]>>]

LEMMA FoldExists ==
  ASSUME NEW n \in Nat, NEW V, NEW start \in V, NEW step \in [(1 .. n) \X V -> V]
  PROVE  \E f \in [SUBSET (1 .. n) -> V] : Folded(f, n, start, step)
<1> DEFINE D == SUBSET (1 .. n)
           rank == [s \in D |-> Cardinality(s)]
           next == [s \in D |-> s \ {Max(s)}]
           base == [s \in D |-> start]
           turn == [p \in D \X V |-> IF p[1] = {} THEN start ELSE step[<<Max(p[1]), p[2]>>]]
<1>0. IsFiniteSet(1 .. n)
  BY FS_Interval
<1>1. rank \in [D -> 0 .. Cardinality(1 .. n)] /\ Cardinality(1 .. n) \in Nat
  BY <1>0, SmallerSets
<1>2. next \in [D -> D] /\ base \in [D -> V]
  OBVIOUS
<1>3. \A s \in D : s # {} => Max(s) \in s
  BY MaxIsIn
<1>4. turn \in [D \X V -> V]
  <2>1. ASSUME NEW p \in D \X V, p[1] # {} PROVE step[<<Max(p[1]), p[2]>>] \in V
    <3>1. Max(p[1]) \in 1 .. n /\ p[2] \in V
      BY <1>3, <2>1
    <3>2. QED
      BY <3>1
  <2>2. QED
    BY <2>1
<1>5. \A s \in D \ {{}} : rank[next[s]] < rank[s]
  <2>1. \A S \in D : \A x \in S : Cardinality(S \ {x}) < Cardinality(S)
    BY <1>0, SmallerSets
  <2>2. QED
    BY <1>3, <2>1
<1>6. \A s \in D, v \in V : s # {} => turn[<<s, v>>] = step[<<Max(s), v>>] /\ next[s] = s \ {Max(s)}
  OBVIOUS
<1>7. \A s \in D : base[s] = start
  OBVIOUS
<1> HIDE DEF D, rank, next, base, turn
<1>8. PICK f \in [D -> V] : Recurs(f, D, {{}}, next, base, turn)
  BY <1>1, <1>2, <1>4, <1>5, RecursionExists
<1>9. \A s \in D : f[s] = IF s = {} THEN start ELSE step[<<Max(s), f[s \ {Max(s)}]>>]
  <2> SUFFICES ASSUME NEW s \in D
               PROVE  f[s] = IF s = {} THEN start ELSE step[<<Max(s), f[s \ {Max(s)}]>>]
    OBVIOUS
  <2>1. f[s] = IF s \in {{}} THEN base[s] ELSE turn[<<s, f[next[s]]>>]
    BY <1>8 DEF Recurs
  <2>2. f[next[s]] \in V
    BY <1>2
  <2>3. CASE s = {}
    BY <1>7, <2>1, <2>3
  <2>4. CASE s # {}
    <3>1. f[s] = turn[<<s, f[next[s]]>>]
      BY <2>1, <2>4
    <3>2. turn[<<s, f[next[s]]>>] = step[<<Max(s), f[next[s]]>>] /\ next[s] = s \ {Max(s)}
      BY <1>6, <2>2, <2>4
    <3>3. QED
      BY <2>4, <3>1, <3>2
  <2>5. QED
    BY <2>3, <2>4
<1>10. QED
  BY <1>8, <1>9 DEF D, Folded

Keeps(f, frames, interval, dedup, rate) ==
  f = [s \in SUBSET DOMAIN frames |->
         IF s = {} THEN << >>
         ELSE IF Retained(f[s \ {Max(s)}], frames[Max(s)], interval, dedup, rate)
              THEN Append(f[s \ {Max(s)}], frames[Max(s)]) ELSE f[s \ {Max(s)}]]

\* Samples, frame after frame.
EachFrame(kept, frames, interval, dedup, rate) ==
  /\ kept[0] = << >>
  /\ \A k \in 1 .. Len(frames) :
       kept[k] = IF Retained(kept[k - 1], frames[k], interval, dedup, rate)
                 THEN Append(kept[k - 1], frames[k]) ELSE kept[k - 1]
  /\ Samples(frames, interval, dedup, rate) = kept[Len(frames)]

LEMMA SamplesUnfolds ==
  ASSUME NEW F, NEW frames \in Seq(F), NEW interval, NEW dedup, NEW rate
  PROVE  \E kept \in [0 .. Len(frames) -> Seq(F)] : EachFrame(kept, frames, interval, dedup, rate)
<1> DEFINE n == Len(frames)
           V == Seq(F)
           c == CHOOSE f : Keeps(f, frames, interval, dedup, rate)
           step == [p \in (1 .. n) \X V |->
                      IF Retained(p[2], frames[p[1]], interval, dedup, rate)
                      THEN Append(p[2], frames[p[1]]) ELSE p[2]]
<1>1. n \in Nat /\ DOMAIN frames = 1 .. n /\ \A k \in 1 .. n : frames[k] \in F
  OBVIOUS
<1>2. Samples(frames, interval, dedup, rate) = c[DOMAIN frames]
  BY DEF Samples, FoldLeft, MapThenFoldSet, Keeps
<1>3. step \in [(1 .. n) \X V -> V] /\ << >> \in V
  <2>1. ASSUME NEW p \in (1 .. n) \X V PROVE Append(p[2], frames[p[1]]) \in V /\ p[2] \in V
    BY <1>1
  <2>2. QED
    BY <2>1
<1>4. \A k \in 1 .. n, v \in V :
        step[<<k, v>>] = IF Retained(v, frames[k], interval, dedup, rate) THEN Append(v, frames[k]) ELSE v
  OBVIOUS
<1> HIDE DEF n, V, step, c
<1>5. PICK f \in [SUBSET (1 .. n) -> V] : Folded(f, n, << >>, step)
  <2>1. n \in Nat
    BY <1>1
  <2>2. QED
    BY <1>3, <2>1, FoldExists
<1>6. ASSUME NEW s \in SUBSET (1 .. n), s # {}
      PROVE  Max(s) \in 1 .. n /\ s \ {Max(s)} \in SUBSET (1 .. n)
  BY <1>1, <1>6, MaxIsIn
<1>7. Keeps(f, frames, interval, dedup, rate)
  <2>1. \A s \in SUBSET (1 .. n) :
          f[s] = IF s = {} THEN << >>
                 ELSE IF Retained(f[s \ {Max(s)}], frames[Max(s)], interval, dedup, rate)
                      THEN Append(f[s \ {Max(s)}], frames[Max(s)]) ELSE f[s \ {Max(s)}]
    BY <1>4, <1>5, <1>6 DEF Folded
  <2>2. QED
    BY <1>1, <2>1 DEF Keeps
<1>8. Keeps(c, frames, interval, dedup, rate)
  BY <1>7 DEF c
<1>9. \A s \in SUBSET (1 .. n) :
        c[s] = IF s = {} THEN << >>
               ELSE IF Retained(c[s \ {Max(s)}], frames[Max(s)], interval, dedup, rate)
                    THEN Append(c[s \ {Max(s)}], frames[Max(s)]) ELSE c[s \ {Max(s)}]
  BY <1>1, <1>8 DEF Keeps
<1> DEFINE kept == [k \in 0 .. n |-> c[1 .. k]]
<1>10. kept[0] = << >>
  <2>1. 1 .. 0 = {} /\ {} \in SUBSET (1 .. n) /\ 0 \in 0 .. n
    BY <1>1
  <2>2. QED
    BY <1>9, <2>1
<1>11. ASSUME NEW k \in 1 .. n
       PROVE  kept[k] = IF Retained(kept[k - 1], frames[k], interval, dedup, rate)
                        THEN Append(kept[k - 1], frames[k]) ELSE kept[k - 1]
  <2>1. 1 .. k \in SUBSET (1 .. n) /\ 1 .. k # {} /\ k - 1 \in 0 .. n /\ k \in 0 .. n
    BY <1>1, Initial
  <2>2. Max(1 .. k) = k /\ (1 .. k) \ {k} = 1 .. (k - 1)
    BY <1>1, UptoMax
  <2>3. QED
    BY <1>9, <2>1, <2>2
<1>12. kept[n] = Samples(frames, interval, dedup, rate)
  BY <1>1, <1>2
<1> DEFINE Good == {k \in 0 .. n : kept[k] \in V}
<1>13. \A k \in 0 .. n : kept[k] \in V
  <2>1. 0 \in Good
    BY <1>1, <1>3, <1>10
  <2>2. ASSUME NEW k \in Nat, k < n, k \in Good PROVE k + 1 \in Good
    <3>1. k + 1 \in 1 .. n /\ (k + 1) - 1 = k /\ k + 1 \in 0 .. n
      BY <1>1, <2>2
    <3>2. kept[k] \in V /\ frames[k + 1] \in F
      BY <1>1, <2>2, <3>1
    <3>3. Append(kept[k], frames[k + 1]) \in V
      BY <3>2 DEF V
    <3>4. QED
      BY <1>11, <3>1, <3>2, <3>3
  <2> HIDE DEF Good
  <2>3. 0 .. n \subseteq Good
    BY <1>1, <2>1, <2>2, CountingUp
  <2>4. QED
    BY <2>3 DEF Good
<1>14. kept \in [0 .. n -> V]
  BY <1>13
<1> HIDE DEF kept
<1>15. QED
  BY <1>10, <1>11, <1>12, <1>14 DEF n, V, EachFrame

Tells(f, samples) ==
  f = [s \in SUBSET DOMAIN samples |->
         IF s = {} THEN << >>
         ELSE IF f[s \ {Max(s)}] # << >> /\ Last(f[s \ {Max(s)}]) = samples[Max(s)].at
              THEN f[s \ {Max(s)}] ELSE Append(f[s \ {Max(s)}], samples[Max(s)].at)]

\* Reported, sample after sample.
LEMMA ReportedUnfolds ==
  ASSUME NEW F, NEW samples \in Seq(F), \A x \in F : x.at \in Nat
  PROVE  \E told \in [0 .. Len(samples) -> Seq(Nat)] :
           /\ told[0] = << >>
           /\ \A k \in 1 .. Len(samples) :
                told[k] = IF told[k - 1] # << >> /\ Last(told[k - 1]) = samples[k].at
                          THEN told[k - 1] ELSE Append(told[k - 1], samples[k].at)
           /\ Reported(samples) = told[Len(samples)]
<1> DEFINE n == Len(samples)
           V == Seq(Nat)
           c == CHOOSE f : Tells(f, samples)
           step == [p \in (1 .. n) \X V |->
                      IF p[2] # << >> /\ Last(p[2]) = samples[p[1]].at
                      THEN p[2] ELSE Append(p[2], samples[p[1]].at)]
<1>1. n \in Nat /\ DOMAIN samples = 1 .. n /\ \A k \in 1 .. n : samples[k].at \in Nat
  OBVIOUS
<1>2. Reported(samples) = c[DOMAIN samples]
  BY DEF Reported, FoldLeft, MapThenFoldSet, Tells
<1>3. step \in [(1 .. n) \X V -> V] /\ << >> \in V
  <2>1. ASSUME NEW p \in (1 .. n) \X V PROVE Append(p[2], samples[p[1]].at) \in V /\ p[2] \in V
    BY <1>1
  <2>2. QED
    BY <2>1
<1>4. \A k \in 1 .. n, v \in V :
        step[<<k, v>>] = IF v # << >> /\ Last(v) = samples[k].at THEN v ELSE Append(v, samples[k].at)
  OBVIOUS
<1> HIDE DEF n, V, step, c
<1>5. PICK f \in [SUBSET (1 .. n) -> V] : Folded(f, n, << >>, step)
  <2>1. n \in Nat
    BY <1>1
  <2>2. QED
    BY <1>3, <2>1, FoldExists
<1>6. ASSUME NEW s \in SUBSET (1 .. n), s # {}
      PROVE  Max(s) \in 1 .. n /\ s \ {Max(s)} \in SUBSET (1 .. n)
  BY <1>1, <1>6, MaxIsIn
<1>7. Tells(f, samples)
  <2>1. \A s \in SUBSET (1 .. n) :
          f[s] = IF s = {} THEN << >>
                 ELSE IF f[s \ {Max(s)}] # << >> /\ Last(f[s \ {Max(s)}]) = samples[Max(s)].at
                      THEN f[s \ {Max(s)}] ELSE Append(f[s \ {Max(s)}], samples[Max(s)].at)
    BY <1>4, <1>5, <1>6 DEF Folded
  <2>2. QED
    BY <1>1, <2>1 DEF Tells
<1>8. Tells(c, samples)
  BY <1>7 DEF c
<1>9. \A s \in SUBSET (1 .. n) :
        c[s] = IF s = {} THEN << >>
               ELSE IF c[s \ {Max(s)}] # << >> /\ Last(c[s \ {Max(s)}]) = samples[Max(s)].at
                    THEN c[s \ {Max(s)}] ELSE Append(c[s \ {Max(s)}], samples[Max(s)].at)
  BY <1>1, <1>8 DEF Tells
<1> DEFINE told == [k \in 0 .. n |-> c[1 .. k]]
<1>10. told[0] = << >>
  <2>1. 1 .. 0 = {} /\ {} \in SUBSET (1 .. n) /\ 0 \in 0 .. n
    BY <1>1
  <2>2. QED
    BY <1>9, <2>1
<1>11. ASSUME NEW k \in 1 .. n
       PROVE  told[k] = IF told[k - 1] # << >> /\ Last(told[k - 1]) = samples[k].at
                        THEN told[k - 1] ELSE Append(told[k - 1], samples[k].at)
  <2>1. 1 .. k \in SUBSET (1 .. n) /\ 1 .. k # {} /\ k - 1 \in 0 .. n /\ k \in 0 .. n
    BY <1>1, Initial
  <2>2. Max(1 .. k) = k /\ (1 .. k) \ {k} = 1 .. (k - 1)
    BY <1>1, UptoMax
  <2>3. QED
    BY <1>9, <2>1, <2>2
<1>12. told[n] = Reported(samples)
  BY <1>1, <1>2
<1> DEFINE Good == {k \in 0 .. n : told[k] \in V}
<1>13. \A k \in 0 .. n : told[k] \in V
  <2>1. 0 \in Good
    BY <1>1, <1>3, <1>10
  <2>2. ASSUME NEW k \in Nat, k < n, k \in Good PROVE k + 1 \in Good
    <3>1. k + 1 \in 1 .. n /\ (k + 1) - 1 = k /\ k + 1 \in 0 .. n
      BY <1>1, <2>2
    <3>2. told[k] \in V /\ samples[k + 1].at \in Nat
      BY <1>1, <2>2, <3>1
    <3>3. Append(told[k], samples[k + 1].at) \in V
      BY <3>2 DEF V
    <3>4. QED
      BY <1>11, <3>1, <3>2, <3>3
  <2> HIDE DEF Good
  <2>3. 0 .. n \subseteq Good
    BY <1>1, <2>1, <2>2, CountingUp
  <2>4. QED
    BY <2>3 DEF Good
<1>14. told \in [0 .. n -> V]
  BY <1>13
<1> HIDE DEF told
<1>15. QED
  BY <1>10, <1>11, <1>12, <1>14 DEF n, V

\* Frames in order, as IsRecording has them.
InOrder(frames) ==
  /\ frames \in Seq(Range(frames))
  /\ \A f \in Range(frames) : f.at \in Nat
  /\ \A i, j \in DOMAIN frames : i < j => frames[i].at < frames[j].at

KeptUpto(kept, frames, k) ==
  /\ kept \in Seq(Range(frames))
  /\ \A i, j \in DOMAIN kept : i < j => kept[i].at < kept[j].at
  /\ k > 0 => kept # << >> /\ kept[1] = frames[1] /\ \A i \in DOMAIN kept : kept[i].at <= frames[k].at

LEMMA SamplesAreFrames ==
  ASSUME NEW frames, InOrder(frames), NEW interval \in Nat, NEW dedup \in Nat, NEW rate \in Nat
  PROVE  \E kept \in [0 .. Len(frames) -> Seq(Range(frames))] :
           /\ EachFrame(kept, frames, interval, dedup, rate)
           /\ \A k \in 0 .. Len(frames) : KeptUpto(kept[k], frames, k)
<1> DEFINE F == Range(frames)
           n == Len(frames)
<1>1. frames \in Seq(F) /\ n \in Nat /\ DOMAIN frames = 1 .. n
  BY DEF InOrder
<1>2. \A k \in 1 .. n : frames[k] \in F
  BY <1>1
<1>3. \A f \in F : f.at \in Nat
  BY DEF InOrder
<1> HIDE DEF F
<1>0. PICK kept \in [0 .. n -> Seq(F)] : EachFrame(kept, frames, interval, dedup, rate)
  BY <1>1, SamplesUnfolds
<1>4. /\ kept \in [0 .. n -> Seq(F)]
      /\ kept[0] = << >>
      /\ \A k \in 1 .. n :
           kept[k] = IF Retained(kept[k - 1], frames[k], interval, dedup, rate)
                     THEN Append(kept[k - 1], frames[k]) ELSE kept[k - 1]
      /\ Samples(frames, interval, dedup, rate) = kept[n]
  BY <1>0 DEF EachFrame
<1> DEFINE Good == {k \in 0 .. n : KeptUpto(kept[k], frames, k)}
<1>5. 0 \in Good
  BY <1>1, <1>4 DEF KeptUpto, F
<1>6. ASSUME NEW k \in Nat, k < n, k \in Good PROVE k + 1 \in Good
  <2> DEFINE s == kept[k]
             f == frames[k + 1]
  <2>1. k + 1 \in 1 .. n /\ (k + 1) - 1 = k /\ k + 1 \in 0 .. n /\ k \in 0 .. n
    BY <1>1, <1>6
  <2>2. s \in Seq(F) /\ f \in F /\ f.at \in Nat /\ \A i \in DOMAIN s : s[i].at \in Nat
    BY <1>2, <1>3, <1>4, <2>1
  <2>3. KeptUpto(s, frames, k)
    BY <1>6
  <2>4. kept[k + 1] = IF Retained(s, f, interval, dedup, rate) THEN Append(s, f) ELSE s
    BY <1>4, <2>1
  <2>5. \A i \in DOMAIN s : s[i].at < f.at
    <3>1. CASE k = 0
      BY <1>4, <3>1
    <3>2. CASE k # 0
      <4>1. k \in DOMAIN frames /\ k + 1 \in DOMAIN frames /\ k > 0 /\ k < k + 1
        BY <1>1, <2>1, <3>2
      <4>2. frames[k].at < f.at /\ frames[k].at \in Nat
        BY <1>1, <1>2, <1>3, <4>1 DEF InOrder
      <4>3. \A i \in DOMAIN s : s[i].at <= frames[k].at
        BY <2>3, <4>1 DEF KeptUpto
      <4> HIDE DEF s, f
      <4>4. QED
        BY <2>2, <4>2, <4>3
    <3>3. QED
      BY <3>1, <3>2
  <2>6. k = 0 => s = << >> /\ f = frames[1]
    BY <1>4
  <2>7. k > 0 => s # << >> /\ s[1] = frames[1]
    BY <2>3 DEF KeptUpto
  <2> HIDE DEF s, f
  <2>8. CASE Retained(s, f, interval, dedup, rate)
    <3> DEFINE t == Append(s, f)
    <3>1. t \in Seq(F) /\ Len(t) = Len(s) + 1 /\ DOMAIN t = 1 .. (Len(s) + 1) /\ Len(s) \in Nat
      BY <2>2
    <3>2. DOMAIN s = 1 .. Len(s) /\ t[Len(s) + 1] = f /\ \A i \in 1 .. Len(s) : t[i] = s[i]
      BY <2>2
    <3>3. \A i, j \in DOMAIN t : i < j => t[i].at < t[j].at
      <4> SUFFICES ASSUME NEW i \in DOMAIN t, NEW j \in DOMAIN t, i < j PROVE t[i].at < t[j].at
        OBVIOUS
      <4>1. i \in DOMAIN s /\ t[i] = s[i]
        BY <3>1, <3>2
      <4>2. CASE j \in DOMAIN s
        BY <2>3, <3>2, <4>1, <4>2 DEF KeptUpto
      <4>3. CASE j \notin DOMAIN s
        <5>1. j = Len(s) + 1
          BY <3>1, <3>2, <4>3
        <5>2. QED
          BY <2>5, <3>2, <4>1, <5>1
      <4>4. QED
        BY <4>2, <4>3
    <3>4. t # << >> /\ \A i \in DOMAIN t : t[i].at <= f.at
      <4>1. \A i \in DOMAIN t : i \in DOMAIN s \/ i = Len(s) + 1
        BY <3>1, <3>2
      <4>2. \A i \in DOMAIN s : t[i].at <= f.at
        BY <2>2, <2>5, <3>2
      <4>3. f.at <= f.at
        BY <2>2
      <4>4. QED
        BY <3>1, <3>2, <4>1, <4>2, <4>3
    <3>5. t[1] = frames[1]
      <4>1. CASE k = 0
        BY <2>6, <4>1
      <4>2. CASE k # 0
        <5>1. s # << >> /\ s[1] = frames[1]
          BY <2>7, <4>2
        <5>2. 1 \in 1 .. Len(s)
          BY <2>2, <5>1
        <5>3. QED
          BY <3>2, <5>1, <5>2
      <4>3. QED
        BY <4>1, <4>2
    <3>6. KeptUpto(t, frames, k + 1)
      BY <3>1, <3>3, <3>4, <3>5 DEF KeptUpto, F, f
    <3>7. QED
      BY <2>1, <2>4, <2>8, <3>6
  <2>9. CASE ~Retained(s, f, interval, dedup, rate)
    <3>1. s # << >> /\ k > 0
      BY <2>6, <2>9 DEF Retained
    <3>2. \A i \in DOMAIN s : s[i].at <= f.at
      BY <2>2, <2>5
    <3>3. KeptUpto(s, frames, k + 1)
      BY <2>3, <2>7, <3>1, <3>2 DEF KeptUpto, f
    <3>4. QED
      BY <2>1, <2>4, <2>9, <3>3
  <2>10. QED
    BY <2>8, <2>9
<1> HIDE DEF Good
<1>7. 0 .. n \subseteq Good
  BY <1>1, <1>5, <1>6, CountingUp
<1>8. QED
  BY <1>0, <1>7 DEF Good, F

\* Every sample opens a scene at its own time.
LEMMA ReportedIsEachTime ==
  ASSUME NEW F, NEW samples \in Seq(F), \A x \in F : x.at \in Nat,
         \A i, j \in DOMAIN samples : i < j => samples[i].at < samples[j].at
  PROVE  Reported(samples) = [i \in 1 .. Len(samples) |-> samples[i].at]
<1> DEFINE n == Len(samples)
           Times(k) == [i \in 1 .. k |-> samples[i].at]
<1>1. n \in Nat /\ DOMAIN samples = 1 .. n /\ \A k \in 1 .. n : samples[k].at \in Nat
  OBVIOUS
<1>2. PICK told \in [0 .. n -> Seq(Nat)] :
        /\ told[0] = << >>
        /\ \A k \in 1 .. n :
             told[k] = IF told[k - 1] # << >> /\ Last(told[k - 1]) = samples[k].at
                       THEN told[k - 1] ELSE Append(told[k - 1], samples[k].at)
        /\ Reported(samples) = told[n]
  BY ReportedUnfolds
<1> DEFINE Good == {k \in 0 .. n : told[k] = Times(k)}
<1>3. 0 \in Good
  BY <1>1, <1>2
<1>4. ASSUME NEW k \in Nat, k < n, k \in Good PROVE k + 1 \in Good
  <2>1. k + 1 \in 1 .. n /\ (k + 1) - 1 = k /\ k + 1 \in 0 .. n
    BY <1>1, <1>4
  <2>2. told[k] = Times(k)
    BY <1>4
  <2>3. told[k] # << >> => Last(told[k]) # samples[k + 1].at
    <3> SUFFICES ASSUME told[k] # << >> PROVE Last(told[k]) # samples[k + 1].at
      OBVIOUS
    <3>1. k # 0
      BY <1>2
    <3>2. Len(Times(k)) = k
      BY <2>1
    <3>3. k \in 1 .. n /\ k \in 1 .. k
      BY <2>1, <3>1
    <3>4. Last(told[k]) = samples[k].at
      BY <2>2, <3>2, <3>3 DEF Last
    <3>5. samples[k].at < samples[k + 1].at /\ samples[k].at \in Nat /\ samples[k + 1].at \in Nat
      <4>1. k \in DOMAIN samples /\ k + 1 \in DOMAIN samples /\ k < k + 1
        BY <1>1, <2>1, <3>3
      <4>2. QED
        BY <1>1, <2>1, <3>3, <4>1
    <3>6. QED
      BY <3>4, <3>5
  <2>4. told[k + 1] = Append(Times(k), samples[k + 1].at)
    BY <1>2, <2>1, <2>2, <2>3
  <2>5. Append(Times(k), samples[k + 1].at) = Times(k + 1)
    <3>1. \A i \in 1 .. k : samples[i].at \in Nat
      BY <1>1, <2>1
    <3>2. Times(k) \in Seq(Nat) /\ Len(Times(k)) = k
      BY <3>1
    <3>3. DOMAIN Append(Times(k), samples[k + 1].at) = 1 .. (k + 1)
      BY <3>2
    <3>4. QED
      BY <3>2, <3>3
  <2>6. QED
    BY <2>1, <2>4, <2>5
<1> HIDE DEF Good
<1>5. 0 .. n \subseteq Good
  BY <1>1, <1>3, <1>4, CountingUp
<1>6. n \in Good
  BY <1>1, <1>5
<1>7. QED
  BY <1>2, <1>6 DEF Good

\* No two samples of a steady stream are further apart than was asked for.
LEMMA SteadySamples ==
  ASSUME NEW frames, InOrder(frames), frames # << >>,
         NEW interval \in Nat \ {0}, NEW dedup \in Nat, NEW rate \in Nat \ {0},
         \A i \in 2 .. Len(frames) : frames[i].at = frames[i - 1].at + rate,
         NEW M \in Nat, interval <= M, rate <= M
  PROVE  LET samples == Samples(frames, interval, dedup, rate)
         IN /\ \A i \in 2 .. Len(samples) : samples[i].at - samples[i - 1].at <= M
            /\ frames[Len(frames)].at + rate - samples[Len(samples)].at <= M
<1> DEFINE F == Range(frames)
           n == Len(frames)
<1>1. frames \in Seq(F) /\ n \in Nat /\ n # 0 /\ DOMAIN frames = 1 .. n
  BY DEF InOrder
<1>2. \A k \in 1 .. n : frames[k] \in F /\ frames[k].at \in Nat
  BY <1>1 DEF InOrder
<1>3. \A f \in F : f.at \in Nat
  BY DEF InOrder
<1>4. PICK kept \in [0 .. n -> Seq(F)] :
        /\ EachFrame(kept, frames, interval, dedup, rate)
        /\ \A k \in 0 .. n : KeptUpto(kept[k], frames, k)
  BY SamplesAreFrames
<1> HIDE DEF F
<1> DEFINE Close(k) ==
             k > 0 => /\ \A i \in 2 .. Len(kept[k]) : kept[k][i].at - kept[k][i - 1].at <= M
                      /\ frames[k].at + rate - Last(kept[k]).at <= M
           Good == {k \in 0 .. n : Close(k)}
<1>5. 0 \in Good
  BY <1>1
<1>6. ASSUME NEW k \in Nat, k < n, k \in Good PROVE k + 1 \in Good
  <2> DEFINE s == kept[k]
             f == frames[k + 1]
  <2>1. k + 1 \in 1 .. n /\ (k + 1) - 1 = k /\ k + 1 \in 0 .. n /\ k \in 0 .. n
    BY <1>1, <1>6
  <2>2. s \in Seq(F) /\ f \in F /\ f.at \in Nat /\ \A i \in DOMAIN s : s[i].at \in Nat
    BY <1>2, <1>3, <1>4, <2>1
  <2>3. kept[k + 1] = IF Retained(s, f, interval, dedup, rate) THEN Append(s, f) ELSE s
    BY <1>4, <2>1 DEF EachFrame
  <2>4. CASE k = 0
    <3>1. s = << >>
      BY <1>4, <2>4 DEF EachFrame
    <3>2. kept[k + 1] = <<f>>
      BY <2>2, <2>3, <3>1 DEF Retained
    <3>3. Len(kept[k + 1]) = 1 /\ Last(kept[k + 1]) = f
      BY <3>2 DEF Last
    <3>4. f.at + rate - f.at <= M
      <4> HIDE DEF f
      <4>1. QED
        BY <2>2
    <3>5. Close(k + 1)
      BY <3>3, <3>4
    <3>6. QED
      BY <2>1, <3>5
  <2>5. CASE k # 0
    <3>1. k \in 1 .. n /\ k > 0 /\ k + 1 \in 2 .. n
      BY <2>1, <2>5
    <3>2. KeptUpto(s, frames, k) /\ s # << >>
      BY <1>4, <2>1, <3>1 DEF KeptUpto
    <3> DEFINE l == Last(s).at
               a == frames[k].at
    <3>3. Len(s) \in DOMAIN s /\ Last(s) = s[Len(s)]
      BY <2>2, <3>2 DEF Last
    <3>4. l \in Nat /\ l <= a /\ a \in Nat
      BY <1>2, <2>2, <3>1, <3>2, <3>3 DEF KeptUpto
    <3>5. f.at = a + rate
      BY <2>1, <3>1
    <3>6. a + rate - l <= M /\ \A i \in 2 .. Len(s) : s[i].at - s[i - 1].at <= M
      BY <1>6, <3>1
    <3>7. CASE Retained(s, f, interval, dedup, rate)
      <4> DEFINE t == Append(s, f)
      <4>1. Len(t) = Len(s) + 1 /\ Len(s) \in Nat /\ Last(t) = f
        BY <2>2 DEF Last
      <4>2. t[Len(s) + 1] = f /\ \A i \in 1 .. Len(s) : t[i] = s[i]
        BY <2>2
      <4>3. \A i \in 2 .. Len(t) : t[i].at - t[i - 1].at <= M
        <5> SUFFICES ASSUME NEW i \in 2 .. Len(t) PROVE t[i].at - t[i - 1].at <= M
          OBVIOUS
        <5>1. CASE i = Len(s) + 1
          <6>1. i - 1 = Len(s) /\ Len(s) \in 1 .. Len(s)
            BY <4>1, <5>1
          <6>2. t[i].at = f.at /\ t[i - 1].at = l
            BY <3>3, <4>2, <5>1, <6>1
          <6> HIDE DEF t, f, l, a
          <6>3. QED
            BY <3>4, <3>5, <3>6, <6>2
        <5>2. CASE i # Len(s) + 1
          <6>1. i \in 2 .. Len(s) /\ i - 1 \in 1 .. Len(s) /\ i \in 1 .. Len(s)
            BY <4>1, <5>2
          <6>2. QED
            BY <3>6, <4>2, <6>1
        <5>3. QED
          BY <5>1, <5>2
      <4>4. f.at + rate - f.at <= M
        <5> HIDE DEF f
        <5>1. QED
          BY <2>2
      <4>5. kept[k + 1] = t
        BY <2>3, <3>7
      <4>6. Close(k + 1)
        BY <4>1, <4>3, <4>4, <4>5
      <4>7. QED
        BY <2>1, <4>6
    <3>8. CASE ~Retained(s, f, interval, dedup, rate)
      <4>1. ~(f.at - l >= TriggerGap(interval, rate))
        BY <3>8 DEF Retained
      <4>2. f.at + rate - l <= M
        <5> HIDE DEF f, l, a
        <5>1. CASE interval > rate
          <6>1. TriggerGap(interval, rate) = interval - rate
            BY <5>1 DEF TriggerGap
          <6>2. QED
            BY <2>2, <3>4, <3>5, <4>1, <6>1
        <5>2. CASE ~(interval > rate)
          <6>1. TriggerGap(interval, rate) = 1
            BY <5>2 DEF TriggerGap
          <6>2. QED
            BY <2>2, <3>4, <3>5, <4>1, <6>1
        <5>3. QED
          BY <5>1, <5>2
      <4>3. kept[k + 1] = s
        BY <2>3, <3>8
      <4>4. Close(k + 1)
        BY <3>6, <4>2, <4>3
      <4>5. QED
        BY <2>1, <4>4
    <3>9. QED
      BY <3>7, <3>8
  <2>6. QED
    BY <2>4, <2>5
<1> HIDE DEF Good
<1>7. 0 .. n \subseteq Good
  BY <1>1, <1>5, <1>6, CountingUp
<1>8. Close(n)
  BY <1>1, <1>7 DEF Good
<1>9. Samples(frames, interval, dedup, rate) = kept[n]
  BY <1>4 DEF EachFrame
<1>10. Last(kept[n]) = kept[n][Len(kept[n])]
  BY DEF Last
<1>11. QED
  BY <1>1, <1>8, <1>9, <1>10

\* The times a scene opens at, and that it lasts until the next.
LEMMA ScenesDivide ==
  ASSUME NEW times \in Seq(Nat), times # << >>, times[1] = 0, NEW end \in Nat,
         \A i \in DOMAIN times : times[i] < end,
         \A i, j \in DOMAIN times : i < j => times[i] < times[j]
  PROVE  /\ \A t \in 0 .. (end - 1) :
              Cardinality({s \in ScenesOf(times, end) : s.from <= t /\ t < s.to}) = 1
         /\ Max({s.to : s \in ScenesOf(times, end)}) = end
<1> DEFINE m == Len(times)
           Until(n) == IF n < m THEN times[n + 1] ELSE end
           Scene(n) == [n |-> n, from |-> times[n], to |-> Until(n)]
           scenes == ScenesOf(times, end)
<1>1. m \in Nat /\ m # 0 /\ DOMAIN times = 1 .. m /\ 1 \in 1 .. m /\ m \in 1 .. m
  OBVIOUS
<1>2. \A n \in 1 .. m : times[n] \in Nat /\ Until(n) \in Nat /\ times[n] < Until(n) /\ Until(n) <= end
  <2> SUFFICES ASSUME NEW n \in 1 .. m
               PROVE times[n] \in Nat /\ Until(n) \in Nat /\ times[n] < Until(n) /\ Until(n) <= end
    OBVIOUS
  <2>1. times[n] \in Nat /\ times[n] < end
    BY <1>1
  <2>2. CASE n < m
    <3>1. n + 1 \in 1 .. m /\ n < n + 1
      BY <1>1, <2>2
    <3>2. times[n + 1] \in Nat /\ times[n + 1] < end /\ times[n] < times[n + 1]
      BY <1>1, <3>1
    <3>3. QED
      BY <2>1, <2>2, <3>2
  <2>3. QED
    BY <2>1, <2>2
<1>3. \A s : s \in scenes <=> \E n \in 1 .. m : s = Scene(n)
  BY <1>1, <1>2 DEF ScenesOf
<1>4. \A n \in 1 .. m : Scene(n).from = times[n] /\ Scene(n).to = Until(n)
  OBVIOUS
<1> HIDE DEF scenes, Scene, Until
<1>5. ASSUME NEW t \in 0 .. (end - 1)
      PROVE  Cardinality({s \in scenes : s.from <= t /\ t < s.to}) = 1
  <2> DEFINE begun == {n \in 1 .. m : times[n] <= t}
  <2>1. begun \in SUBSET (1 .. m) /\ 1 \in begun
    BY <1>1
  <2>2. PICK k \in begun : \A n \in begun : n <= k
    BY <1>1, <2>1, MaxIsIn
  <2>3. k \in 1 .. m /\ times[k] <= t
    OBVIOUS
  <2>4. t < Until(k)
    <3>1. CASE k < m
      <4>1. k + 1 \in 1 .. m /\ ~(k + 1 <= k)
        BY <1>1, <2>3, <3>1
      <4>2. ~(times[k + 1] <= t)
        BY <2>2, <4>1
      <4>3. times[k + 1] \in Nat
        BY <4>1
      <4>4. QED
        BY <3>1, <4>2, <4>3 DEF Until
    <3>2. QED
      BY <3>1 DEF Until
  <2>5. ASSUME NEW n \in 1 .. m, times[n] <= t, t < Until(n) PROVE n = k
    <3>1. n <= k
      BY <2>2, <2>5
    <3>2. CASE n < k
      <4>1. n < m /\ n + 1 \in 1 .. m
        BY <1>1, <2>3, <3>2
      <4>2. times[n + 1] <= times[k]
        <5>1. CASE n + 1 = k
          BY <2>3, <5>1
        <5>2. CASE n + 1 < k
          BY <1>1, <2>3, <4>1, <5>2
        <5>3. QED
          BY <2>3, <3>2, <5>1, <5>2
      <4>3. Until(n) = times[n + 1]
        BY <4>1 DEF Until
      <4>4. times[n + 1] \in Nat /\ times[k] \in Nat
        BY <2>3, <4>1
      <4>5. QED
        BY <2>3, <2>5, <4>2, <4>3, <4>4
    <3>3. QED
      BY <2>3, <3>1, <3>2
  <2>6. {s \in scenes : s.from <= t /\ t < s.to} = {Scene(k)}
    <3>1. Scene(k) \in scenes /\ Scene(k).from <= t /\ t < Scene(k).to
      BY <1>3, <1>4, <2>3, <2>4
    <3>2. ASSUME NEW s \in scenes, s.from <= t, t < s.to PROVE s = Scene(k)
      <4>1. PICK n \in 1 .. m : s = Scene(n)
        BY <1>3
      <4>2. n = k
        BY <1>4, <2>5, <3>2, <4>1
      <4>3. QED
        BY <4>1, <4>2
    <3>3. QED
      BY <3>1, <3>2
  <2>7. QED
    BY <2>6, FS_Singleton
<1>6. Max({s.to : s \in scenes}) = end
  <2> DEFINE ends == {s.to : s \in scenes}
  <2>1. end \in ends
    <3>1. Scene(m) \in scenes /\ Scene(m).to = Until(m)
      BY <1>1, <1>3, <1>4
    <3>2. Until(m) = end
      BY <1>1 DEF Until
    <3>3. QED
      BY <3>1, <3>2
  <2>2. \A e \in ends : e \in Nat /\ e <= end
    BY <1>2, <1>3, <1>4
  <2> HIDE DEF ends
  <2>3. \E e \in ends : \A f \in ends : e >= f
    BY <2>1, <2>2
  <2>4. Max(ends) \in ends /\ \A f \in ends : Max(ends) >= f
    BY <2>3, Zenon DEF Max
  <2> DEFINE M == Max(ends)
  <2>5. M \in Nat /\ M <= end /\ M >= end
    BY <2>1, <2>2, <2>4
  <2> HIDE DEF M
  <2>6. M = end
    BY <2>5
  <2>7. QED
    BY <2>6 DEF M, ends
<1>7. QED
  BY <1>5, <1>6 DEF scenes

----------------------------------------------------------------------------
(* One intake job.                                                          *)

LEMMA SmallestOf ==
  ASSUME NEW S \in SUBSET Nat, S # {}
  PROVE  Min(S) \in S /\ \A y \in S : Min(S) <= y
<1>1. \E x \in S : \A y \in S : x <= y
  BY LeastNatural
<1>2. QED
  BY <1>1, Zenon DEF Min

LEMMA DecodableEndIsTold ==
  ASSUME NEW r, IsRecording(r)
  PROVE  LET end == DecodableEnd(r.claimed, r.stream)
         IN end \in Nat /\ end <= r.claimed /\ \A e \in r.stream : end <= e
<1>1. {r.claimed} \cup r.stream \in SUBSET Nat
  BY DEF IsRecording
<1>2. QED
  BY <1>1, SmallestOf DEF DecodableEnd

LEMMA LargerOfTwo ==
  ASSUME NEW a \in Nat, NEW b \in Nat
  PROVE  Max({a, b}) \in Nat /\ a <= Max({a, b}) /\ b <= Max({a, b})
<1>1. \E x \in {a, b} : \A y \in {a, b} : x >= y
  OBVIOUS
<1>2. Max({a, b}) \in {a, b} /\ \A y \in {a, b} : Max({a, b}) >= y
  BY <1>1, Zenon DEF Max
<1> DEFINE M == Max({a, b})
<1>3. M \in {a, b} /\ M >= a /\ M >= b
  BY <1>2
<1> HIDE DEF M
<1>4. M \in Nat /\ a <= M /\ b <= M
  BY <1>3
<1>5. QED
  BY <1>4 DEF M

\* What EveryMomentIsIndexed says of one result.
Divides(scenes, gaps, r, interval) ==
  LET end == DecodableEnd(r.claimed, r.stream)
  IN /\ \A t \in 0..(end - 1) : Cardinality({s \in scenes : s.from <= t /\ t < s.to}) = 1
     /\ \A g \in gaps : Max({s.to : s \in scenes}) = g.from
     /\ Steady(r) /\ interval > 0 => \A s \in scenes : s.to - s.from <= Max({interval, r.rate})

\* The scenes cut from a recording read from one end to the other.
LEMMA CutDivides ==
  ASSUME NEW r, IsRecording(r), NEW interval \in Nat, NEW dedup \in Nat, NEW gap \in Nat,
         Reported(Samples(r.frames, interval, dedup, r.rate)) # << >>
  PROVE  LET samples == Samples(r.frames, interval, dedup, r.rate)
             end == DecodableEnd(r.claimed, r.stream)
             scenes == ScenesOf(Reported(samples), end)
         IN /\ samples \in Seq(Range(r.frames))
            /\ \A s \in scenes : s.n \in DOMAIN samples /\ s.from = samples[s.n].at
            /\ Divides(scenes, Dropout(end, r.claimed, gap), r, interval)
<1> DEFINE frames == r.frames
           samples == Samples(frames, interval, dedup, r.rate)
           times == Reported(samples)
           end == DecodableEnd(r.claimed, r.stream)
           scenes == ScenesOf(times, end)
<1>1. InOrder(frames) /\ r.rate \in Nat /\ r.claimed \in Nat /\ end \in Nat
  <2>1. end \in Nat
    BY DecodableEndIsTold
  <2>2. \A f \in Range(frames) : f.at \in Nat
    BY <2>1 DEF IsRecording
  <2>3. QED
    BY <2>1, <2>2 DEF IsRecording, InOrder
<1>2. \A f \in Range(frames) : f.at \in Nat /\ f.at < end
  BY <1>1 DEF IsRecording
<1>3. PICK kept \in [0 .. Len(frames) -> Seq(Range(frames))] :
        /\ EachFrame(kept, frames, interval, dedup, r.rate)
        /\ \A k \in 0 .. Len(frames) : KeptUpto(kept[k], frames, k)
  BY <1>1, SamplesAreFrames
<1>4. frames \in Seq(Range(frames)) /\ Len(frames) \in Nat
  BY <1>1 DEF InOrder
<1>5. KeptUpto(samples, frames, Len(frames))
  BY <1>3, <1>4 DEF EachFrame
<1>6. samples \in Seq(Range(frames)) /\ \A i, j \in DOMAIN samples : i < j => samples[i].at < samples[j].at
  BY <1>5 DEF KeptUpto
<1> HIDE DEF samples, frames
<1>7. times = [i \in 1 .. Len(samples) |-> samples[i].at]
  BY <1>2, <1>6, ReportedIsEachTime
<1>8. \A i \in 1 .. Len(samples) : samples[i] \in Range(frames) /\ samples[i].at \in Nat /\ samples[i].at < end
  BY <1>2, <1>6
<1>9. /\ times \in Seq(Nat) /\ Len(times) = Len(samples) /\ DOMAIN times = 1 .. Len(samples)
      /\ DOMAIN samples = 1 .. Len(samples) /\ Len(samples) \in Nat
      /\ \A i \in 1 .. Len(samples) : times[i] = samples[i].at
  BY <1>6, <1>7, <1>8
<1>10. times # << >>
  BY DEF samples, frames
<1> HIDE DEF times
<1>11. Len(samples) # 0 /\ samples # << >>
  BY <1>9, <1>10
<1>12. frames # << >>
  <2> SUFFICES ASSUME frames = << >> PROVE FALSE
    OBVIOUS
  <2>1. Len(frames) = 0 /\ samples = kept[Len(frames)] /\ kept[0] = << >>
    BY <1>3 DEF EachFrame, samples
  <2>2. QED
    BY <1>11, <2>1
<1>13. Len(frames) > 0
  BY <1>4, <1>12
<1>14. times[1] = 0
  <2>1. samples[1] = frames[1]
    BY <1>5, <1>13 DEF KeptUpto
  <2>2. frames[1].at = 0
    BY <1>12 DEF IsRecording, frames
  <2>3. 1 \in 1 .. Len(samples)
    BY <1>9, <1>11
  <2>4. QED
    BY <1>9, <2>1, <2>2, <2>3
<1>15. \A i, j \in DOMAIN times : i < j => times[i] < times[j]
  BY <1>6, <1>9
<1>16. \A i \in DOMAIN times : times[i] < end
  BY <1>8, <1>9
<1>17. /\ \A t \in 0 .. (end - 1) : Cardinality({s \in scenes : s.from <= t /\ t < s.to}) = 1
       /\ Max({s.to : s \in scenes}) = end
  BY <1>1, <1>9, <1>10, <1>14, <1>15, <1>16, ScenesDivide
<1>18. \A g \in Dropout(end, r.claimed, gap) : g.from = end
  BY DEF Dropout
<1>19. \A s \in scenes : /\ s.n \in 1 .. Len(samples) /\ s.from = times[s.n]
                         /\ s.to = IF s.n < Len(times) THEN times[s.n + 1] ELSE end
  BY <1>9 DEF ScenesOf
<1>20. ASSUME Steady(r), interval > 0, NEW s \in scenes
       PROVE  s.to - s.from <= Max({interval, r.rate})
  <2> DEFINE M == Max({interval, r.rate})
  <2>1. M \in Nat /\ interval <= M /\ r.rate <= M
    BY <1>1, LargerOfTwo
  <2> HIDE DEF M
  <2>2. /\ r.rate \in Nat \ {0} /\ interval \in Nat \ {0}
        /\ \A i \in 2 .. Len(frames) : frames[i].at = frames[i - 1].at + r.rate
    BY <1>1, <1>20 DEF Steady, frames
  <2>3. /\ \A i \in 2 .. Len(samples) : samples[i].at - samples[i - 1].at <= M
        /\ frames[Len(frames)].at + r.rate - samples[Len(samples)].at <= M
    BY <1>1, <1>12, <2>1, <2>2, SteadySamples DEF samples
  <2>4. end <= frames[Len(frames)].at + r.rate
    <3>1. PICK e \in r.stream : e = Last(frames).at + r.rate
      BY <1>20 DEF Steady, frames
    <3>2. end <= e
      BY DecodableEndIsTold
    <3>3. QED
      BY <3>1, <3>2 DEF Last
  <2>5. s.n \in 1 .. Len(samples) /\ s.from = samples[s.n].at /\ s.from \in Nat
    BY <1>8, <1>9, <1>19
  <2>6. CASE s.n < Len(samples)
    <3>1. s.n + 1 \in 2 .. Len(samples) /\ (s.n + 1) - 1 = s.n /\ s.n + 1 \in 1 .. Len(samples)
      BY <1>9, <2>5, <2>6
    <3>2. s.to = samples[s.n + 1].at
      BY <1>9, <1>19, <2>6, <3>1
    <3>3. QED
      BY <2>3, <2>5, <3>1, <3>2 DEF M
  <2>7. CASE ~(s.n < Len(samples))
    <3>1. s.n = Len(samples)
      BY <1>9, <2>5, <2>7
    <3>2. s.to = end
      BY <1>9, <1>19, <2>7
    <3>3. frames[Len(frames)].at \in Nat
      BY <1>2, <1>4, <1>13
    <3> DEFINE last == frames[Len(frames)].at
    <3>4. last + r.rate - s.from <= M /\ end <= last + r.rate /\ last \in Nat
      BY <2>3, <2>4, <2>5, <3>1, <3>3
    <3> HIDE DEF last
    <3>5. end - s.from <= M
      BY <1>1, <2>1, <2>5, <3>4
    <3>6. QED
      BY <3>2, <3>5 DEF M
  <2>8. QED
    BY <2>6, <2>7
<1>21. Divides(scenes, Dropout(end, r.claimed, gap), r, interval)
  BY <1>17, <1>18, <1>20 DEF Divides
<1>22. QED
  BY <1>6, <1>9, <1>19, <1>21 DEF samples, frames, times

----------------------------------------------------------------------------
(* The steps of a job.                                                      *)

\* Which step comes after which, for each kind of job.
Follows(s, kind, t) ==
  \/ kind = "video" /\ <<s, t>> \in {<<"verify", "hash">>, <<"hash", "duration">>, <<"duration", "stream">>,
       <<"stream", "rate">>, <<"rate", "cut">>, <<"cut", "analyze">>, <<"analyze", "sound">>,
       <<"listen", "embed">>, <<"embed", "batch">>, <<"batch", "index">>, <<"index", "publish">>}
  \/ kind = "audio" /\ <<s, t>> \in {<<"verify", "sound">>, <<"listen", "batch">>, <<"batch", "publish">>}
  \/ kind = "document" /\ <<s, t>> \in {<<"verify", "recognize">>, <<"recognize", "map">>,
       <<"map", "batch">>, <<"batch", "publish">>}
  \/ kind \in {"video", "audio"} /\ <<s, t>> = <<"sound", "listen">>
  \/ <<s, t>> \in {<<"publish", "check">>, <<"check", "import">>, <<"import", "done">>}

LEMMA VideoRoute ==
  LET route == Route["video"] IN
  /\ DOMAIN route = 1 .. 16
  /\ route[1] = "verify" /\ route[2] = "hash" /\ route[3] = "duration" /\ route[4] = "stream"
  /\ route[5] = "rate" /\ route[6] = "cut" /\ route[7] = "analyze" /\ route[8] = "sound"
  /\ route[9] = "listen" /\ route[10] = "embed" /\ route[11] = "batch" /\ route[12] = "index"
  /\ route[13] = "publish" /\ route[14] = "check" /\ route[15] = "import" /\ route[16] = "done"
<1>1. Route["video"] =
        <<"verify", "hash", "duration", "stream", "rate", "cut", "analyze", "sound",
          "listen", "embed", "batch", "index", "publish", "check", "import", "done">>
  BY DEF Route
<1> DEFINE route == Route["video"]
<1>2. QED
  BY <1>1

LEMMA AudioRoute ==
  LET route == Route["audio"] IN
  /\ DOMAIN route = 1 .. 8
  /\ route[1] = "verify" /\ route[2] = "sound" /\ route[3] = "listen" /\ route[4] = "batch"
  /\ route[5] = "publish" /\ route[6] = "check" /\ route[7] = "import" /\ route[8] = "done"
<1>1. Route["audio"] =
        <<"verify", "sound", "listen", "batch", "publish", "check", "import", "done">>
  BY DEF Route
<1> DEFINE route == Route["audio"]
<1>2. QED
  BY <1>1

LEMMA DocumentRoute ==
  LET route == Route["document"] IN
  /\ DOMAIN route = 1 .. 8
  /\ route[1] = "verify" /\ route[2] = "recognize" /\ route[3] = "map" /\ route[4] = "batch"
  /\ route[5] = "publish" /\ route[6] = "check" /\ route[7] = "import" /\ route[8] = "done"
<1>1. Route["document"] =
        <<"verify", "recognize", "map", "batch", "publish", "check", "import", "done">>
  BY DEF Route
<1> DEFINE route == Route["document"]
<1>2. QED
  BY <1>1

LEMMA StepsFollow ==
  ASSUME job \in Jobs, NEW s, s # "done", At(s)
  PROVE  /\ pc = s /\ Follows(s, job.kind, pc') /\ pc' \in Steps(job.kind)
         /\ UNCHANGED <<world, job, file, edits, attempt>>
<1> DEFINE route == Route[job.kind]
<1>1. job.kind \in {"video", "audio", "document"}
  BY JobAssumption
<1>2. PICK i \in DOMAIN route : route[i] = s /\ pc' = route[i + 1]
  BY DEF At
<1>3. CASE job.kind = "video"
  <2>1. i \in 1 .. 16 /\ i # 16
    BY <1>2, <1>3, VideoRoute
  <2>2. i = 1 \/ i = 2 \/ i = 3 \/ i = 4 \/ i = 5 \/ i = 6 \/ i = 7 \/ i = 8
        \/ i = 9 \/ i = 10 \/ i = 11 \/ i = 12 \/ i = 13 \/ i = 14 \/ i = 15
    BY <2>1
  <2>3. Follows(s, job.kind, pc') /\ i + 1 \in DOMAIN route
    BY <1>2, <1>3, <2>2, VideoRoute DEF Follows
  <2>4. QED
    BY <1>2, <2>3 DEF At, Steps, ToSet
<1>4. CASE job.kind = "audio"
  <2>1. i \in 1 .. 8 /\ i # 8
    BY <1>2, <1>4, AudioRoute
  <2>2. i = 1 \/ i = 2 \/ i = 3 \/ i = 4 \/ i = 5 \/ i = 6 \/ i = 7
    BY <2>1
  <2>3. Follows(s, job.kind, pc') /\ i + 1 \in DOMAIN route
    BY <1>2, <1>4, <2>2, AudioRoute DEF Follows
  <2>4. QED
    BY <1>2, <2>3 DEF At, Steps, ToSet
<1>5. CASE job.kind = "document"
  <2>1. i \in 1 .. 8 /\ i # 8
    BY <1>2, <1>5, DocumentRoute
  <2>2. i = 1 \/ i = 2 \/ i = 3 \/ i = 4 \/ i = 5 \/ i = 6 \/ i = 7
    BY <2>1
  <2>3. Follows(s, job.kind, pc') /\ i + 1 \in DOMAIN route
    BY <1>2, <1>5, <2>2, DocumentRoute DEF Follows
  <2>4. QED
    BY <1>2, <2>3 DEF At, Steps, ToSet
<1>6. QED
  BY <1>1, <1>3, <1>4, <1>5

AnyStill == UNION {UNION {{f.still : f \in Range(w[c].frames)} : c \in Contents} : w \in Worlds}

ShapedRows(r) ==
  r = [scenes |-> r.scenes, gaps |-> r.gaps, stills |-> r.stills, objects |-> r.objects,
       captions |-> r.captions, clocks |-> r.clocks, statements |-> r.statements,
       silences |-> r.silences, regions |-> r.regions]

ShapedWork(w) ==
  /\ w = [identity |-> w.identity, heard |-> w.heard, claimed |-> w.claimed, stream |-> w.stream,
          rate |-> w.rate, scenes |-> w.scenes, docir |-> w.docir, rows |-> w.rows,
          vectors |-> w.vectors, located |-> w.located, result |-> w.result]
  /\ ShapedRows(w.rows)

ShapedDisk(d) ==
  /\ d = [stills |-> d.stills, docir |-> d.docir, batch |-> d.batch, index |-> d.index]
  /\ d.stills \in Seq(AnyStill)

\* JobTypeOK, with the fields of what the process and its directory hold.
JobShape ==
  /\ JobTypeOK
  /\ ShapedWork(work) /\ ShapedDisk(disk)
  /\ pc \in {"verify", "failed"} => work = Blank

LEMMA RecordedIsRecording ==
  ASSUME JobTypeOK
  PROVE  /\ IsRecording(Recorded) /\ IsRecording(Asked)
         /\ Asked \in {world[c] : c \in Contents} /\ job.asked \in Contents
         /\ job.interval \in Nat /\ job.dedup \in Nat /\ job.gap \in Nat
  BY JobAssumption DEF JobTypeOK, Recorded, Asked

\* New stills over old ones: each has the name of its number.
LEMMA NewStillsStand ==
  ASSUME NEW S, NEW old \in Seq(S), NEW new \in Seq(S)
  PROVE  /\ Overwritten(old, new) \in Seq(S)
         /\ \A i \in DOMAIN new : Overwritten(old, new)[i] = new[i]
<1> DEFINE left == SubSeq(old, Len(new) + 1, Len(old))
<1>1. Len(new) \in Nat /\ Len(old) \in Nat
  OBVIOUS
<1>2. left \in Seq(S)
  <2>1. \A i \in (Len(new) + 1) .. Len(old) : i \in DOMAIN old
    BY <1>1
  <2>2. QED
    BY <1>1, <2>1, SubSeqProperties
<1> HIDE DEF left
<1>3. QED
  BY <1>2 DEF Overwritten, left

LEMMA BlankIsShaped == ShapedWork(Blank) /\ ShapedDisk(EmptyDisk)
  BY DEF Blank, NoRows, ShapedWork, ShapedRows, EmptyDisk, ShapedDisk

LEMMA JobInitShape == JobInit => JobShape
<1> SUFFICES ASSUME JobInit PROVE JobShape
  OBVIOUS
<1>1. job \in Jobs /\ file \in Contents /\ job.kind \in {"video", "audio", "document"}
  BY JobAssumption DEF JobInit
<1>2. "verify" \in Steps(job.kind)
  BY <1>1, VideoRoute, AudioRoute, DocumentRoute DEF Steps, ToSet
<1>3. JobTypeOK
  BY <1>1, <1>2, JobAssumption DEF JobInit, JobTypeOK
<1>4. QED
  BY <1>3, BlankIsShaped DEF JobShape, JobInit

\* A step along the route keeps the shape when what it writes has it.
LEMMA StepKeepsShape ==
  ASSUME JobShape, NEW s, s # "done", At(s), ShapedWork(work'), ShapedDisk(disk'),
         held' = held \/ pc' = "done"
  PROVE  JobShape'
<1>1. /\ pc = s /\ Follows(s, job.kind, pc') /\ pc' \in Steps(job.kind)
      /\ UNCHANGED <<world, job, file, edits, attempt>>
  BY StepsFollow DEF JobShape, JobTypeOK
<1>2. pc' \notin {"verify", "failed"}
  BY <1>1 DEF Follows
<1>3. DOMAIN work' = DOMAIN Blank /\ DOMAIN disk' = DOMAIN EmptyDisk
  BY DEF ShapedWork, ShapedDisk, Blank, EmptyDisk
<1>4. JobTypeOK'
  BY <1>1, <1>3 DEF JobShape, JobTypeOK
<1>5. QED
  BY <1>2, <1>4 DEF JobShape

LEMMA StillsOfSamples ==
  ASSUME NEW c \in Contents, JobTypeOK, NEW interval, NEW dedup, NEW rate
  PROVE  LET samples == Samples(world[c].frames, interval, dedup, rate)
         IN /\ samples \in Seq(Range(world[c].frames))
            /\ [i \in DOMAIN samples |-> samples[i].still] \in Seq(AnyStill)
<1> DEFINE frames == world[c].frames
           samples == Samples(frames, interval, dedup, rate)
<1>1. world \in Worlds /\ frames \in Seq(Range(frames))
  BY JobAssumption DEF JobTypeOK, IsRecording
<1> HIDE DEF frames
<1>2. PICK kept \in [0 .. Len(frames) -> Seq(Range(frames))] :
        EachFrame(kept, frames, interval, dedup, rate)
  BY <1>1, SamplesUnfolds
<1>3. samples \in Seq(Range(frames))
  <2>1. Len(frames) \in 0 .. Len(frames)
    BY <1>1
  <2>2. QED
    BY <1>2, <2>1 DEF EachFrame
<1> HIDE DEF samples
<1>4. \A f \in Range(frames) : f.still \in AnyStill
  BY <1>1 DEF AnyStill, frames
<1>5. Len(samples) \in Nat /\ DOMAIN samples = 1 .. Len(samples)
      /\ \A i \in 1 .. Len(samples) : samples[i].still \in AnyStill
  BY <1>3, <1>4
<1>6. [i \in DOMAIN samples |-> samples[i].still] \in Seq(AnyStill)
  BY <1>5
<1>7. QED
  BY <1>3, <1>6 DEF frames, samples

LEMMA JobNextShape == JobShape /\ [JobNext]_jobVars => JobShape'
<1> SUFFICES ASSUME JobShape, [JobNext]_jobVars PROVE JobShape'
  OBVIOUS
<1>0. /\ JobTypeOK /\ ShapedWork(work) /\ ShapedDisk(disk) /\ file \in Contents
  BY DEF JobShape, JobTypeOK
<1>1. CASE Adapter
  <2>1. CASE Verify
    BY <1>0, <2>1, StepKeepsShape DEF Verify, InMemory
  <2>2. CASE HashOriginal
    <3>1. ShapedWork(work')
      BY <1>0, <2>2 DEF HashOriginal, ShapedWork
    <3>2. QED
      BY <1>0, <2>2, <3>1, StepKeepsShape DEF HashOriginal, InMemory
  <2>3. CASE ProbeDuration
    <3>1. ShapedWork(work')
      BY <1>0, <2>3 DEF ProbeDuration, ShapedWork
    <3>2. QED
      BY <1>0, <2>3, <3>1, StepKeepsShape DEF ProbeDuration, InMemory
  <2>4. CASE ProbeStream
    <3>1. ShapedWork(work')
      BY <1>0, <2>4 DEF ProbeStream, ShapedWork
    <3>2. QED
      BY <1>0, <2>4, <3>1, StepKeepsShape DEF ProbeStream, InMemory
  <2>5. CASE ProbeRate
    <3>1. ShapedWork(work')
      BY <1>0, <2>5 DEF ProbeRate, ShapedWork
    <3>2. QED
      BY <1>0, <2>5, <3>1, StepKeepsShape DEF ProbeRate, InMemory
  <2>6. CASE CutScenes
    <3> DEFINE samples == Samples(Recorded.frames, job.interval, job.dedup, work.rate)
               stills == [i \in DOMAIN samples |-> samples[i].still]
               new == Overwritten(disk.stills, stills)
    <3>1. new \in Seq(AnyStill)
      <4>1. stills \in Seq(AnyStill)
        BY <1>0, StillsOfSamples DEF Recorded
      <4>2. disk.stills \in Seq(AnyStill)
        BY <1>0 DEF ShapedDisk
      <4> HIDE DEF stills
      <4>3. QED
        BY <4>1, <4>2, NewStillsStand
    <3>2. disk' = [disk EXCEPT !.stills = new]
      BY <2>6 DEF CutScenes
    <3> HIDE DEF new
    <3>3. ShapedDisk(disk')
      BY <1>0, <3>1, <3>2 DEF ShapedDisk
    <3>4. ShapedWork(work')
      BY <1>0, <2>6 DEF CutScenes, ShapedWork
    <3>5. QED
      BY <2>6, <3>3, <3>4, StepKeepsShape DEF CutScenes
  <2>7. CASE Analyze
    <3>0. PICK a, b, c, d, e, f :
            work' = [work EXCEPT !.rows.scenes = a, !.rows.gaps = b, !.rows.stills = c,
                                 !.rows.objects = d, !.rows.captions = e, !.rows.clocks = f]
      BY <2>7, Zenon DEF Analyze
    <3>1. ShapedWork(work')
      BY <1>0, <3>0 DEF ShapedWork, ShapedRows
    <3>2. QED
      BY <1>0, <2>7, <3>1, StepKeepsShape DEF Analyze, InMemory
  <2>8. CASE HashSound
    <3>1. ShapedWork(work')
      BY <1>0, <2>8 DEF HashSound, ShapedWork
    <3>2. QED
      BY <1>0, <2>8, <3>1, StepKeepsShape DEF HashSound, InMemory
  <2>9. CASE Listen
    <3>1. ShapedWork(work')
      BY <1>0, <2>9 DEF Listen, ShapedWork, ShapedRows
    <3>2. QED
      BY <1>0, <2>9, <3>1, StepKeepsShape DEF Listen, InMemory
  <2>10. CASE Recognize
    <3>1. PICK d : disk' = [disk EXCEPT !.docir = {d}] /\ work' = [work EXCEPT !.docir = {d}]
      BY <2>10 DEF Recognize
    <3>2. ShapedWork(work') /\ ShapedDisk(disk')
      BY <1>0, <3>1 DEF ShapedWork, ShapedDisk
    <3>3. QED
      BY <2>10, <3>2, StepKeepsShape DEF Recognize
  <2>11. CASE MapDocument
    <3>1. PICK d : work' = [work EXCEPT !.identity = {file}, !.rows.regions = d.pages]
      BY <2>11 DEF MapDocument
    <3>2. ShapedWork(work')
      BY <1>0, <3>1 DEF ShapedWork, ShapedRows
    <3>3. QED
      BY <1>0, <2>11, <3>2, StepKeepsShape DEF MapDocument, InMemory
  <2>12. CASE Embed
    <3>1. ShapedWork(work')
      BY <1>0, <2>12 DEF Embed, ShapedWork
    <3>2. QED
      BY <1>0, <2>12, <3>1, StepKeepsShape DEF Embed, InMemory
  <2>13. CASE WriteBatch
    <3>1. ShapedDisk(disk')
      BY <1>0, <2>13 DEF WriteBatch, ShapedDisk
    <3>2. QED
      BY <1>0, <2>13, <3>1, StepKeepsShape DEF WriteBatch
  <2>14. CASE WriteIndex
    <3>1. ShapedDisk(disk')
      BY <1>0, <2>14 DEF WriteIndex, ShapedDisk
    <3>2. QED
      BY <1>0, <2>14, <3>1, StepKeepsShape DEF WriteIndex
  <2>15. CASE Publish
    <3>1. ShapedWork(work')
      BY <1>0, <2>15 DEF Publish, ShapedWork
    <3>2. QED
      BY <1>0, <2>15, <3>1, StepKeepsShape DEF Publish, InMemory
  <2>16. QED
    BY <1>1, <2>1, <2>2, <2>3, <2>4, <2>5, <2>6, <2>7, <2>8, <2>9, <2>10, <2>11, <2>12, <2>13,
       <2>14, <2>15 DEF Adapter
<1>2. CASE Check
  <2>1. PICK b \in disk.batch :
          work' = [work EXCEPT !.result = {b.rows},
                     !.vectors = IF work.vectors = {} THEN {} ELSE UNION disk.index]
    BY <1>2 DEF Check
  <2>2. ShapedWork(work')
    BY <1>0, <2>1 DEF ShapedWork
  <2>3. QED
    BY <1>0, <1>2, <2>2, StepKeepsShape DEF Check, InMemory
<1>3. CASE Import
  <2>1. At("import") /\ work' = work /\ disk' = disk
    BY <1>3 DEF Import
  <2>2. pc' = "done"
    BY <1>0, <2>1, StepsFollow DEF Follows, JobTypeOK
  <2>3. QED
    BY <1>0, <2>1, <2>2, StepKeepsShape
<1>4. CASE Fail
  <2>1. held = {}
    BY <1>0, <1>4 DEF Fail, JobTypeOK, Stopped
  <2>2. DOMAIN work' = DOMAIN Blank
    BY <1>4 DEF Fail
  <2>3. JobTypeOK'
    BY <1>0, <1>4, <2>1, <2>2 DEF Fail, JobTypeOK
  <2>4. QED
    BY <1>0, <1>4, <2>3, BlankIsShaped DEF Fail, JobShape
<1>5. CASE Retry
  <2>1. "verify" \in Steps(job.kind)
    BY <1>0, JobAssumption, VideoRoute, AudioRoute, DocumentRoute DEF JobTypeOK, Steps, ToSet
  <2>2. attempt' \in 1 .. MaxAttempts
    BY <1>0, <1>5, JobAssumption DEF Retry, JobTypeOK
  <2>3. held = {} /\ work = Blank
    BY <1>0, <1>5 DEF Retry, JobTypeOK, JobShape
  <2>4. ShapedDisk(disk') /\ DOMAIN disk' = DOMAIN EmptyDisk
    BY <1>0, <1>5, BlankIsShaped DEF Retry, JobTypeOK
  <2>5. JobTypeOK'
    BY <1>0, <1>5, <2>1, <2>2, <2>3, <2>4 DEF Retry, JobTypeOK
  <2>6. QED
    BY <1>0, <1>5, <2>3, <2>4, <2>5 DEF Retry, JobShape
<1>6. CASE \E c \in Contents : Overwrite(c)
  <2>1. PICK c \in Contents : Overwrite(c)
    BY <1>6
  <2>2. edits' \in 0 .. MaxEdits
    BY <1>0, <2>1, JobAssumption DEF Overwrite, JobTypeOK
  <2>3. JobTypeOK'
    BY <1>0, <2>1, <2>2 DEF Overwrite, JobTypeOK
  <2>4. QED
    BY <2>1, <2>3 DEF Overwrite, JobShape, ShapedWork, ShapedRows, ShapedDisk, AnyStill
<1>7. CASE UNCHANGED jobVars
  BY <1>7 DEF jobVars, JobShape, JobTypeOK, ShapedWork, ShapedRows, ShapedDisk, Steps
<1>8. QED
  BY <1>1, <1>2, <1>3, <1>4, <1>5, <1>6, <1>7 DEF JobNext

----------------------------------------------------------------------------
(* What a job says of the original, from the first opening to the import.   *)

\* ResultShowsTheOriginal of rows and vectors, and what they tell of silence.
Shows(original, gap, rows, vectors) ==
  LET at(t) == {f \in Range(original.frames) : f.at = t} IN
  /\ \A s \in rows.stills \cup vectors : \E f \in at(s.from) : s.shows = f.still
  /\ \A o \in rows.objects : \E f \in at(o.from) : o.shows \in f.still.objects
  /\ \A c \in rows.captions : \E f \in at(c.from) : c.shows = f.still.caption
  /\ \A w \in rows.statements : original.words[w.n] = [from |-> w.from, to |-> w.to, said |-> w.said]
  /\ rows.regions \subseteq original.pages
  /\ rows.statements # {} =>
       IsMappable(original.words) /\ rows.silences = Silences(original.words, gap)

\* The numbered stills of a video's scenes are frames of their moments.
StillsOf(original, scenes, stills) ==
  \A s \in scenes : \E f \in {g \in Range(original.frames) : g.at = s.from} : stills[s.n] = f.still

\* What the openings of the original so far have read, step by step.
ReadRight ==
  /\ pc \in {"stream", "rate", "cut", "analyze"} => work.claimed = Asked.claimed
  /\ pc \in {"rate", "cut", "analyze"} => work.stream = Asked.stream
  /\ pc = "cut" => work.rate = Asked.rate
  /\ pc \in {"analyze", "sound", "listen", "embed"} => StillsOf(Asked, work.scenes, disk.stills)
  /\ pc = "analyze" =>
       Divides(work.scenes, Dropout(DecodableEnd(work.claimed, work.stream), work.claimed, job.gap),
               Asked, job.interval)
  /\ job.kind = "video" /\ pc \in {"sound", "listen", "embed", "batch", "index", "publish", "check"} =>
       Divides(work.rows.scenes, work.rows.gaps, Asked, job.interval)

\* An attempt that runs while the original is the one asked for.
Pinned == pc \notin Stopped \cup {"import"} /\ file = job.asked

PagesAreTheirs == \A d \in disk.docir \cup work.docir : d.pages = world[d.of].pages

WorkIsTrue == Pinned => Shows(Asked, job.gap, work.rows, work.vectors) /\ ReadRight

\* What is written is what was in memory; only a video has vectors.
OutputIsWork ==
  /\ job.kind # "video" => work.vectors = {}
  /\ pc \in {"index", "publish", "check"} => \A b \in disk.batch : b.rows = work.rows
  /\ pc \in {"publish", "check"} /\ work.vectors # {} => disk.index = {work.vectors}

TrueResult(rows, vectors) ==
  /\ Shows(Asked, job.gap, rows, vectors)
  /\ job.kind = "video" => Divides(rows.scenes, rows.gaps, Asked, job.interval)

ResultIsTrue == pc = "import" => \A r \in work.result : TrueResult(r, work.vectors)
HeldIsTrue == \A h \in held : TrueResult(h.rows, h.vectors)

\* The invariant of a job whose original never comes back in mid-attempt.
JobTruth ==
  /\ JobShape
  /\ PagesAreTheirs /\ WorkIsTrue /\ OutputIsWork /\ ResultIsTrue /\ HeldIsTrue

LEMMA BlankShows == Shows(Asked, job.gap, Blank.rows, Blank.vectors)
  BY DEF Shows, Blank, NoRows

LEMMA JobInitTruth == JobInit => JobTruth
<1> SUFFICES ASSUME JobInit PROVE JobTruth
  OBVIOUS
<1>1. work = Blank /\ disk = EmptyDisk /\ pc = "verify" /\ held = {}
  BY DEF JobInit
<1>2. JobShape
  BY JobInitShape
<1>3. PagesAreTheirs /\ OutputIsWork
  BY <1>1 DEF PagesAreTheirs, OutputIsWork, Blank, EmptyDisk
<1>4. WorkIsTrue
  BY <1>1, BlankShows DEF WorkIsTrue, ReadRight
<1>5. ResultIsTrue /\ HeldIsTrue
  BY <1>1 DEF ResultIsTrue, HeldIsTrue
<1>6. QED
  BY <1>2, <1>3, <1>4, <1>5 DEF JobTruth

\* A step of the adapter stays in an attempt, imports nothing, and leaves the
\* original what it was.
LEMMA AdapterStep ==
  ASSUME JobTruth, NEW s, s \notin {"check", "import", "done"}, At(s), held' = held
  PROVE  /\ pc = s /\ Follows(s, job.kind, pc') /\ UNCHANGED <<world, job, file, Asked>>
         /\ pc' \notin Stopped \cup {"import", "verify"} /\ (Pinned' => Pinned)
         /\ ResultIsTrue' /\ HeldIsTrue' /\ job.kind \in {"video", "audio", "document"}
<1>1. /\ pc = s /\ Follows(s, job.kind, pc') /\ UNCHANGED <<world, job, file>>
      /\ job.kind \in {"video", "audio", "document"}
  <2>1. job \in Jobs
    BY DEF JobTruth, JobShape, JobTypeOK
  <2>2. QED
    BY <2>1, StepsFollow, JobAssumption
<1>2. Asked' = Asked
  BY <1>1 DEF Asked
<1>3. /\ pc' \notin Stopped \cup {"import", "verify"}
      /\ pc \notin Stopped \cup {"import"}
  BY <1>1 DEF Follows, Stopped
<1>4. Pinned' => Pinned
  BY <1>1, <1>3 DEF Pinned
<1>5. ResultIsTrue'
  BY <1>3 DEF ResultIsTrue
<1>6. HeldIsTrue'
  BY <1>1, <1>2 DEF HeldIsTrue, TrueResult, JobTruth
<1>7. QED
  BY <1>1, <1>2, <1>3, <1>4, <1>5, <1>6

\* The openings that only add to what is known of the recording.
LEMMA OpeningsKeepTruth ==
  ASSUME JobTruth, Verify \/ HashOriginal \/ ProbeDuration \/ ProbeStream \/ ProbeRate \/ HashSound
  PROVE  PagesAreTheirs' /\ WorkIsTrue' /\ OutputIsWork' /\ ResultIsTrue' /\ HeldIsTrue'
<1>1. /\ ShapedWork(work) /\ disk' = disk /\ PagesAreTheirs /\ WorkIsTrue /\ OutputIsWork
  BY DEF JobTruth, JobShape, Verify, HashOriginal, ProbeDuration, ProbeStream, ProbeRate, HashSound,
         InMemory
<1>2. /\ work'.rows = work.rows /\ work'.vectors = work.vectors /\ work'.scenes = work.scenes
      /\ work'.docir = work.docir
  BY <1>1 DEF Verify, HashOriginal, ProbeDuration, ProbeStream, ProbeRate, HashSound, ShapedWork
<1>3. PICK s \in {"verify", "hash", "duration", "stream", "rate", "sound"} :
        /\ At(s) /\ held' = held
        /\ s = "duration" => work' = [work EXCEPT !.claimed = Recorded.claimed]
        /\ s = "stream" => work' = [work EXCEPT !.stream = Recorded.stream]
        /\ s = "rate" => work' = [work EXCEPT !.rate = Recorded.rate]
        /\ s \in {"verify", "hash", "sound"} =>
             UNCHANGED <<work.claimed, work.stream, work.rate>>
  <2>1. CASE Verify
    BY <2>1 DEF Verify, InMemory
  <2>2. CASE HashOriginal
    BY <1>1, <2>2 DEF HashOriginal, InMemory, ShapedWork
  <2>3. CASE ProbeDuration
    BY <2>3 DEF ProbeDuration, InMemory
  <2>4. CASE ProbeStream
    BY <2>4 DEF ProbeStream, InMemory
  <2>5. CASE ProbeRate
    BY <2>5 DEF ProbeRate, InMemory
  <2>6. CASE HashSound
    BY <1>1, <2>6 DEF HashSound, InMemory, ShapedWork
  <2>7. QED
    BY <2>1, <2>2, <2>3, <2>4, <2>5, <2>6
<1>4. /\ pc = s /\ Follows(s, job.kind, pc') /\ UNCHANGED <<world, job, file, Asked>>
      /\ (Pinned' => Pinned) /\ ResultIsTrue' /\ HeldIsTrue'
  BY <1>3, AdapterStep
<1>5. pc' \in {"hash", "duration", "stream", "rate", "cut", "listen", "sound", "recognize"}
  BY <1>4, <1>3 DEF Follows
<1>6. PagesAreTheirs'
  BY <1>1, <1>2, <1>4 DEF PagesAreTheirs
<1>7. OutputIsWork'
  BY <1>1, <1>2, <1>4, <1>5 DEF OutputIsWork
<1>8. WorkIsTrue'
  <2> SUFFICES ASSUME Pinned' PROVE Shows(Asked, job.gap, work.rows, work.vectors)' /\ ReadRight'
    BY DEF WorkIsTrue
  <2>1. Pinned /\ Shows(Asked, job.gap, work.rows, work.vectors) /\ ReadRight
    BY <1>1, <1>4 DEF WorkIsTrue
  <2>2. Shows(Asked, job.gap, work.rows, work.vectors)'
    BY <1>2, <1>4, <2>1
  <2>3. Recorded = Asked
    BY <2>1 DEF Pinned, Recorded, Asked
  <2>4. pc' \in {"stream", "rate", "cut"} => work'.claimed = Asked.claimed
    BY <1>1, <1>3, <1>4, <2>1, <2>3 DEF Follows, ReadRight, ShapedWork
  <2>5. pc' \in {"rate", "cut"} => work'.stream = Asked.stream
    BY <1>1, <1>3, <1>4, <2>1, <2>3 DEF Follows, ReadRight, ShapedWork
  <2>6. pc' = "cut" => work'.rate = Asked.rate
    BY <1>1, <1>3, <1>4, <2>1, <2>3 DEF Follows, ReadRight, ShapedWork
  <2>7. pc' \in {"sound", "listen"} =>
          /\ StillsOf(Asked, work'.scenes, disk'.stills)
          /\ job.kind = "video" => Divides(work'.rows.scenes, work'.rows.gaps, Asked, job.interval)
    <3>1. CASE pc = "verify"
      <4>1. work.scenes = {}
        BY <3>1 DEF JobTruth, JobShape, Blank
      <4>2. pc' = "sound" => job.kind = "audio"
        BY <1>4, <3>1 DEF Follows
      <4>3. pc' # "listen"
        BY <1>4, <3>1 DEF Follows
      <4>4. QED
        BY <1>2, <4>1, <4>2, <4>3 DEF StillsOf
    <3>2. CASE pc # "verify"
      <4>1. pc' \in {"sound", "listen"} => pc = "sound"
        BY <1>3, <1>4, <3>2 DEF Follows
      <4>2. QED
        BY <1>1, <1>2, <2>1, <4>1 DEF ReadRight
    <3>3. QED
      BY <3>1, <3>2
  <2>8. ReadRight'
    BY <1>4, <1>5, <2>4, <2>5, <2>6, <2>7 DEF ReadRight
  <2>9. QED
    BY <2>2, <2>8
<1>9. QED
  BY <1>4, <1>6, <1>7, <1>8

LEMMA CutKeepsTruth ==
  ASSUME JobTruth, CutScenes
  PROVE  PagesAreTheirs' /\ WorkIsTrue' /\ OutputIsWork' /\ ResultIsTrue' /\ HeldIsTrue'
<1> DEFINE samples == Samples(Recorded.frames, job.interval, job.dedup, work.rate)
           times == Reported(samples)
           stills == [i \in DOMAIN samples |-> samples[i].still]
           new == Overwritten(disk.stills, stills)
           end == DecodableEnd(work.claimed, work.stream)
           scenes == ScenesOf(times, end)
<1>1. /\ At("cut") /\ times # << >> /\ held' = held
      /\ work' = [work EXCEPT !.scenes = scenes] /\ disk' = [disk EXCEPT !.stills = new]
  BY DEF CutScenes
<1>2. JobTypeOK /\ ShapedWork(work) /\ ShapedDisk(disk) /\ PagesAreTheirs /\ WorkIsTrue /\ OutputIsWork
  BY DEF JobTruth, JobShape
<1>3. /\ pc = "cut" /\ pc' = "analyze" /\ UNCHANGED <<world, job, file, Asked>>
      /\ (Pinned' => Pinned) /\ ResultIsTrue' /\ HeldIsTrue'
  BY <1>1, AdapterStep DEF Follows
<1>4. \A i \in DOMAIN stills : new[i] = stills[i]
  <2>1. disk.stills \in Seq(AnyStill) /\ file \in Contents
    BY <1>2 DEF ShapedDisk, JobTypeOK
  <2>2. stills \in Seq(AnyStill)
    BY <1>2, <2>1, StillsOfSamples DEF Recorded
  <2> HIDE DEF stills
  <2>3. QED
    BY <2>1, <2>2, NewStillsStand
<1>5. ASSUME Pinned
      PROVE  /\ StillsOf(Asked, scenes, new)
             /\ Divides(scenes, Dropout(end, work.claimed, job.gap), Asked, job.interval)
  <2>1. Recorded = Asked /\ work.claimed = Asked.claimed /\ work.stream = Asked.stream /\ work.rate = Asked.rate
    BY <1>2, <1>3, <1>5 DEF WorkIsTrue, ReadRight, Pinned, Recorded, Asked
  <2>2. IsRecording(Asked) /\ job.interval \in Nat /\ job.dedup \in Nat /\ job.gap \in Nat
    BY <1>2, RecordedIsRecording
  <2>3. /\ samples \in Seq(Range(Asked.frames))
        /\ \A s \in scenes : s.n \in DOMAIN samples /\ s.from = samples[s.n].at
        /\ Divides(scenes, Dropout(end, work.claimed, job.gap), Asked, job.interval)
    BY <1>1, <2>1, <2>2, CutDivides
  <2>4. \A s \in scenes : new[s.n] = samples[s.n].still
    BY <1>4, <2>3
  <2>5. \A s \in scenes : samples[s.n] \in Range(Asked.frames)
    <3> HIDE DEF samples, scenes
    <3>1. QED
      BY <2>3
  <2> HIDE DEF samples, scenes, new
  <2>6. StillsOf(Asked, scenes, new)
    BY <2>3, <2>4, <2>5 DEF StillsOf
  <2>7. QED
    BY <2>3, <2>6
<1> HIDE DEF new, scenes
<1>6. /\ work'.rows = work.rows /\ work'.vectors = work.vectors /\ work'.docir = work.docir
      /\ work'.claimed = work.claimed /\ work'.stream = work.stream /\ work'.scenes = scenes
      /\ disk'.stills = new /\ UNCHANGED <<disk.docir, disk.batch, disk.index>>
  BY <1>1, <1>2 DEF ShapedWork, ShapedDisk
<1>7. PagesAreTheirs' /\ OutputIsWork'
  BY <1>2, <1>3, <1>6 DEF PagesAreTheirs, OutputIsWork
<1>8. WorkIsTrue'
  BY <1>2, <1>3, <1>5, <1>6 DEF WorkIsTrue, ReadRight
<1>9. QED
  BY <1>3, <1>7, <1>8

LEMMA AnalyzeKeepsTruth ==
  ASSUME JobTruth, Analyze
  PROVE  PagesAreTheirs' /\ WorkIsTrue' /\ OutputIsWork' /\ ResultIsTrue' /\ HeldIsTrue'
<1> DEFINE gaps == Dropout(DecodableEnd(work.claimed, work.stream), work.claimed, job.gap)
           objects == IF job.overnight THEN Objects ELSE {}
           captions == IF job.overnight THEN Captions ELSE {}
           at(t) == {f \in Range(Asked.frames) : f.at = t}
<1>1. PICK clocks :
        /\ At("analyze") /\ held' = held /\ disk' = disk
        /\ work' = [work EXCEPT !.rows.scenes = work.scenes, !.rows.gaps = gaps, !.rows.stills = StillRows,
                      !.rows.objects = objects, !.rows.captions = captions, !.rows.clocks = clocks]
  BY Zenon DEF Analyze, InMemory
<1>2. JobTypeOK /\ ShapedWork(work) /\ PagesAreTheirs /\ WorkIsTrue /\ OutputIsWork
  BY DEF JobTruth, JobShape
<1>3. /\ pc = "analyze" /\ pc' = "sound" /\ UNCHANGED <<world, job, file, Asked>>
      /\ (Pinned' => Pinned) /\ ResultIsTrue' /\ HeldIsTrue'
  BY <1>1, AdapterStep DEF Follows
<1>4. ASSUME Pinned
      PROVE  /\ \A s \in StillRows : \E f \in at(s.from) : s.shows = f.still
             /\ \A o \in objects : \E f \in at(o.from) : o.shows \in f.still.objects
             /\ \A c \in captions : \E f \in at(c.from) : c.shows = f.still.caption
  <2>1. StillsOf(Asked, work.scenes, disk.stills)
    BY <1>2, <1>3, <1>4 DEF WorkIsTrue, ReadRight
  <2>2. \A s \in StillRows : \E f \in at(s.from) : s.shows = f.still
    BY <2>1 DEF StillRows, Row, StillsOf
  <2> HIDE DEF at
  <2>3. ASSUME NEW o \in Objects PROVE \E f \in at(o.from) : o.shows \in f.still.objects
    <3>1. PICK r \in StillRows : o \in {Row(r, x) : x \in r.shows.objects}
      BY DEF Objects
    <3>2. o.from = r.from /\ o.shows \in r.shows.objects
      BY <3>1 DEF Row
    <3>3. QED
      BY <2>2, <3>2
  <2>4. ASSUME NEW c \in Captions PROVE \E f \in at(c.from) : c.shows = f.still.caption
    <3>1. PICK r \in StillRows : c = Row(r, r.shows.caption)
      BY DEF Captions
    <3>2. c.from = r.from /\ c.shows = r.shows.caption
      BY <3>1 DEF Row
    <3>3. QED
      BY <2>2, <3>2
  <2>5. QED
    BY <2>2, <2>3, <2>4
<1> HIDE DEF gaps, objects, captions
<1>5. /\ work'.vectors = work.vectors /\ work'.docir = work.docir /\ work'.scenes = work.scenes
      /\ work'.rows.scenes = work.scenes /\ work'.rows.gaps = gaps /\ work'.rows.stills = StillRows
      /\ work'.rows.objects = objects /\ work'.rows.captions = captions
      /\ UNCHANGED <<work.rows.statements, work.rows.silences, work.rows.regions>>
  BY <1>1, <1>2 DEF ShapedWork, ShapedRows
<1>6. PagesAreTheirs' /\ OutputIsWork'
  BY <1>1, <1>2, <1>3, <1>5 DEF PagesAreTheirs, OutputIsWork
<1>7. WorkIsTrue'
  <2> SUFFICES ASSUME Pinned' PROVE Shows(Asked, job.gap, work.rows, work.vectors)' /\ ReadRight'
    BY DEF WorkIsTrue
  <2>1. Pinned /\ Shows(Asked, job.gap, work.rows, work.vectors) /\ ReadRight
    BY <1>2, <1>3 DEF WorkIsTrue
  <2>2. Shows(Asked, job.gap, work.rows, work.vectors)'
    BY <1>3, <1>4, <1>5, <2>1 DEF Shows
  <2>3. ReadRight'
    BY <1>1, <1>3, <1>5, <2>1 DEF ReadRight, gaps
  <2>4. QED
    BY <2>2, <2>3
<1>8. QED
  BY <1>3, <1>6, <1>7

LEMMA ListenKeepsTruth ==
  ASSUME JobTruth, Listen
  PROVE  PagesAreTheirs' /\ WorkIsTrue' /\ OutputIsWork' /\ ResultIsTrue' /\ HeldIsTrue'
<1>1. PICK identity, statements, silences :
        /\ At("listen") /\ held' = held /\ disk' = disk
        /\ work' = [work EXCEPT !.identity = identity, !.rows.statements = statements,
                                !.rows.silences = silences]
        /\ statements = Statements(Recorded.words) /\ silences = Silences(Recorded.words, job.gap)
        /\ IsMappable(Recorded.words)
  BY Zenon DEF Listen, InMemory
<1>2. JobTypeOK /\ ShapedWork(work) /\ PagesAreTheirs /\ WorkIsTrue /\ OutputIsWork
  BY DEF JobTruth, JobShape
<1>3. /\ pc = "listen" /\ pc' \in {"embed", "batch"} /\ UNCHANGED <<world, job, file, Asked>>
      /\ (Pinned' => Pinned) /\ ResultIsTrue' /\ HeldIsTrue'
  BY <1>1, AdapterStep DEF Follows
<1>4. /\ work'.vectors = work.vectors /\ work'.docir = work.docir /\ work'.scenes = work.scenes
      /\ work'.rows.statements = statements /\ work'.rows.silences = silences
      /\ UNCHANGED <<work.rows.scenes, work.rows.gaps, work.rows.stills, work.rows.objects,
                     work.rows.captions, work.rows.regions>>
  BY <1>1, <1>2 DEF ShapedWork, ShapedRows
<1>5. PagesAreTheirs' /\ OutputIsWork'
  BY <1>1, <1>2, <1>3, <1>4 DEF PagesAreTheirs, OutputIsWork
<1>6. WorkIsTrue'
  <2> SUFFICES ASSUME Pinned' PROVE Shows(Asked, job.gap, work.rows, work.vectors)' /\ ReadRight'
    BY DEF WorkIsTrue
  <2>1. Pinned /\ Shows(Asked, job.gap, work.rows, work.vectors) /\ ReadRight /\ Recorded = Asked
    BY <1>2, <1>3 DEF WorkIsTrue, Pinned, Recorded, Asked
  <2>2. \A w \in Statements(Asked.words) :
          Asked.words[w.n] = [from |-> w.from, to |-> w.to, said |-> w.said]
    <3> DEFINE words == Asked.words
    <3>1. /\ words \in Seq(Range(words))
          /\ \A w \in Range(words) : w = [from |-> w.from, to |-> w.to, said |-> w.said]
      BY <1>2, RecordedIsRecording DEF IsRecording
    <3> HIDE DEF words
    <3>2. \A i \in DOMAIN words : words[i] = [from |-> words[i].from, to |-> words[i].to, said |-> words[i].said]
      BY <3>1
    <3>3. QED
      BY <3>2 DEF Statements, words
  <2>3. Shows(Asked, job.gap, work.rows, work.vectors)'
    BY <1>1, <1>3, <1>4, <2>1, <2>2 DEF Shows
  <2>4. ReadRight'
    BY <1>1, <1>3, <1>4, <2>1 DEF ReadRight
  <2>5. QED
    BY <2>3, <2>4
<1>7. QED
  BY <1>3, <1>5, <1>6

LEMMA PagesKeepTruth ==
  ASSUME JobTruth, Recognize \/ MapDocument
  PROVE  PagesAreTheirs' /\ WorkIsTrue' /\ OutputIsWork' /\ ResultIsTrue' /\ HeldIsTrue'
<1>1. JobTypeOK /\ ShapedWork(work) /\ ShapedDisk(disk) /\ PagesAreTheirs /\ WorkIsTrue /\ OutputIsWork
  BY DEF JobTruth, JobShape
<1>2. CASE Recognize
  <2>1. PICK d \in disk.docir \cup {[of |-> file, pages |-> Recorded.pages]} :
          /\ At("recognize") /\ held' = held
          /\ disk' = [disk EXCEPT !.docir = {d}] /\ work' = [work EXCEPT !.docir = {d}]
    BY <1>2 DEF Recognize
  <2>2. /\ pc = "recognize" /\ pc' = "map" /\ UNCHANGED <<world, job, file, Asked>>
        /\ (Pinned' => Pinned) /\ ResultIsTrue' /\ HeldIsTrue'
    BY <2>1, AdapterStep DEF Follows
  <2>3. d.pages = world[d.of].pages
    BY <1>1, <2>1 DEF PagesAreTheirs, Recorded
  <2>4. /\ disk'.docir = {d} /\ work'.docir = {d}
        /\ UNCHANGED <<work.rows, work.vectors, disk.batch, disk.index>>
    BY <1>1, <2>1 DEF ShapedWork, ShapedDisk
  <2>5. PagesAreTheirs' /\ OutputIsWork'
    BY <1>1, <2>2, <2>3, <2>4 DEF PagesAreTheirs, OutputIsWork
  <2>6. WorkIsTrue'
    BY <1>1, <2>2, <2>4 DEF WorkIsTrue, ReadRight
  <2>7. QED
    BY <2>2, <2>5, <2>6
<1>3. CASE MapDocument
  <2>1. PICK d \in work.docir :
          /\ At("map") /\ held' = held /\ disk' = disk /\ PagesMatch(d)
          /\ work' = [work EXCEPT !.identity = {file}, !.rows.regions = d.pages]
    BY <1>3 DEF MapDocument, InMemory
  <2>2. /\ pc = "map" /\ pc' = "batch" /\ job.kind = "document" /\ UNCHANGED <<world, job, file, Asked>>
        /\ (Pinned' => Pinned) /\ ResultIsTrue' /\ HeldIsTrue'
    BY <2>1, AdapterStep DEF Follows
  <2>3. /\ work'.rows.regions = d.pages /\ UNCHANGED <<work.docir, work.vectors>>
        /\ UNCHANGED <<work.rows.stills, work.rows.objects, work.rows.captions, work.rows.statements,
                       work.rows.silences>>
    BY <1>1, <2>1 DEF ShapedWork, ShapedRows
  <2>4. Pinned => d.pages = Asked.pages
    BY <1>1, <2>1 DEF PagesAreTheirs, PagesMatch, Pinned, Asked
  <2>5. PagesAreTheirs' /\ OutputIsWork'
    BY <1>1, <2>1, <2>2, <2>3 DEF PagesAreTheirs, OutputIsWork
  <2>6. Pinned' => Shows(Asked, job.gap, work.rows, work.vectors)'
    BY <1>1, <2>2, <2>3, <2>4 DEF WorkIsTrue, Shows
  <2>7. ReadRight'
    BY <2>2 DEF ReadRight
  <2>8. QED
    BY <2>2, <2>5, <2>6, <2>7 DEF WorkIsTrue
<1>4. QED
  BY <1>2, <1>3

LEMMA OutputKeepsTruth ==
  ASSUME JobTruth, Embed \/ WriteBatch \/ WriteIndex \/ Publish
  PROVE  PagesAreTheirs' /\ WorkIsTrue' /\ OutputIsWork' /\ ResultIsTrue' /\ HeldIsTrue'
<1>1. JobTypeOK /\ ShapedWork(work) /\ ShapedDisk(disk) /\ PagesAreTheirs /\ WorkIsTrue /\ OutputIsWork
  BY DEF JobTruth, JobShape
<1>2. CASE Embed
  <2> DEFINE vectors == IF job.vectors THEN StillRows ELSE {}
  <2>1. /\ At("embed") /\ held' = held /\ disk' = disk /\ work' = [work EXCEPT !.vectors = vectors]
    BY <1>2 DEF Embed, InMemory
  <2>2. /\ pc = "embed" /\ pc' = "batch" /\ job.kind = "video" /\ UNCHANGED <<world, job, file, Asked>>
        /\ (Pinned' => Pinned) /\ ResultIsTrue' /\ HeldIsTrue'
    BY <2>1, AdapterStep DEF Follows
  <2>3. Pinned => \A s \in vectors : \E f \in {g \in Range(Asked.frames) : g.at = s.from} : s.shows = f.still
    <3> SUFFICES ASSUME Pinned
                 PROVE  \A s \in StillRows :
                          \E f \in {g \in Range(Asked.frames) : g.at = s.from} : s.shows = f.still
      OBVIOUS
    <3>1. StillsOf(Asked, work.scenes, disk.stills)
      BY <1>1, <2>2 DEF WorkIsTrue, ReadRight
    <3>2. QED
      BY <3>1 DEF StillRows, Row, StillsOf
  <2> HIDE DEF vectors
  <2>4. work'.vectors = vectors /\ UNCHANGED <<work.rows, work.docir, work.scenes>>
    BY <1>1, <2>1 DEF ShapedWork
  <2>5. PagesAreTheirs' /\ OutputIsWork'
    BY <1>1, <2>1, <2>2, <2>4 DEF PagesAreTheirs, OutputIsWork
  <2>6. Pinned' => Shows(Asked, job.gap, work.rows, work.vectors)'
    BY <1>1, <2>2, <2>3, <2>4 DEF WorkIsTrue, Shows
  <2>7. Pinned' => ReadRight'
    BY <1>1, <2>1, <2>2, <2>4 DEF WorkIsTrue, ReadRight
  <2>8. QED
    BY <2>2, <2>5, <2>6, <2>7 DEF WorkIsTrue
<1>3. CASE WriteBatch
  <2>1. /\ At("batch") /\ held' = held /\ work' = work
        /\ disk' = [disk EXCEPT !.batch = {[of |-> work.identity, rows |-> work.rows]}]
    BY <1>3 DEF WriteBatch
  <2>2. /\ pc = "batch" /\ pc' \in {"index", "publish"} /\ (pc' = "publish" => job.kind # "video")
        /\ UNCHANGED <<world, job, file, Asked>>
        /\ (Pinned' => Pinned) /\ ResultIsTrue' /\ HeldIsTrue'
    BY <2>1, AdapterStep DEF Follows
  <2>3. /\ disk'.batch = {[of |-> work.identity, rows |-> work.rows]}
        /\ UNCHANGED <<disk.docir, disk.stills, disk.index>>
    BY <1>1, <2>1 DEF ShapedDisk
  <2>4. PagesAreTheirs' /\ OutputIsWork'
    BY <1>1, <2>1, <2>2, <2>3 DEF PagesAreTheirs, OutputIsWork
  <2>5. WorkIsTrue'
    BY <1>1, <2>1, <2>2, <2>3 DEF WorkIsTrue, ReadRight
  <2>6. QED
    BY <2>2, <2>4, <2>5
<1>4. CASE WriteIndex
  <2>1. /\ At("index") /\ held' = held /\ work' = work
        /\ disk' = [disk EXCEPT !.index = IF work.vectors = {} THEN @ ELSE {work.vectors}]
    BY <1>4 DEF WriteIndex
  <2>2. /\ pc = "index" /\ pc' = "publish" /\ UNCHANGED <<world, job, file, Asked>>
        /\ (Pinned' => Pinned) /\ ResultIsTrue' /\ HeldIsTrue'
    BY <2>1, AdapterStep DEF Follows
  <2>3. /\ work.vectors # {} => disk'.index = {work.vectors}
        /\ UNCHANGED <<disk.docir, disk.stills, disk.batch>>
    BY <1>1, <2>1 DEF ShapedDisk
  <2>4. PagesAreTheirs' /\ OutputIsWork'
    BY <1>1, <2>1, <2>2, <2>3 DEF PagesAreTheirs, OutputIsWork
  <2>5. WorkIsTrue'
    BY <1>1, <2>1, <2>2, <2>3 DEF WorkIsTrue, ReadRight
  <2>6. QED
    BY <2>2, <2>4, <2>5
<1>5. CASE Publish
  <2>1. PICK located : /\ At("publish") /\ held' = held /\ disk' = disk
                       /\ work' = [work EXCEPT !.located = located]
    BY <1>5 DEF Publish, InMemory
  <2>2. /\ pc = "publish" /\ pc' = "check" /\ UNCHANGED <<world, job, file, Asked>>
        /\ (Pinned' => Pinned) /\ ResultIsTrue' /\ HeldIsTrue'
    BY <2>1, AdapterStep DEF Follows
  <2>3. UNCHANGED <<work.rows, work.vectors, work.docir, work.scenes>>
    BY <1>1, <2>1 DEF ShapedWork
  <2>4. PagesAreTheirs' /\ OutputIsWork'
    BY <1>1, <2>1, <2>2, <2>3 DEF PagesAreTheirs, OutputIsWork
  <2>5. WorkIsTrue'
    BY <1>1, <2>1, <2>2, <2>3 DEF WorkIsTrue, ReadRight
  <2>6. QED
    BY <2>2, <2>4, <2>5
<1>6. QED
  BY <1>2, <1>3, <1>4, <1>5

\* The coordinator hashes the original before it takes what the attempt left.
LEMMA CheckKeepsTruth ==
  ASSUME JobTruth, Check
  PROVE  PagesAreTheirs' /\ WorkIsTrue' /\ OutputIsWork' /\ ResultIsTrue' /\ HeldIsTrue'
<1>1. /\ JobTypeOK /\ ShapedWork(work) /\ PagesAreTheirs /\ WorkIsTrue /\ OutputIsWork /\ HeldIsTrue
  BY DEF JobTruth, JobShape
<1>2. PICK b \in disk.batch :
        /\ At("check") /\ held' = held /\ disk' = disk /\ file = job.asked
        /\ work' = [work EXCEPT !.result = {b.rows},
                      !.vectors = IF work.vectors = {} THEN {} ELSE UNION disk.index]
  BY DEF Check, StillTheOriginal, InMemory
<1>3. /\ pc = "check" /\ pc' = "import" /\ UNCHANGED <<world, job, file>>
      /\ job.kind \in {"video", "audio", "document"}
  BY <1>1, <1>2, StepsFollow, JobAssumption DEF JobTypeOK, Follows
<1>4. Asked' = Asked
  BY <1>3 DEF Asked
<1>5. Pinned
  BY <1>2, <1>3 DEF Pinned, Stopped
<1>6. /\ work'.result = {b.rows} /\ UNCHANGED work.docir
      /\ work'.vectors = IF work.vectors = {} THEN {} ELSE UNION disk.index
  BY <1>1, <1>2 DEF ShapedWork
<1>7. b.rows = work.rows /\ work'.vectors = work.vectors
  <2>1. work.vectors # {} => UNION disk.index = work.vectors
    BY <1>1, <1>3 DEF OutputIsWork
  <2>2. QED
    BY <1>1, <1>3, <1>6, <2>1 DEF OutputIsWork
<1>8. TrueResult(work.rows, work.vectors)
  BY <1>1, <1>3, <1>5 DEF WorkIsTrue, ReadRight, TrueResult
<1>9. ResultIsTrue'
  BY <1>3, <1>4, <1>6, <1>7, <1>8 DEF ResultIsTrue, TrueResult
<1>10. HeldIsTrue'
  BY <1>1, <1>2, <1>3, <1>4 DEF HeldIsTrue, TrueResult
<1>11. PagesAreTheirs' /\ OutputIsWork'
  BY <1>1, <1>2, <1>3, <1>6, <1>7 DEF PagesAreTheirs, OutputIsWork
<1>12. WorkIsTrue'
  BY <1>3 DEF WorkIsTrue, Pinned
<1>13. QED
  BY <1>9, <1>10, <1>11, <1>12

LEMMA ImportKeepsTruth ==
  ASSUME JobTruth, Import
  PROVE  PagesAreTheirs' /\ WorkIsTrue' /\ OutputIsWork' /\ ResultIsTrue' /\ HeldIsTrue'
<1>1. JobTypeOK /\ PagesAreTheirs /\ OutputIsWork /\ ResultIsTrue
  BY DEF JobTruth, JobShape
<1>2. PICK rows \in work.result : /\ At("import") /\ work' = work /\ disk' = disk
                                  /\ held' = {[rows |-> rows, vectors |-> work.vectors]}
  BY DEF Import
<1>3. pc = "import" /\ pc' = "done" /\ UNCHANGED <<world, job, file>>
  BY <1>1, <1>2, StepsFollow DEF JobTypeOK, Follows
<1>4. Asked' = Asked
  BY <1>3 DEF Asked
<1>5. TrueResult(rows, work.vectors)
  BY <1>1, <1>2, <1>3 DEF ResultIsTrue
<1>6. HeldIsTrue'
  BY <1>2, <1>3, <1>4, <1>5 DEF HeldIsTrue, TrueResult
<1>7. QED
  BY <1>1, <1>2, <1>3, <1>6 DEF PagesAreTheirs, WorkIsTrue, Pinned, Stopped, OutputIsWork, ResultIsTrue

LEMMA OthersKeepTruth ==
  ASSUME JobTruth, ~MayRestore, Fail \/ Retry \/ (\E c \in Contents : Overwrite(c)) \/ UNCHANGED jobVars
  PROVE  PagesAreTheirs' /\ WorkIsTrue' /\ OutputIsWork' /\ ResultIsTrue' /\ HeldIsTrue'
<1>1. /\ JobTypeOK /\ PagesAreTheirs /\ WorkIsTrue /\ OutputIsWork /\ ResultIsTrue /\ HeldIsTrue
      /\ (pc \in {"verify", "failed"} => work = Blank)
  BY DEF JobTruth, JobShape
<1>2. UNCHANGED <<world, job, held, Asked>>
  BY DEF Fail, Retry, Overwrite, jobVars, Asked
<1>3. HeldIsTrue'
  BY <1>1, <1>2 DEF HeldIsTrue, TrueResult
<1>4. CASE Fail
  <2>1. pc' = "failed" /\ work' = Blank /\ disk' = disk
    BY <1>4 DEF Fail
  <2>2. PagesAreTheirs' /\ OutputIsWork'
    BY <1>1, <1>2, <2>1 DEF PagesAreTheirs, OutputIsWork, Blank
  <2>3. QED
    BY <1>3, <2>1, <2>2 DEF WorkIsTrue, Pinned, Stopped, ResultIsTrue
<1>5. CASE Retry
  <2>1. pc = "failed" /\ pc' = "verify" /\ work' = work /\ disk' \in {disk, EmptyDisk}
    BY <1>5 DEF Retry
  <2>2. work = Blank
    BY <1>1, <2>1
  <2>3. PagesAreTheirs' /\ OutputIsWork'
    BY <1>1, <1>2, <2>1, <2>2 DEF PagesAreTheirs, OutputIsWork, Blank, EmptyDisk
  <2>4. WorkIsTrue'
    BY <1>2, <2>1, <2>2, BlankShows DEF WorkIsTrue, ReadRight
  <2>5. QED
    BY <1>3, <2>1, <2>3, <2>4 DEF ResultIsTrue
<1>6. CASE \E c \in Contents : Overwrite(c)
  <2>1. PICK c \in Contents : Overwrite(c)
    BY <1>6
  <2>2. UNCHANGED <<pc, work, disk>> /\ (file' = job.asked => pc \in Stopped)
    BY <2>1 DEF Overwrite
  <2>3. ~Pinned'
    BY <1>2, <2>2 DEF Pinned
  <2>4. QED
    BY <1>1, <1>2, <1>3, <2>2, <2>3 DEF PagesAreTheirs, OutputIsWork, WorkIsTrue, ResultIsTrue, TrueResult
<1>7. CASE UNCHANGED jobVars
  <2>1. UNCHANGED <<file, pc, work, disk>>
    BY <1>7 DEF jobVars
  <2>2. QED
    BY <1>1, <1>2, <1>3, <2>1 DEF PagesAreTheirs, OutputIsWork, WorkIsTrue, ResultIsTrue, TrueResult,
       Pinned, ReadRight
<1>8. QED
  BY <1>4, <1>5, <1>6, <1>7

LEMMA JobNextTruth == ~MayRestore /\ JobTruth /\ [JobNext]_jobVars => JobTruth'
<1> SUFFICES ASSUME ~MayRestore, JobTruth, [JobNext]_jobVars PROVE JobTruth'
  OBVIOUS
<1>1. JobShape'
  BY JobNextShape DEF JobTruth
<1>2. CASE Adapter
  BY <1>1, <1>2, OpeningsKeepTruth, CutKeepsTruth, AnalyzeKeepsTruth, ListenKeepsTruth, PagesKeepTruth,
     OutputKeepsTruth DEF Adapter, JobTruth
<1>3. CASE Check
  BY <1>1, <1>3, CheckKeepsTruth DEF JobTruth
<1>4. CASE Import
  BY <1>1, <1>4, ImportKeepsTruth DEF JobTruth
<1>5. CASE Fail \/ Retry \/ (\E c \in Contents : Overwrite(c)) \/ UNCHANGED jobVars
  BY <1>1, <1>5, OthersKeepTruth DEF JobTruth
<1>6. QED
  BY <1>2, <1>3, <1>4, <1>5 DEF JobNext

\* Every variable of a job keeps its shape: the steps its adapter takes are on
\* the route of its kind, and nothing is held before the import has run.
THEOREM JobTypeCorrect == JobSpec => []JobTypeOK
<1>1. JobInit => JobShape
  BY JobInitShape
<1>2. JobShape /\ [JobNext]_jobVars => JobShape'
  BY JobNextShape
<1>3. JobShape => JobTypeOK
  BY DEF JobShape
<1>4. QED
  BY <1>1, <1>2, <1>3, PTL DEF JobSpec

\* What an attempt holds in memory, writes to its directory and hands to the
\* import is true of the original for as long as the file is the one asked for.
LEMMA JobTruthHolds ==
  ASSUME ~MayRestore
  PROVE  JobSpec => []JobTruth
<1>1. JobInit => JobTruth
  BY JobInitTruth
<1>2. JobTruth /\ [JobNext]_jobVars => JobTruth'
  BY JobNextTruth
<1>3. QED
  BY <1>1, <1>2, PTL DEF JobSpec

\* Everything an imported result says comes from the bytes the job was queued
\* for, whatever was done to the file while the adapter read it again and
\* again, if those bytes do not come back in the middle of an attempt.
THEOREM ImportShowsTheOriginal ==
  ASSUME ~MayRestore
  PROVE  JobSpec => []ResultShowsTheOriginal
<1>1. JobTruth => ResultShowsTheOriginal
  BY DEF JobTruth, HeldIsTrue, TrueResult, Shows, ResultShowsTheOriginal, FramesAt
<1>2. QED
  BY <1>1, JobTruthHolds, PTL

\* The scenes of an imported video divide what can be decoded of it, a missing
\* tail begins where the last one ends, and in a steady recording none outlasts
\* the interval asked for or one frame.
THEOREM ImportedScenesDivide ==
  ASSUME ~MayRestore
  PROVE  JobSpec => []EveryMomentIsIndexed
<1>1. JobTruth => EveryMomentIsIndexed
  BY DEF JobTruth, HeldIsTrue, TrueResult, Divides, EveryMomentIsIndexed
<1>2. QED
  BY <1>1, JobTruthHolds, PTL

\* In a transcript ordered by the starts of its segments, a stretch in which
\* nobody is heard, as long as the gap, is within a silence: the one before the
\* first segment that begins no earlier than the stretch ends.
LEMMA SilencesAreTold ==
  ASSUME NEW r, IsRecording(r), IsMappable(r.words), NEW gap \in Nat, gap > 0,
         NEW v \in Range(r.words), NEW w \in Range(r.words), w.from >= v.to + gap,
         \A u \in Range(r.words) : u.to <= v.to \/ w.from <= u.from
  PROVE  \E g \in Silences(r.words, gap) : g.from <= v.to /\ w.from <= g.to
<1> DEFINE words == r.words
           later == {k \in DOMAIN words : w.from <= words[k].from}
<1>1. /\ words \in Seq(Range(words))
      /\ \A u \in Range(words) : u.from \in Nat /\ u.to \in Nat
      /\ \A i, j \in DOMAIN words : i < j => words[i].from <= words[j].from
  BY DEF IsRecording
<1>2. \A i \in DOMAIN words : words[i].from <= words[i].to
  BY DEF IsMappable
<1> HIDE DEF words
<1>3. PICK p \in DOMAIN words, q \in DOMAIN words : v = words[p] /\ w = words[q]
  BY DEF words, Range
<1>4. Len(words) \in Nat /\ DOMAIN words = 1 .. Len(words)
  BY <1>1
<1>5. \A i \in DOMAIN words : words[i] \in Range(words) /\ words[i].from \in Nat /\ words[i].to \in Nat
  BY <1>1 DEF Range
<1>6. PICK i \in later : \A k \in later : i <= k
  <2>1. later \in SUBSET Nat
    BY <1>4
  <2>2. q \in later
    BY <1>3, <1>5
  <2> HIDE DEF later
  <2>3. QED
    BY <2>1, <2>2, LeastNatural
<1>7. i \in 2 .. Len(words)
  <2>1. i \in 1 .. Len(words) /\ p \in 1 .. Len(words)
    BY <1>3, <1>4, <1>6
  <2>2. words[p].from < words[i].from
    BY <1>2, <1>3, <1>4, <1>5, <1>6
  <2>3. i # 1
    <3>1. SUFFICES ASSUME i = 1 PROVE FALSE
      OBVIOUS
    <3>2. p = 1 \/ 1 < p
      BY <2>1
    <3>3. words[1].from <= words[p].from
      BY <1>1, <1>4, <1>5, <2>1, <3>1, <3>2
    <3>4. QED
      BY <1>5, <1>4, <2>1, <2>2, <3>1, <3>3
  <2>4. QED
    BY <1>4, <2>1, <2>3
<1>8. words[i - 1].to <= v.to
  <2>1. i - 1 \in DOMAIN words /\ i - 1 < i /\ i - 1 \in Nat /\ i \in Nat
    BY <1>4, <1>7
  <2>2. i - 1 \notin later
    BY <1>6, <2>1
  <2>3. ~ (w.from <= words[i - 1].from)
    BY <2>1, <2>2
  <2>4. QED
    BY <1>5, <2>1, <2>3 DEF words
<1>9. [from |-> words[i - 1].to, to |-> words[i].from] \in Silences(words, gap)
  <2>1. words[i].from >= words[i - 1].to + gap
    <3>1. i \in DOMAIN words /\ i - 1 \in DOMAIN words
      BY <1>4, <1>7
    <3>2. w.from <= words[i].from
      BY <1>6
    <3>3. QED
      BY <1>1, <1>5, <1>8, <3>1, <3>2 DEF words
  <2>2. QED
    BY <1>7, <2>1 DEF Silences, SilentSince
<1>10. QED
  BY <1>6, <1>8, <1>9 DEF words

\* Every stretch as long as the gap in which nobody is heard, from the end of
\* one segment to the start of another, lies within a stretch an imported result
\* tells as silent, whatever segments lie within one another before it.
THEOREM ImportTellsEverySilence ==
  ASSUME ~MayRestore
  PROVE  JobSpec => []EverySilenceIsTold
<1>1. JobTruth => EverySilenceIsTold
  <2> SUFFICES ASSUME JobTruth, NEW h \in held, h.rows.statements # {}, job.gap > 0,
                      NEW v \in Range(Asked.words), NEW w \in Range(Asked.words),
                      w.from >= v.to + job.gap,
                      \A u \in Range(Asked.words) : u.to <= v.to \/ w.from <= u.from
               PROVE  \E g \in h.rows.silences : g.from <= v.to /\ w.from <= g.to
    BY DEF EverySilenceIsTold
  <2>1. IsMappable(Asked.words) /\ h.rows.silences = Silences(Asked.words, job.gap)
    BY DEF JobTruth, HeldIsTrue, TrueResult, Shows
  <2>2. IsRecording(Asked) /\ job.gap \in Nat
    BY RecordedIsRecording DEF JobTruth, JobShape
  <2>3. QED
    BY <2>1, <2>2, SilencesAreTold
<1>2. QED
  BY <1>1, JobTruthHolds, PTL
=============================================================================
