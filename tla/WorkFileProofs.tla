--------------------------- MODULE WorkFileProofs ---------------------------
(* What holds of the work file of a case of any size, however many people   *)
(* write it: the versions of a work product are one line, an export accounts *)
(* for every relationship, the statements of a view read one view, and a     *)
(* digest tells every passage.                                              *)
EXTENDS Digest, FiniteSetTheorems, WellFoundedInduction, TLAPS

----------------------------------------------------------------------------
(* Types.                                                                   *)

VersionRows == [kind : WorkKinds, version : Nat \ {0}, supersedes : Ids \cup {None}]
BriefRows == [posture : Postures, version : Nat, paragraphs : Paragraphs]

VersionFlows == [op : {"version"}, id : Ids, row : VersionRows]
BriefFlows ==
  [op : {"brief"}, id : Ids, snapshot : {"none", "current", "stale"}, row : BriefRows]

\* What an export has read of the case so far.
Audiences == {"disclosable", "work-file"}
ExportFlows == [op : {"export"}, audience : Audiences, fresh : BOOLEAN]
CountFlows ==
  [op : {"count"}, audience : Audiences, fresh : BOOLEAN,
   lines : SUBSET Evidence, unsupported : SUBSET Propositions, unreviewed : Nat]
PrivilegeFlows ==
  [op : {"privilege"}, audience : Audiences, fresh : BOOLEAN,
   lines : SUBSET Evidence, unsupported : SUBSET Propositions, unreviewed : Nat, omitted : Nat]
ExportedFlows ==
  [op : {"exported"}, fresh : BOOLEAN,
   lines : SUBSET Evidence, unsupported : SUBSET Propositions, unreviewed : Nat, omitted : Nat,
   privileged : SUBSET ({"version", "brief"} \X Ids)]

IsFlow(d) ==
  \/ d = Idle
  \/ d \in VersionFlows
  \/ d \in BriefFlows
  \/ d = [op |-> "charge", request |-> d.request]
  \/ d = [op |-> "map", pair |-> d.pair, assessment |-> d.assessment] /\ d.assessment \in Assessments
  \/ d \in ExportFlows
  \/ d \in CountFlows
  \/ d \in PrivilegeFlows
  \/ d \in ExportedFlows

Typed(flows) == flows = [w \in Processes |-> flows[w]] /\ \A w \in Processes : IsFlow(flows[w])

\* No table is without a highest number, so the next number is one.
Numbered(table) == \E n \in Nat : \A id \in DOMAIN table : table[id].version <= n

Types ==
  /\ TypeOK
  /\ versions = [id \in DOMAIN versions |-> versions[id]]
  /\ briefs = [id \in DOMAIN briefs |-> briefs[id]]
  /\ Numbered(versions) /\ Numbered(briefs)
  /\ \A c \in Passages : passageState[c] # "absent"
  /\ Typed(doing)

LEMMA LeastIsThere ==
  ASSUME NEW S, S \subseteq Nat, S # {}
  PROVE  \E n \in S : \A m \in S : n <= m
<1> DEFINE Less == OpToRel(<, Nat)
<1>1. IsWellFoundedOn(Less, Nat)
  BY NatLessThanWellFounded
<1>2. \A x, y \in Nat : x < y => <<x, y>> \in Less
  BY DEF OpToRel
<1> HIDE DEF Less
<1>3. PICK n \in S : \A m \in S : <<m, n>> \notin Less
  BY <1>1, WFMin
<1>4. ASSUME NEW m \in S PROVE n <= m
  <2>1. m \in Nat /\ n \in Nat
    OBVIOUS
  <2>2. ~ (m < n)
    BY <1>2, <1>3, <2>1
  <2>3. QED
    BY <2>1, <2>2
<1>5. QED
  BY <1>4

LEMMA GreatestIsThere ==
  ASSUME NEW S, S \subseteq Nat, S # {}, NEW n \in Nat, \A m \in S : m <= n
  PROVE  \E k \in S : \A m \in S : m <= k
<1> DEFINE Below == {n - m : m \in S}
<1>0. \A m \in S : n - m \in Nat
  OBVIOUS
<1>1. Below \subseteq Nat /\ Below # {}
  BY <1>0
<1>2. PICK d \in Below : \A e \in Below : d <= e
  BY <1>1, LeastIsThere
<1>3. PICK k \in S : d = n - k
  BY <1>2
<1>4. ASSUME NEW m \in S PROVE m <= k
  <2>1. n - k <= n - m /\ m \in Nat /\ k \in Nat
    BY <1>2, <1>3
  <2>2. QED
    BY <2>1
<1>5. QED
  BY <1>4

\* The number read for a brief: the highest of its posture, which is none or there.
LEMMA HighestNumber ==
  ASSUME Types, NEW p
  PROVE  /\ NumbersOf(p) \subseteq Nat /\ Highest(NumbersOf(p)) \in Nat
         /\ \A n \in NumbersOf(p) : n <= Highest(NumbersOf(p))
<1>1. \A id \in DOMAIN briefs : briefs[id].version \in Nat
  BY DEF Types, TypeOK
<1>2. NumbersOf(p) \subseteq Nat
  BY <1>1 DEF NumbersOf
<1>3. PICK n \in Nat : \A id \in DOMAIN briefs : briefs[id].version <= n
  BY DEF Types, Numbered
<1>4. \A m \in NumbersOf(p) : m <= n
  BY <1>3 DEF NumbersOf
<1>5. CASE NumbersOf(p) = {}
  BY <1>2, <1>5 DEF Highest
<1>6. CASE NumbersOf(p) # {}
  <2>1. \E k \in NumbersOf(p) : \A m \in NumbersOf(p) : m <= k
    BY <1>2, <1>3, <1>4, <1>6, GreatestIsThere
  <2>2. QED
    BY <1>2, <1>6, <2>1 DEF Highest
<1>7. QED
  BY <1>5, <1>6

LEMMA InitTypes == Init => Types
<1> SUFFICES ASSUME Init PROVE Types
  OBVIOUS
<1>1. PICK h \in Histories :
        charges = h.charges /\ links = h.links /\ lineState = h.line /\ passageState = h.passage
  BY DEF Init
<1>2. /\ lineState \in [Evidence -> ReviewStates]
      /\ passageState \in [Passages -> ReviewStates \ {"absent"}]
      /\ \A k \in DOMAIN links : links[k] \in Assessments
  BY <1>1, ConstantsAssumption
<1>3. passageState \in [Passages -> ReviewStates] /\ \A c \in Passages : passageState[c] # "absent"
  BY <1>2
<1>4. DOMAIN versions = {} /\ DOMAIN briefs = {} /\ versions = [id \in {} |-> versions[id]]
      /\ briefs = [id \in {} |-> briefs[id]]
  BY DEF Init, EmptyTable
<1>5. Typed(doing)
  BY DEF Init, IsFlow, Typed
<1>6. Numbered(versions) /\ Numbered(briefs)
  BY <1>4 DEF Numbered
<1>7. TypeOK
  BY <1>2, <1>3, <1>4 DEF TypeOK
<1>8. QED
  BY <1>3, <1>4, <1>5, <1>6, <1>7 DEF Types

----------------------------------------------------------------------------
(* What the steps do to the commands under way.                             *)

LEMMA FlowOfOp ==
  ASSUME NEW d, IsFlow(d)
  PROVE  /\ d.op = "version" => d \in VersionFlows
         /\ d.op = "brief" => d \in BriefFlows
         /\ d.op = "charge" => d = [op |-> "charge", request |-> d.request]
         /\ d.op = "map" => /\ d = [op |-> "map", pair |-> d.pair, assessment |-> d.assessment]
                            /\ d.assessment \in Assessments
         /\ d.op = "export" => d \in ExportFlows
         /\ d.op = "count" => d \in CountFlows
         /\ d.op = "privilege" => d \in PrivilegeFlows
         /\ d.op = "exported" => d \in ExportedFlows
<1>1. CASE d = Idle
  BY <1>1 DEF Idle
<1>2. CASE d \in VersionFlows
  BY <1>2 DEF VersionFlows
<1>3. CASE d \in BriefFlows
  BY <1>3 DEF BriefFlows
<1>4. CASE d = [op |-> "charge", request |-> d.request]
  <2>1. d.op = "charge"
    BY <1>4
  <2>2. QED
    BY <1>4, <2>1
<1>5. CASE /\ d = [op |-> "map", pair |-> d.pair, assessment |-> d.assessment]
           /\ d.assessment \in Assessments
  <2>1. d.op = "map"
    BY <1>5
  <2>2. QED
    BY <1>5, <2>1
<1>6. CASE d \in ExportFlows
  BY <1>6 DEF ExportFlows
<1>7. CASE d \in CountFlows
  BY <1>7 DEF CountFlows
<1>8. CASE d \in PrivilegeFlows
  BY <1>8 DEF PrivilegeFlows
<1>9. CASE d \in ExportedFlows
  BY <1>9 DEF ExportedFlows
<1>10. QED
  BY <1>1, <1>2, <1>3, <1>4, <1>5, <1>6, <1>7, <1>8, <1>9 DEF IsFlow

\* Only an export remembers whether it is fresh.
LEMMA FreshIsExported ==
  ASSUME NEW d, IsFlow(d)
  PROVE  "fresh" \in DOMAIN d <=> d.op \in {"export", "count", "privilege", "exported"}
<1>1. CASE d = Idle
  BY <1>1 DEF Idle
<1>2. CASE d \in VersionFlows
  BY <1>2 DEF VersionFlows
<1>3. CASE d \in BriefFlows
  BY <1>3 DEF BriefFlows
<1>4. CASE d = [op |-> "charge", request |-> d.request]
  <2>1. DOMAIN d = {"op", "request"} /\ d.op = "charge"
    BY <1>4
  <2>2. QED
    BY <2>1
<1>5. CASE /\ d = [op |-> "map", pair |-> d.pair, assessment |-> d.assessment]
           /\ d.assessment \in Assessments
  <2>1. DOMAIN d = {"op", "pair", "assessment"} /\ d.op = "map"
    BY <1>5
  <2>2. QED
    BY <2>1
<1>6. CASE d \in ExportFlows
  BY <1>6 DEF ExportFlows
<1>7. CASE d \in CountFlows
  BY <1>7 DEF CountFlows
<1>8. CASE d \in PrivilegeFlows
  BY <1>8 DEF PrivilegeFlows
<1>9. CASE d \in ExportedFlows
  BY <1>9 DEF ExportedFlows
<1>10. QED
  BY <1>1, <1>2, <1>3, <1>4, <1>5, <1>6, <1>7, <1>8, <1>9 DEF IsFlow

\* A brief whose snapshot another commit has overtaken.
Overtaken(d) == [d EXCEPT !.snapshot = "stale"]
\* An export that has seen part of an older case.
Mixed(d) == [d EXCEPT !.fresh = FALSE]

LEMMA OvertakenBrief ==
  ASSUME NEW d \in BriefFlows
  PROVE  /\ Overtaken(d) \in BriefFlows /\ Overtaken(d).op = "brief"
         /\ Overtaken(d).id = d.id /\ Overtaken(d).row = d.row
BY DEF BriefFlows, Overtaken

LEMMA MixedExport ==
  ASSUME NEW d, IsFlow(d), "fresh" \in DOMAIN d
  PROVE  /\ IsFlow(Mixed(d)) /\ Mixed(d).op = d.op /\ Mixed(d).fresh = FALSE
         /\ d.op \in {"count", "privilege", "exported"} =>
              Mixed(d).lines = d.lines /\ Mixed(d).unsupported = d.unsupported
         /\ d.op = "exported" => Mixed(d).privileged = d.privileged
<1>0. d.op \in {"export", "count", "privilege", "exported"}
  BY FreshIsExported
<1>1. CASE d.op = "export"
  <2>1. d \in ExportFlows
    BY <1>1, FlowOfOp
  <2>2. Mixed(d) \in ExportFlows /\ Mixed(d).op = d.op /\ Mixed(d).fresh = FALSE
    BY <2>1 DEF ExportFlows, Mixed
  <2>3. QED
    BY <1>1, <2>2 DEF IsFlow
<1>2. CASE d.op = "count"
  <2>1. d \in CountFlows
    BY <1>2, FlowOfOp
  <2>2. Mixed(d) \in CountFlows /\ Mixed(d).op = d.op /\ Mixed(d).fresh = FALSE
        /\ Mixed(d).lines = d.lines /\ Mixed(d).unsupported = d.unsupported
    BY <2>1 DEF CountFlows, Mixed
  <2>3. QED
    BY <1>2, <2>2 DEF IsFlow
<1>3. CASE d.op = "privilege"
  <2>1. d \in PrivilegeFlows
    BY <1>3, FlowOfOp
  <2>2. Mixed(d) \in PrivilegeFlows /\ Mixed(d).op = d.op /\ Mixed(d).fresh = FALSE
        /\ Mixed(d).lines = d.lines /\ Mixed(d).unsupported = d.unsupported
    BY <2>1 DEF PrivilegeFlows, Mixed
  <2>3. QED
    BY <1>3, <2>2 DEF IsFlow
<1>4. CASE d.op = "exported"
  <2>1. d \in ExportedFlows
    BY <1>4, FlowOfOp
  <2>2. Mixed(d) \in ExportedFlows /\ Mixed(d).op = d.op /\ Mixed(d).fresh = FALSE
        /\ Mixed(d).lines = d.lines /\ Mixed(d).unsupported = d.unsupported
        /\ Mixed(d).privileged = d.privileged
    BY <2>1 DEF ExportedFlows, Mixed
  <2>3. QED
    BY <1>4, <2>2 DEF IsFlow
<1>5. QED
  BY <1>0, <1>1, <1>2, <1>3, <1>4

\* Every step lets one process, or none, go on to what it does next; of the
\* others it may overtake the briefs, or spoil what is read over statements.
Goes(w, d) ==
  /\ doing'[w] = d
  /\ \A v \in Processes \ {w} : doing'[v] = doing[v]
GoesAhead(w, d) ==
  /\ doing'[w] = d
  /\ \A v \in Processes \ {w} :
       doing'[v] = IF doing[v].op = "brief" THEN Overtaken(doing[v]) ELSE doing[v]
Disturbed ==
  \A v \in Processes :
    doing'[v] = IF doing[v].op = "brief" THEN Overtaken(doing[v])
                ELSE IF "fresh" \in DOMAIN doing[v] THEN Mixed(doing[v]) ELSE doing[v]

LEMMA BecomeTyped ==
  ASSUME Typed(doing), NEW w \in Processes, NEW d, IsFlow(d), Become(w, d)
  PROVE  Typed(doing)' /\ Goes(w, d)
<1>1. Goes(w, d) /\ doing' = [v \in Processes |-> doing'[v]]
  BY DEF Typed, Become, Goes
<1>2. \A v \in Processes : IsFlow(doing'[v])
  BY <1>1 DEF Typed, Goes
<1>3. QED
  BY <1>1, <1>2 DEF Typed

LEMMA CommitTyped ==
  ASSUME Typed(doing), NEW w \in Processes, CommitAs(w, Idle)
  PROVE  Typed(doing)' /\ GoesAhead(w, Idle)
<1>1. GoesAhead(w, Idle) /\ doing' = [v \in Processes |-> doing'[v]]
  BY DEF CommitAs, GoesAhead, Overtaken
<1>2. ASSUME NEW v \in Processes PROVE IsFlow(doing'[v])
  <2>1. CASE v = w
    BY <1>1, <2>1 DEF GoesAhead, IsFlow
  <2>2. CASE v # w /\ doing[v].op = "brief"
    BY <1>1, <2>2, FlowOfOp, OvertakenBrief DEF GoesAhead, Typed, IsFlow
  <2>3. CASE v # w /\ doing[v].op # "brief"
    BY <1>1, <2>3 DEF GoesAhead, Typed
  <2>4. QED
    BY <2>1, <2>2, <2>3
<1>3. QED
  BY <1>1, <1>2 DEF Typed

LEMMA DisturbTyped ==
  ASSUME Typed(doing), Disturb
  PROVE  Typed(doing)' /\ Disturbed
<1>1. Disturbed /\ doing' = [v \in Processes |-> doing'[v]]
  BY DEF Disturb, Disturbed, Overtaken, Mixed
<1>2. ASSUME NEW v \in Processes PROVE IsFlow(doing'[v])
  <2>1. CASE doing[v].op = "brief"
    BY <1>1, <2>1, FlowOfOp, OvertakenBrief DEF Disturbed, Typed, IsFlow
  <2>2. CASE doing[v].op # "brief" /\ "fresh" \in DOMAIN doing[v]
    BY <1>1, <2>2, MixedExport DEF Disturbed, Typed
  <2>3. CASE doing[v].op # "brief" /\ "fresh" \notin DOMAIN doing[v]
    BY <1>1, <2>3 DEF Disturbed, Typed
  <2>4. QED
    BY <2>1, <2>2, <2>3
<1>3. QED
  BY <1>1, <1>2 DEF Typed

----------------------------------------------------------------------------
(* The inductive invariant.  A version revises one that is there and takes   *)
(* the next number; no two revise the same.                                 *)

FitRow(row) ==
  \/ row.supersedes = None /\ row.version = 1
  \/ /\ row.supersedes \in DOMAIN versions
     /\ row.version = versions[row.supersedes].version + 1
     /\ row.kind = versions[row.supersedes].kind

Chained ==
  /\ \A n \in DOMAIN versions : FitRow(versions[n])
  /\ \A m, n \in DOMAIN versions :
       versions[m].supersedes = versions[n].supersedes /\ versions[n].supersedes # None => m = n

BriefsApart ==
  \A a, b \in DOMAIN briefs :
    briefs[a].posture = briefs[b].posture /\ briefs[a].version = briefs[b].version => a = b

\* What a team's export shows stays one line for each history and posture.
Lasting(S) ==
  /\ \A a \in S : a \in {"version"} \X DOMAIN versions \/ a \in {"brief"} \X DOMAIN briefs
  /\ \A a, b \in S :
       a # b /\ a[1] = b[1] =>
         IF a[1] = "version" THEN Earliest[a[2]] # Earliest[b[2]]
         ELSE briefs[a[2]].posture # briefs[b[2]].posture

Undecided(lines) ==
  {e \in lines : ~(lineState[e] \in {"reviewed", "rejected"}
                     /\ passageState[Bears[e].passage] \in {"reviewed", "rejected"})}
Rejected == {e \in Evidence : lineState[e] = "rejected"}

\* What an export has read is what there is, unless somebody decided meanwhile.
Accounted(d) ==
  /\ d.unsupported = Propositions \ {Bears[e].proposition : e \in d.lines}
  /\ d.fresh => /\ d.lines = ExportedEvidence
                /\ d.unreviewed = Cardinality(Undecided(d.lines))
                /\ d.op # "count" => d.omitted = Cardinality(Rejected)
  /\ d.op = "exported" => Lasting(d.privileged)

Fit(d) ==
  /\ d.op = "version" => FitRow(d.row)
  /\ d.op \in {"count", "privilege", "exported"} => Accounted(d)

IInv == Types /\ Chained /\ BriefsApart /\ \A w \in Processes : Fit(doing[w])

----------------------------------------------------------------------------
(* Histories.  A trail leads from a version that supersedes none to the one  *)
(* it ends with; it is what advocacy_history walks back.                    *)

IsTrail(t, n) ==
  /\ t \in Seq(DOMAIN versions) /\ t # << >> /\ t[Len(t)] = n
  /\ versions[t[1]].supersedes = None
  /\ \A i \in 1 .. Len(t) - 1 : versions[t[i + 1]].supersedes = t[i]

Ordered == Types /\ Chained

LEMMA VersionType ==
  ASSUME Ordered, NEW n \in DOMAIN versions
  PROVE  n \in Ids /\ n # None /\ versions[n].version \in Nat \ {0}
BY ConstantsAssumption DEF Ordered, Types, TypeOK

LEMMA FirstTrail ==
  ASSUME NEW n \in DOMAIN versions, versions[n].supersedes = None
  PROVE  IsTrail(<<n>>, n)
BY DEF IsTrail

LEMMA NextTrail ==
  ASSUME NEW n \in DOMAIN versions, NEW k, NEW t, IsTrail(t, k), versions[n].supersedes = k
  PROVE  IsTrail(Append(t, n), n)
<1>1. t \in Seq(DOMAIN versions) /\ Len(t) \in Nat \ {0} /\ t[Len(t)] = k
  BY DEF IsTrail
<1>2. /\ Append(t, n) \in Seq(DOMAIN versions) /\ Len(Append(t, n)) = Len(t) + 1
      /\ Append(t, n)[Len(t) + 1] = n
      /\ \A i \in 1 .. Len(t) : Append(t, n)[i] = t[i]
  BY <1>1
<1>3. QED
  BY <1>1, <1>2 DEF IsTrail

LEMMA Superseding ==
  ASSUME Ordered, NEW n \in DOMAIN versions
  PROVE  \/ versions[n].supersedes = None /\ versions[n].version = 1
         \/ LET k == versions[n].supersedes
            IN /\ k \in DOMAIN versions /\ k # None
               /\ versions[n].version = versions[k].version + 1
               /\ versions[n].kind = versions[k].kind
<1>1. FitRow(versions[n])
  BY DEF Ordered, Chained
<1>2. QED
  BY <1>1, VersionType DEF FitRow

LEMMA TrailTells ==
  ASSUME Ordered, NEW n, NEW t, IsTrail(t, n)
  PROVE  /\ n \in DOMAIN versions /\ versions[n].version = Len(t) /\ Len(t) \in Nat \ {0}
         /\ \A i \in 1 .. Len(t) : /\ t[i] \in DOMAIN versions /\ versions[t[i]].version = i
                                  /\ versions[t[i]].kind = versions[n].kind
<1>1. /\ t \in Seq(DOMAIN versions) /\ Len(t) \in Nat \ {0} /\ t[Len(t)] = n
      /\ \A i \in 1 .. Len(t) : t[i] \in DOMAIN versions
  BY DEF IsTrail
<1> DEFINE Wrong == {i \in 1 .. Len(t) : versions[t[i]].version # i \/ versions[t[i]].kind # versions[t[1]].kind}
<1>2. Wrong = {}
  <2> SUFFICES ASSUME Wrong # {} PROVE FALSE
    OBVIOUS
  <2>0. Wrong \subseteq Nat
    BY <1>1
  <2>1. PICK i \in Wrong : \A j \in Wrong : i <= j
    BY <2>0, LeastIsThere
  <2>2. i # 1
    BY <1>1, Superseding, VersionType DEF IsTrail
  <2>3. i - 1 \in 1 .. Len(t) - 1 /\ i \in 2 .. Len(t)
    BY <1>1, <2>2
  <2>4. versions[t[i - 1]].version = i - 1 /\ versions[t[i - 1]].kind = versions[t[1]].kind
    BY <2>1, <2>3
  <2>5. versions[t[(i - 1) + 1]].supersedes = t[i - 1]
    BY <2>3 DEF IsTrail
  <2>6. (i - 1) + 1 = i /\ t[i] \in DOMAIN versions /\ t[i - 1] \in DOMAIN versions
    BY <1>1, <2>3
  <2>7. t[i - 1] # None
    BY <2>6, VersionType
  <2>8. versions[t[i]].version = i /\ versions[t[i]].kind = versions[t[1]].kind
    BY <2>3, <2>4, <2>5, <2>6, <2>7, Superseding
  <2>9. QED
    BY <2>1, <2>8
<1>3. \A i \in 1 .. Len(t) : versions[t[i]].version = i /\ versions[t[i]].kind = versions[t[1]].kind
  BY <1>2
<1>4. QED
  BY <1>1, <1>3

LEMMA TrailIsOne ==
  ASSUME Ordered, NEW n, NEW t, NEW u, IsTrail(t, n), IsTrail(u, n)
  PROVE  t = u
<1>1. /\ t \in Seq(DOMAIN versions) /\ u \in Seq(DOMAIN versions) /\ Len(t) = Len(u)
      /\ Len(t) \in Nat \ {0} /\ t[Len(t)] = u[Len(t)]
  <2>1. versions[n].version = Len(t) /\ versions[n].version = Len(u)
    BY TrailTells
  <2>2. QED
    BY <2>1 DEF IsTrail
<1> DEFINE Apart == {j \in 0 .. Len(t) - 1 : t[Len(t) - j] # u[Len(t) - j]}
<1>2. Apart = {}
  <2> SUFFICES ASSUME Apart # {} PROVE FALSE
    OBVIOUS
  <2>0. Apart \subseteq Nat
    BY <1>1
  <2>1. PICK j \in Apart : \A l \in Apart : j <= l
    BY <2>0, LeastIsThere
  <2>2. j # 0
    BY <1>1
  <2>3. j - 1 \in 0 .. Len(t) - 1 /\ Len(t) - j \in 1 .. Len(t) - 1
        /\ Len(t) - (j - 1) = (Len(t) - j) + 1
    BY <1>1, <2>2
  <2>4. t[(Len(t) - j) + 1] = u[(Len(t) - j) + 1]
    <3>0. j \in Nat /\ ~ (j <= j - 1)
      BY <2>0, <2>1
    <3>1. j - 1 \notin Apart
      BY <2>1, <3>0
    <3>2. t[Len(t) - (j - 1)] = u[Len(t) - (j - 1)]
      BY <2>3, <3>1
    <3>3. QED
      BY <2>3, <3>2
  <2>5. t[Len(t) - j] = u[Len(t) - j]
    BY <1>1, <2>3, <2>4 DEF IsTrail
  <2>6. QED
    BY <2>1, <2>5
<1>3. ASSUME NEW i \in 1 .. Len(t) PROVE t[i] = u[i]
  <2>1. Len(t) - i \in 0 .. Len(t) - 1 /\ Len(t) - (Len(t) - i) = i
    BY <1>1
  <2>2. QED
    BY <1>2, <2>1
<1>4. QED
  BY <1>1, <1>3

LEMMA TrailExists ==
  ASSUME Ordered, NEW n \in DOMAIN versions
  PROVE  \E t : IsTrail(t, n)
<1> DEFINE Lost == {k \in DOMAIN versions : \A t : ~ IsTrail(t, k)}
           Numbers == {versions[k].version : k \in Lost}
<1>1. Lost = {}
  <2> SUFFICES ASSUME Lost # {} PROVE FALSE
    OBVIOUS
  <2>1. Numbers \subseteq Nat /\ Numbers # {}
    BY VersionType
  <2>2. PICK v \in Numbers : \A x \in Numbers : v <= x
    BY <2>1, LeastIsThere
  <2>3. PICK m \in Lost : versions[m].version = v
    OBVIOUS
  <2>4. versions[m].supersedes # None
    BY <2>3, FirstTrail
  <2>5. PICK k \in DOMAIN versions : /\ versions[m].supersedes = k
                                     /\ versions[m].version = versions[k].version + 1
    BY <2>3, <2>4, Superseding
  <2>6. k \notin Lost
    <3>1. versions[k].version \in Nat /\ ~ (v <= versions[k].version)
      BY <2>3, <2>5, VersionType
    <3>2. QED
      BY <2>2, <3>1
  <2>7. PICK t : IsTrail(t, k)
    BY <2>6
  <2>8. QED
    BY <2>3, <2>5, <2>7, NextTrail
<1>2. QED
  BY <1>1

\* The walk back of advocacy_history ends, at the start of the trail.
LEMMA WalkBack ==
  ASSUME Ordered
  PROVE  \A n \in DOMAIN versions : \A t : IsTrail(t, n) => Earliest[n] = t[1]
<1>1. DOMAIN versions \subseteq Ids
  BY VersionType
<1> DEFINE root == [n \in Ids |-> IF n \notin DOMAIN versions THEN n ELSE (CHOOSE t : IsTrail(t, n))[1]]
<1>2. \A n \in DOMAIN versions : \A t : IsTrail(t, n) => root[n] = t[1]
  <2> SUFFICES ASSUME NEW n \in DOMAIN versions, NEW t, IsTrail(t, n) PROVE root[n] = t[1]
    OBVIOUS
  <2>1. PICK u : u = CHOOSE x : IsTrail(x, n)
    OBVIOUS
  <2>2. IsTrail(u, n)
    BY <2>1
  <2>3. u = t
    BY <2>2, TrailIsOne
  <2>4. QED
    BY <1>1, <2>1, <2>3
<1>3. \A n \in Ids \ DOMAIN versions : root[n] = n
  OBVIOUS
<1>4. root = [n \in Ids |-> root[n]]
  OBVIOUS
<1> HIDE DEF root
<1>5. ASSUME NEW n \in Ids
      PROVE  root[n] = IF n \notin DOMAIN versions \/ versions[n].supersedes = None THEN n
                       ELSE root[versions[n].supersedes]
  <2>1. CASE n \notin DOMAIN versions
    BY <1>3, <2>1
  <2>2. CASE n \in DOMAIN versions /\ versions[n].supersedes = None
    <3>1. IsTrail(<<n>>, n) /\ <<n>>[1] = n
      BY <2>2, FirstTrail
    <3>2. QED
      BY <1>2, <2>2, <3>1
  <2>3. CASE n \in DOMAIN versions /\ versions[n].supersedes # None
    <3>1. PICK k \in DOMAIN versions : versions[n].supersedes = k
      BY <2>3, Superseding
    <3>2. PICK t : IsTrail(t, k)
      BY TrailExists
    <3>3. IsTrail(Append(t, n), n)
      BY <2>3, <3>1, <3>2, NextTrail
    <3>4. t \in Seq(DOMAIN versions) /\ t # << >>
      BY <3>2 DEF IsTrail
    <3>5. Append(t, n)[1] = t[1]
      BY <2>3, <3>4
    <3>6. root[n] = t[1] /\ root[k] = t[1]
      BY <1>2, <2>3, <3>2, <3>3, <3>5
    <3>7. QED
      BY <2>3, <3>1, <3>6
  <2>4. QED
    BY <2>1, <2>2, <2>3
<1>6. root = [n \in Ids |-> IF n \notin DOMAIN versions \/ versions[n].supersedes = None THEN n
                            ELSE root[versions[n].supersedes]]
  BY <1>4, <1>5
<1>7. Earliest = [n \in Ids |-> IF n \notin DOMAIN versions \/ versions[n].supersedes = None THEN n
                                ELSE Earliest[versions[n].supersedes]]
  BY <1>6 DEF Earliest
<1> DEFINE Lost == {n \in DOMAIN versions : \E t : IsTrail(t, n) /\ Earliest[n] # t[1]}
           Numbers == {versions[n].version : n \in Lost}
<1>8. Lost = {}
  <2> SUFFICES ASSUME Lost # {} PROVE FALSE
    OBVIOUS
  <2>1. Numbers \subseteq Nat /\ Numbers # {}
    BY VersionType
  <2>2. PICK v \in Numbers : \A x \in Numbers : v <= x
    BY <2>1, LeastIsThere
  <2>3. PICK m \in Lost : versions[m].version = v
    OBVIOUS
  <2>4. versions[m].supersedes # None
    <3>1. SUFFICES ASSUME versions[m].supersedes = None PROVE FALSE
      OBVIOUS
    <3>2. IsTrail(<<m>>, m) /\ <<m>>[1] = m
      BY <2>3, <3>1, FirstTrail
    <3>3. Earliest[m] = m
      BY <1>1, <1>7, <2>3, <3>1
    <3>4. \A t : IsTrail(t, m) => t = <<m>>
      BY <3>2, TrailIsOne
    <3>5. QED
      BY <2>3, <3>2, <3>3, <3>4
  <2>5. PICK k \in DOMAIN versions : /\ versions[m].supersedes = k
                                     /\ versions[m].version = versions[k].version + 1
    BY <2>3, <2>4, Superseding
  <2>6. k \notin Lost
    <3>1. versions[k].version \in Nat /\ ~ (v <= versions[k].version)
      BY <2>3, <2>5, VersionType
    <3>2. QED
      BY <2>2, <3>1
  <2>7. PICK t : IsTrail(t, k)
    BY TrailExists
  <2>8. IsTrail(Append(t, m), m)
    BY <2>3, <2>5, <2>7, NextTrail
  <2>9. t \in Seq(DOMAIN versions) /\ t # << >>
    BY <2>7 DEF IsTrail
  <2>10. Append(t, m)[1] = t[1]
    BY <2>3, <2>9
  <2>11. Earliest[m] = Earliest[k]
    BY <1>1, <1>7, <2>3, <2>4, <2>5
  <2>12. Earliest[k] = t[1]
    BY <2>6, <2>7
  <2>13. \A u : IsTrail(u, m) => u = Append(t, m)
    BY <2>8, TrailIsOne
  <2>14. QED
    BY <2>3, <2>10, <2>11, <2>12, <2>13
<1>9. QED
  BY <1>8

----------------------------------------------------------------------------
(* A tail leads from a version to one that nothing supersedes; it is what    *)
(* advocacy_history walks forward.                                          *)

IsTail(t, n) ==
  /\ t \in Seq(DOMAIN versions) /\ t # << >> /\ t[1] = n
  /\ IsCurrent(t[Len(t)])
  /\ \A i \in 1 .. Len(t) - 1 : versions[t[i + 1]].supersedes = t[i]

LEMMA LastTail ==
  ASSUME NEW n \in DOMAIN versions, IsCurrent(n)
  PROVE  IsTail(<<n>>, n)
BY DEF IsTail

LEMMA LongerTail ==
  ASSUME NEW n \in DOMAIN versions, NEW k, NEW t, IsTail(t, k), versions[k].supersedes = n
  PROVE  IsTail(<<n>> \o t, n)
<1>1. t \in Seq(DOMAIN versions) /\ Len(t) \in Nat \ {0} /\ t[1] = k
  BY DEF IsTail
<1>2. PICK u : u = <<n>> \o t
  OBVIOUS
<1>3. /\ u \in Seq(DOMAIN versions) /\ Len(u) = Len(t) + 1 /\ u[1] = n
      /\ \A i \in 1 .. Len(t) : u[i + 1] = t[i]
  BY <1>1, <1>2
<1>4. u[Len(u)] = t[Len(t)]
  BY <1>1, <1>3
<1>5. ASSUME NEW i \in 1 .. Len(u) - 1 PROVE versions[u[i + 1]].supersedes = u[i]
  <2>1. CASE i = 1
    BY <1>1, <1>3, <2>1
  <2>2. CASE i # 1
    <3>1. i - 1 \in 1 .. Len(t) - 1 /\ (i - 1) + 1 = i /\ i \in 1 .. Len(t) /\ i - 1 \in 1 .. Len(t)
      BY <1>1, <1>3, <2>2
    <3>2. versions[t[(i - 1) + 1]].supersedes = t[i - 1]
      BY <3>1 DEF IsTail
    <3>3. u[i + 1] = t[i] /\ u[(i - 1) + 1] = t[i - 1]
      BY <1>3, <3>1
    <3>4. QED
      BY <3>1, <3>2, <3>3
  <2>3. QED
    BY <2>1, <2>2
<1>6. IsTail(u, n)
  BY <1>3, <1>4, <1>5 DEF IsTail
<1>7. QED
  BY <1>2, <1>6

\* No revision is older than what it revises, and one version is revised once.
LEMMA Revised ==
  ASSUME Ordered, NEW n \in DOMAIN versions, ~ IsCurrent(n)
  PROVE  \E k \in DOMAIN versions :
           /\ versions[k].supersedes = n /\ versions[k].version = versions[n].version + 1
           /\ versions[k].kind = versions[n].kind
           /\ \A m \in DOMAIN versions : versions[m].supersedes = n => m = k
<1>1. PICK k \in DOMAIN versions : versions[k].supersedes = n
  BY DEF IsCurrent
<1>2. n # None
  BY VersionType
<1>3. versions[k].version = versions[n].version + 1 /\ versions[k].kind = versions[n].kind
  BY <1>1, <1>2, Superseding
<1>4. \A m \in DOMAIN versions : versions[m].supersedes = n => m = k
  BY <1>1, <1>2 DEF Ordered, Chained
<1>5. QED
  BY <1>1, <1>3, <1>4

LEMMA TailIsOne ==
  ASSUME Ordered, NEW n, NEW t, NEW u, IsTail(t, n), IsTail(u, n), Len(t) <= Len(u)
  PROVE  t = u
<1>1. /\ t \in Seq(DOMAIN versions) /\ u \in Seq(DOMAIN versions)
      /\ Len(t) \in Nat \ {0} /\ Len(u) \in Nat \ {0} /\ t[1] = n /\ u[1] = n
      /\ \A i \in 1 .. Len(t) : t[i] \in DOMAIN versions
      /\ \A i \in 1 .. Len(u) : u[i] \in DOMAIN versions
  BY DEF IsTail
<1> DEFINE Apart == {i \in 1 .. Len(t) : t[i] # u[i]}
<1>2. Apart = {}
  <2> SUFFICES ASSUME Apart # {} PROVE FALSE
    OBVIOUS
  <2>0. Apart \subseteq Nat
    BY <1>1
  <2>1. PICK i \in Apart : \A j \in Apart : i <= j
    BY <2>0, LeastIsThere
  <2>2. i # 1
    BY <1>1, <2>1
  <2>3. i - 1 \in 1 .. Len(t) - 1 /\ i - 1 \in 1 .. Len(u) - 1 /\ (i - 1) + 1 = i
    BY <1>1, <2>2
  <2>4. t[i - 1] = u[i - 1]
    <3>1. i - 1 \notin Apart
      BY <2>0, <2>1
    <3>2. QED
      BY <1>1, <2>3, <3>1
  <2>5. versions[t[(i - 1) + 1]].supersedes = t[i - 1] /\ versions[u[(i - 1) + 1]].supersedes = u[i - 1]
    BY <2>3 DEF IsTail
  <2>6. t[i] \in DOMAIN versions /\ u[i] \in DOMAIN versions /\ t[i - 1] \in DOMAIN versions
    BY <1>1, <2>3
  <2>7. versions[t[i]].supersedes = versions[u[i]].supersedes /\ versions[u[i]].supersedes # None
    BY <2>3, <2>4, <2>5, <2>6, VersionType
  <2>8. t[i] = u[i]
    BY <2>6, <2>7 DEF Ordered, Chained
  <2>9. QED
    BY <2>1, <2>8
<1>3. u[Len(t)] = t[Len(t)]
  BY <1>1, <1>2
<1>4. ~ (Len(t) < Len(u))
  <2> SUFFICES ASSUME Len(t) < Len(u) PROVE FALSE
    OBVIOUS
  <2>1. Len(t) \in 1 .. Len(u) - 1 /\ Len(t) + 1 \in 1 .. Len(u)
    BY <1>1
  <2>2. versions[u[Len(t) + 1]].supersedes = u[Len(t)] /\ u[Len(t) + 1] \in DOMAIN versions
    BY <1>1, <2>1 DEF IsTail
  <2>3. QED
    BY <1>3, <2>2 DEF IsTail, IsCurrent
<1>5. Len(t) = Len(u)
  BY <1>1, <1>4
<1>6. \A i \in 1 .. Len(t) : t[i] = u[i]
  BY <1>2
<1>7. QED
  BY <1>1, <1>5, <1>6

LEMMA TailsAreOne ==
  ASSUME Ordered, NEW n, NEW t, NEW u, IsTail(t, n), IsTail(u, n)
  PROVE  t = u
<1>1. Len(t) \in Nat /\ Len(u) \in Nat
  BY DEF IsTail
<1>2. CASE Len(t) <= Len(u)
  BY <1>2, TailIsOne
<1>3. CASE Len(u) <= Len(t)
  BY <1>3, TailIsOne
<1>4. QED
  BY <1>1, <1>2, <1>3

\* How many numbers are between a version and the highest one.
LEMMA Remaining ==
  ASSUME Ordered
  PROVE  \E top \in Nat : \A n \in DOMAIN versions : top - versions[n].version \in Nat
<1>1. PICK top \in Nat : \A n \in DOMAIN versions : versions[n].version <= top
  BY DEF Ordered, Types, Numbered
<1>2. ASSUME NEW n \in DOMAIN versions PROVE top - versions[n].version \in Nat
  <2>1. versions[n].version \in Nat /\ versions[n].version <= top
    BY <1>1, VersionType
  <2>2. QED
    BY <2>1
<1>3. QED
  BY <1>2

LEMMA TailExists ==
  ASSUME Ordered, NEW n \in DOMAIN versions
  PROVE  \E t : IsTail(t, n)
<1>0. PICK top \in Nat : \A k \in DOMAIN versions : top - versions[k].version \in Nat
  BY Remaining
<1> DEFINE Lost == {k \in DOMAIN versions : \A t : ~ IsTail(t, k)}
           Rests == {top - versions[k].version : k \in Lost}
<1>1. Lost = {}
  <2> SUFFICES ASSUME Lost # {} PROVE FALSE
    OBVIOUS
  <2>1. Rests \subseteq Nat /\ Rests # {}
    BY <1>0
  <2>2. PICK r \in Rests : \A x \in Rests : r <= x
    BY <2>1, LeastIsThere
  <2>3. PICK m \in Lost : top - versions[m].version = r
    OBVIOUS
  <2>4. ~ IsCurrent(m)
    BY <2>3, LastTail
  <2>5. PICK k \in DOMAIN versions : /\ versions[k].supersedes = m
                                     /\ versions[k].version = versions[m].version + 1
    BY <2>3, <2>4, Revised
  <2>6. k \notin Lost
    <3>1. versions[k].version \in Nat /\ versions[m].version \in Nat
      BY <2>3, <2>5, VersionType
    <3>2. ~ (r <= top - versions[k].version)
      BY <2>3, <2>5, <3>1
    <3>3. QED
      BY <2>2, <3>2
  <2>7. PICK t : IsTail(t, k)
    BY <2>6
  <2>8. QED
    BY <2>3, <2>5, <2>7, LongerTail
<1>2. QED
  BY <1>1

\* The walk forward of advocacy_history ends, with the current version.
LEMMA WalkForward ==
  ASSUME Ordered
  PROVE  \A n \in DOMAIN versions : IsTail(Forward[n], n)
<1>1. DOMAIN versions \subseteq Ids
  BY VersionType
<1> DEFINE Later(n) == CHOOSE k \in DOMAIN versions : versions[k].supersedes = n
           walk == [n \in Ids |-> IF n \notin DOMAIN versions THEN <<n>> ELSE CHOOSE t : IsTail(t, n)]
<1>2. \A n \in DOMAIN versions : IsTail(walk[n], n)
  <2>1. ASSUME NEW n \in DOMAIN versions PROVE IsTail(walk[n], n)
    <3>1. \E t : IsTail(t, n)
      BY TailExists
    <3>2. n \in Ids /\ walk[n] = CHOOSE t : IsTail(t, n)
      BY <1>1
    <3>3. QED
      BY <3>1, <3>2
  <2>2. QED
    BY <2>1
<1>3. \A n \in Ids \ DOMAIN versions : walk[n] = <<n>>
  OBVIOUS
<1>4. walk = [n \in Ids |-> walk[n]]
  OBVIOUS
<1>5. ASSUME NEW n \in DOMAIN versions, ~ IsCurrent(n)
      PROVE  Later(n) \in DOMAIN versions /\ versions[Later(n)].supersedes = n
  <2>1. \E k \in DOMAIN versions : versions[k].supersedes = n
    BY <1>5 DEF IsCurrent
  <2>2. QED
    BY <2>1
<1> HIDE DEF walk, Later
<1>6. ASSUME NEW n \in Ids
      PROVE  walk[n] = IF IsCurrent(n) THEN <<n>> ELSE <<n>> \o walk[Later(n)]
  <2>1. CASE n \notin DOMAIN versions
    <3>1. IsCurrent(n)
      <4>1. n # None
        BY ConstantsAssumption
      <4>2. \A k \in DOMAIN versions : versions[k].supersedes \in DOMAIN versions \cup {None}
        BY Superseding
      <4>3. QED
        BY <2>1, <4>1, <4>2 DEF IsCurrent
    <3>2. QED
      BY <1>3, <2>1, <3>1
  <2>2. CASE n \in DOMAIN versions /\ IsCurrent(n)
    <3>1. IsTail(<<n>>, n)
      BY <2>2, LastTail
    <3>2. walk[n] = <<n>>
      BY <1>2, <2>2, <3>1, TailsAreOne
    <3>3. QED
      BY <2>2, <3>2
  <2>3. CASE n \in DOMAIN versions /\ ~ IsCurrent(n)
    <3>1. Later(n) \in DOMAIN versions /\ versions[Later(n)].supersedes = n
      BY <1>5, <2>3
    <3>2. IsTail(<<n>> \o walk[Later(n)], n)
      BY <1>2, <2>3, <3>1, LongerTail
    <3>3. walk[n] = <<n>> \o walk[Later(n)]
      BY <1>2, <2>3, <3>2, TailsAreOne
    <3>4. QED
      BY <2>3, <3>3
  <2>4. QED
    BY <2>1, <2>2, <2>3
<1>7. walk = [n \in Ids |-> IF IsCurrent(n) THEN <<n>> ELSE <<n>> \o walk[Later(n)]]
  BY <1>4, <1>6
<1>8. Forward = [n \in Ids |-> IF IsCurrent(n) THEN <<n>> ELSE <<n>> \o Forward[Later(n)]]
  BY <1>7 DEF Forward, Later
<1>9. PICK top \in Nat : \A k \in DOMAIN versions : top - versions[k].version \in Nat
  BY Remaining
<1> DEFINE Lost == {n \in DOMAIN versions : ~ IsTail(Forward[n], n)}
           Rests == {top - versions[n].version : n \in Lost}
<1>10. Lost = {}
  <2> SUFFICES ASSUME Lost # {} PROVE FALSE
    OBVIOUS
  <2>1. Rests \subseteq Nat /\ Rests # {}
    BY <1>9
  <2>2. PICK r \in Rests : \A x \in Rests : r <= x
    BY <2>1, LeastIsThere
  <2>3. PICK m \in Lost : top - versions[m].version = r
    OBVIOUS
  <2>4. ~ IsCurrent(m)
    BY <1>1, <1>8, <2>3, LastTail
  <2>5. PICK k : k = Later(m)
    OBVIOUS
  <2>6. k \in DOMAIN versions /\ versions[k].supersedes = m
    BY <1>5, <2>3, <2>4, <2>5
  <2>7. versions[k].version = versions[m].version + 1
    BY <2>3, <2>4, <2>6, Revised
  <2>8. k \notin Lost
    <3>1. versions[k].version \in Nat /\ versions[m].version \in Nat
      BY <2>3, <2>6, VersionType
    <3>2. ~ (r <= top - versions[k].version)
      BY <2>3, <2>7, <3>1
    <3>3. QED
      BY <2>2, <3>2
  <2>9. IsTail(Forward[k], k)
    BY <2>6, <2>8
  <2>10. Forward[m] = <<m>> \o Forward[k]
    BY <1>1, <1>8, <2>3, <2>4, <2>5
  <2>11. IsTail(<<m>> \o Forward[k], m)
    BY <2>3, <2>6, <2>9, LongerTail
  <2>12. QED
    BY <2>3, <2>10, <2>11
<1>11. QED
  BY <1>10

\* The first version of a history, and how it is found from any of them.
LEMMA FirstVersion ==
  ASSUME Ordered, NEW n \in DOMAIN versions
  PROVE  LET r == Earliest[n]
         IN /\ r \in DOMAIN versions /\ versions[r].supersedes = None /\ versions[r].version = 1
            /\ versions[r].kind = versions[n].kind
            /\ versions[n].supersedes = None => r = n
            /\ versions[n].supersedes # None => r = Earliest[versions[n].supersedes]
<1>1. PICK t : IsTrail(t, n)
  BY TrailExists
<1>2. Earliest[n] = t[1]
  BY <1>1, WalkBack
<1>3. 1 \in 1 .. Len(t)
  BY <1>1, TrailTells
<1>4. t[1] \in DOMAIN versions /\ versions[t[1]].supersedes = None /\ versions[t[1]].version = 1
      /\ versions[t[1]].kind = versions[n].kind
  BY <1>1, <1>3, TrailTells DEF IsTrail
<1>5. versions[n].supersedes = None => t[1] = n
  <2>1. SUFFICES ASSUME versions[n].supersedes = None PROVE t[1] = n
    OBVIOUS
  <2>2. t = <<n>>
    BY <1>1, <2>1, FirstTrail, TrailIsOne
  <2>3. QED
    BY <2>2
<1>6. versions[n].supersedes # None => t[1] = Earliest[versions[n].supersedes]
  <2>1. SUFFICES ASSUME versions[n].supersedes # None PROVE t[1] = Earliest[versions[n].supersedes]
    OBVIOUS
  <2>2. PICK k \in DOMAIN versions : versions[n].supersedes = k
    BY <2>1, Superseding
  <2>3. PICK u : IsTrail(u, k)
    BY TrailExists
  <2>4. t = Append(u, n)
    BY <1>1, <2>2, <2>3, NextTrail, TrailIsOne
  <2>5. u \in Seq(DOMAIN versions) /\ u # << >>
    BY <2>3 DEF IsTrail
  <2>6. t[1] = u[1]
    BY <2>4, <2>5
  <2>7. Earliest[k] = u[1]
    BY <2>3, WalkBack
  <2>8. QED
    BY <2>2, <2>6, <2>7
<1>7. QED
  BY <1>2, <1>4, <1>5, <1>6

\* A tail is numbered upwards from its first version, and of one kind.
LEMMA TailTells ==
  ASSUME Ordered, NEW n, NEW t, IsTail(t, n), versions[n].version = 1
  PROVE  /\ t \in Seq(DOMAIN versions) /\ Len(t) \in Nat \ {0} /\ DOMAIN t = 1 .. Len(t)
         /\ \A i \in 1 .. Len(t) : /\ t[i] \in DOMAIN versions /\ versions[t[i]].version = i
                                  /\ versions[t[i]].kind = versions[n].kind
<1>1. /\ t \in Seq(DOMAIN versions) /\ Len(t) \in Nat \ {0} /\ t[1] = n
      /\ \A i \in 1 .. Len(t) : t[i] \in DOMAIN versions
  BY DEF IsTail
<1> DEFINE Wrong == {i \in 1 .. Len(t) : versions[t[i]].version # i \/ versions[t[i]].kind # versions[n].kind}
<1>2. Wrong = {}
  <2> SUFFICES ASSUME Wrong # {} PROVE FALSE
    OBVIOUS
  <2>0. Wrong \subseteq Nat
    BY <1>1
  <2>1. PICK i \in Wrong : \A j \in Wrong : i <= j
    BY <2>0, LeastIsThere
  <2>2. i # 1
    BY <1>1
  <2>3. i - 1 \in 1 .. Len(t) - 1 /\ i \in 2 .. Len(t)
    BY <1>1, <2>2
  <2>4. versions[t[i - 1]].version = i - 1 /\ versions[t[i - 1]].kind = versions[n].kind
    BY <2>1, <2>3
  <2>5. versions[t[(i - 1) + 1]].supersedes = t[i - 1]
    BY <2>3 DEF IsTail
  <2>6. (i - 1) + 1 = i /\ t[i] \in DOMAIN versions /\ t[i - 1] \in DOMAIN versions
    BY <1>1, <2>3
  <2>7. t[i - 1] # None
    BY <2>6, VersionType
  <2>8. versions[t[i]].version = i /\ versions[t[i]].kind = versions[n].kind
    BY <2>3, <2>4, <2>5, <2>6, <2>7, Superseding
  <2>9. QED
    BY <2>1, <2>8
<1>3. \A i \in 1 .. Len(t) : versions[t[i]].version = i /\ versions[t[i]].kind = versions[n].kind
  BY <1>2
<1>4. QED
  BY <1>1, <1>3

\* Whatever version one begins with, it is on the way.
LEMMA OnTheWay ==
  ASSUME Ordered, NEW n \in DOMAIN versions
  PROVE  \E i \in 1 .. Len(History(n)) : History(n)[i] = n
<1> DEFINE Met(k) == \E i \in 1 .. Len(History(k)) : History(k)[i] = k
           Lost == {k \in DOMAIN versions : ~ Met(k)}
           Numbers == {versions[k].version : k \in Lost}
<1>1. Lost = {}
  <2> SUFFICES ASSUME Lost # {} PROVE FALSE
    OBVIOUS
  <2>1. Numbers \subseteq Nat /\ Numbers # {}
    BY VersionType
  <2>2. PICK v \in Numbers : \A x \in Numbers : v <= x
    BY <2>1, LeastIsThere
  <2>3. PICK m \in Lost : versions[m].version = v
    OBVIOUS
  <2>4. PICK r : r = Earliest[m]
    OBVIOUS
  <2>5. r \in DOMAIN versions /\ versions[r].version = 1
    BY <2>3, <2>4, FirstVersion
  <2>6. PICK t : t = Forward[r]
    OBVIOUS
  <2>7. IsTail(t, r) /\ History(m) = t
    BY <2>4, <2>5, <2>6, WalkForward DEF History
  <2>8. t \in Seq(DOMAIN versions) /\ Len(t) \in Nat \ {0} /\ t[1] = r
    BY <2>7 DEF IsTail
  <2>9. versions[m].supersedes # None
    <3>1. SUFFICES ASSUME versions[m].supersedes = None PROVE FALSE
      OBVIOUS
    <3>2. r = m /\ 1 \in 1 .. Len(t)
      BY <2>3, <2>4, <2>8, <3>1, FirstVersion
    <3>3. QED
      BY <2>3, <2>7, <2>8, <3>2
  <2>10. PICK k \in DOMAIN versions : /\ versions[m].supersedes = k
                                      /\ versions[m].version = versions[k].version + 1
    BY <2>3, <2>9, Superseding
  <2>11. k \notin Lost
    <3>1. versions[k].version \in Nat /\ ~ (v <= versions[k].version)
      BY <2>3, <2>10, VersionType
    <3>2. QED
      BY <2>2, <3>1
  <2>12. Earliest[k] = r
    BY <2>3, <2>4, <2>9, <2>10, FirstVersion
  <2>13. History(k) = t
    BY <2>6, <2>12 DEF History
  <2>14. PICK i \in 1 .. Len(t) : t[i] = k
    BY <2>11, <2>13
  <2>15. i # Len(t)
    BY <2>3, <2>7, <2>10, <2>14 DEF IsTail, IsCurrent
  <2>16. i \in 1 .. Len(t) - 1 /\ i + 1 \in 1 .. Len(t)
    BY <2>8, <2>14, <2>15
  <2>17. versions[t[i + 1]].supersedes = k /\ t[i + 1] \in DOMAIN versions
    BY <2>7, <2>8, <2>14, <2>16 DEF IsTail
  <2>18. t[i + 1] = m
    BY <2>3, <2>9, <2>10, <2>17 DEF Ordered, Chained
  <2>19. QED
    BY <2>3, <2>7, <2>16, <2>18
<1>2. QED
  BY <1>1

\* A history is one line, numbered without a gap.
LEMMA OneLine == Ordered => HistoryIsLinear
<1> SUFFICES ASSUME Ordered, NEW n \in DOMAIN versions
             PROVE  LET walk == History(n)
                    IN /\ \A i \in DOMAIN walk :
                            versions[walk[i]].version = i /\ versions[walk[i]].kind = versions[n].kind
                       /\ n \in {walk[i] : i \in DOMAIN walk}
                       /\ \A later \in DOMAIN versions :
                            versions[later].supersedes = n => later \in {walk[i] : i \in DOMAIN walk}
  BY DEF HistoryIsLinear
<1>1. PICK t : t = History(n)
  OBVIOUS
<1>2. PICK r : r = Earliest[n]
  OBVIOUS
<1>3. r \in DOMAIN versions /\ versions[r].version = 1 /\ versions[r].kind = versions[n].kind
  BY <1>2, FirstVersion
<1>4. IsTail(t, r)
  BY <1>1, <1>2, <1>3, WalkForward DEF History
<1>5. DOMAIN t = 1 .. Len(t)
      /\ \A i \in 1 .. Len(t) : versions[t[i]].version = i /\ versions[t[i]].kind = versions[r].kind
  BY <1>3, <1>4, TailTells
<1>6. \E i \in 1 .. Len(t) : t[i] = n
  BY <1>1, OnTheWay
<1>7. ASSUME NEW later \in DOMAIN versions, versions[later].supersedes = n
      PROVE  \E i \in 1 .. Len(t) : t[i] = later
  <2>1. n # None
    BY VersionType
  <2>2. Earliest[later] = r
    BY <1>2, <1>7, <2>1, FirstVersion
  <2>3. History(later) = t
    BY <1>1, <1>2, <2>2 DEF History
  <2>4. QED
    BY <2>3, OnTheWay
<1>8. QED
  BY <1>1, <1>3, <1>5, <1>6, <1>7

\* A history has one current version.
LEMMA OneCurrent ==
  ASSUME Ordered, NEW m \in DOMAIN versions, NEW n \in DOMAIN versions,
         IsCurrent(m), IsCurrent(n), Earliest[m] = Earliest[n]
  PROVE  m = n
<1>1. PICK r : r = Earliest[m]
  OBVIOUS
<1>2. PICK t : t = Forward[r]
  OBVIOUS
<1>3. IsTail(t, r) /\ History(m) = t /\ History(n) = t
  BY <1>1, <1>2, FirstVersion, WalkForward DEF History
<1>4. t \in Seq(DOMAIN versions) /\ Len(t) \in Nat \ {0}
  BY <1>3 DEF IsTail
<1>5. ASSUME NEW k \in DOMAIN versions, IsCurrent(k), NEW i \in 1 .. Len(t), t[i] = k
      PROVE  k = t[Len(t)]
  <2>1. SUFFICES ASSUME i # Len(t) PROVE FALSE
    BY <1>5
  <2>2. i \in 1 .. Len(t) - 1 /\ i + 1 \in 1 .. Len(t)
    BY <1>4, <2>1
  <2>3. versions[t[i + 1]].supersedes = k /\ t[i + 1] \in DOMAIN versions
    BY <1>3, <1>4, <1>5, <2>2 DEF IsTail
  <2>4. QED
    BY <1>5, <2>3 DEF IsCurrent
<1>6. QED
  BY <1>3, <1>5, OnTheWay

----------------------------------------------------------------------------
(* What stays as the tables grow: nothing written is ever changed.           *)

Grow ==
  /\ \A n \in DOMAIN versions : n \in DOMAIN versions' /\ versions'[n] = versions[n]
  /\ \A b \in DOMAIN briefs : b \in DOMAIN briefs' /\ briefs'[b] = briefs[b]

TrailsBegin == \A n \in DOMAIN versions : \A t : IsTrail(t, n) => Earliest[n] = t[1]

LEMMA TrailsBeginThere == Ordered => TrailsBegin
BY WalkBack DEF TrailsBegin

\* A history keeps its first version.
LEMMA SameRoots ==
  ASSUME Ordered, Ordered', Grow, NEW n \in DOMAIN versions
  PROVE  Earliest'[n] = Earliest[n]
<1>1. PICK t : IsTrail(t, n)
  BY TrailExists
<1>2. Earliest[n] = t[1]
  BY <1>1, WalkBack
<1>3. TrailsBegin'
  BY TrailsBeginThere, PTL
<1>4. n \in DOMAIN versions'
  BY DEF Grow
<1>5. IsTrail(t, n)'
  <2>1. t \in Seq(DOMAIN versions) /\ Len(t) \in Nat \ {0}
        /\ \A i \in 1 .. Len(t) : t[i] \in DOMAIN versions
    BY <1>1 DEF IsTrail
  <2>2. \A k \in DOMAIN versions : k \in DOMAIN versions'
    BY DEF Grow
  <2>3. t \in Seq(DOMAIN versions')
    BY <2>1, <2>2
  <2>4. \A i \in 1 .. Len(t) : versions'[t[i]] = versions[t[i]]
    BY <2>1 DEF Grow
  <2>5. versions'[t[1]].supersedes = None
    BY <1>1, <2>1, <2>4 DEF IsTrail
  <2>6. \A i \in 1 .. Len(t) - 1 : versions'[t[i + 1]].supersedes = t[i]
    <3>1. ASSUME NEW i \in 1 .. Len(t) - 1 PROVE versions'[t[i + 1]].supersedes = t[i]
      <4>1. i + 1 \in 1 .. Len(t)
        BY <2>1
      <4>2. versions[t[i + 1]].supersedes = t[i]
        BY <1>1 DEF IsTrail
      <4>3. QED
        BY <2>4, <4>1, <4>2
    <3>2. QED
      BY <3>1
  <2>7. QED
    BY <1>1, <2>3, <2>5, <2>6 DEF IsTrail
<1>6. Earliest'[n] = t[1]
  BY <1>3, <1>4, <1>5 DEF TrailsBegin
<1>7. QED
  BY <1>2, <1>6

LEMMA LastingStays ==
  ASSUME Ordered, Ordered', Grow, NEW S, Lasting(S)
  PROVE  Lasting(S)'
<1>1. \A n \in DOMAIN versions : Earliest'[n] = Earliest[n]
  BY SameRoots
<1>2. \A a \in S : a \in {"version"} \X DOMAIN versions \/ a \in {"brief"} \X DOMAIN briefs
  BY DEF Lasting
<1>3. ASSUME NEW a \in S
      PROVE  a \in {"version"} \X DOMAIN versions' \/ a \in {"brief"} \X DOMAIN briefs'
  BY <1>2 DEF Grow
<1>4. ASSUME NEW a \in S, NEW b \in S, a # b, a[1] = b[1]
      PROVE  IF a[1] = "version" THEN Earliest'[a[2]] # Earliest'[b[2]]
             ELSE briefs'[a[2]].posture # briefs'[b[2]].posture
  <2>1. CASE a[1] = "version"
    <3>1. a[2] \in DOMAIN versions /\ b[2] \in DOMAIN versions
      BY <1>2, <1>4, <2>1
    <3>2. Earliest[a[2]] # Earliest[b[2]]
      BY <1>4, <2>1 DEF Lasting
    <3>3. QED
      BY <1>1, <2>1, <3>1, <3>2
  <2>2. CASE a[1] # "version"
    <3>1. a[2] \in DOMAIN briefs /\ b[2] \in DOMAIN briefs
      BY <1>2, <1>4, <2>2
    <3>2. briefs[a[2]].posture # briefs[b[2]].posture
      BY <1>4, <2>2 DEF Lasting
    <3>3. QED
      BY <2>2, <3>1, <3>2 DEF Grow
  <2>3. QED
    BY <2>1, <2>2
<1>5. QED
  BY <1>3, <1>4 DEF Lasting

LEMMA RowStays ==
  ASSUME Grow, NEW row, FitRow(row)
  PROVE  FitRow(row)'
BY DEF Grow, FitRow

\* Unless somebody decides, what a command has read stays right.
LEMMA FitStays ==
  ASSUME Ordered, Ordered', Grow, UNCHANGED reviews, NEW d, Fit(d)
  PROVE  Fit(d)'
<1>1. d.op = "version" => FitRow(d.row)'
  BY RowStays DEF Fit
<1>2. ASSUME d.op \in {"count", "privilege", "exported"}
      PROVE  Accounted(d)'
  <2>1. Accounted(d)
    BY <1>2 DEF Fit
  <2>2. lineState' = lineState /\ passageState' = passageState
    BY DEF reviews
  <2>3. ExportedEvidence' = ExportedEvidence /\ Undecided(d.lines)' = Undecided(d.lines)
        /\ Rejected' = Rejected
    BY <2>2 DEF ExportedEvidence, Undecided, Rejected
  <2>4. d.op = "exported" => Lasting(d.privileged)'
    BY <2>1, LastingStays DEF Accounted
  <2>5. QED
    BY <2>1, <2>3, <2>4 DEF Accounted
<1>3. QED
  BY <1>1, <1>2 DEF Fit

\* A decision spoils what an export has counted, and nothing else.
LEMMA MixedFits ==
  ASSUME Ordered, Ordered', Grow, NEW d, IsFlow(d), "fresh" \in DOMAIN d, Fit(d)
  PROVE  Fit(Mixed(d))'
<1>1. PICK m : m = Mixed(d)
  OBVIOUS
<1>2. /\ m.op = d.op /\ m.fresh = FALSE
      /\ d.op \in {"count", "privilege", "exported"} =>
           m.lines = d.lines /\ m.unsupported = d.unsupported
      /\ d.op = "exported" => m.privileged = d.privileged
  BY <1>1, MixedExport
<1>3. d.op # "version"
  BY FreshIsExported
<1>4. ASSUME d.op \in {"count", "privilege", "exported"}
      PROVE  Accounted(m)'
  <2>1. Accounted(d)
    BY <1>4 DEF Fit
  <2>2. d.op = "exported" => Lasting(d.privileged)'
    BY <2>1, LastingStays DEF Accounted
  <2>3. QED
    BY <1>2, <1>4, <2>1, <2>2 DEF Accounted
<1>5. Fit(m)'
  BY <1>2, <1>3, <1>4 DEF Fit
<1>6. QED
  BY <1>1, <1>5

----------------------------------------------------------------------------
(* What the steps are: a process goes on with a fitting command, a row is    *)
(* added and committed, or a reviewer decides.                              *)

GoesOn(w) ==
  /\ \E d : IsFlow(d) /\ Fit(d) /\ Become(w, d)
  /\ UNCHANGED <<versions, briefs, links, reviews>>
AddsVersion(w) ==
  /\ doing[w].op = "version" /\ Accepts(doing[w].id, doing[w].row)
  /\ versions' = AddRow(versions, doing[w].id, doing[w].row)
  /\ CommitAs(w, Idle)
  /\ UNCHANGED <<briefs, links, reviews>>
AddsBrief(w) ==
  /\ doing[w].op = "brief" /\ doing[w].row.version # 0 /\ BriefIsAccepted(doing[w])
  /\ briefs' = AddRow(briefs, doing[w].id, doing[w].row)
  /\ CommitAs(w, Idle)
  /\ UNCHANGED <<versions, links, reviews>>
AddsAnother(w) ==
  /\ \A k \in DOMAIN links' : links'[k] \in Assessments
  /\ CommitAs(w, Idle)
  /\ UNCHANGED <<versions, briefs, reviews>>
Decides ==
  /\ lineState' \in [Evidence -> ReviewStates]
  /\ passageState' \in [Passages -> ReviewStates \ {"absent"}]
  /\ Disturb
  /\ UNCHANGED <<versions, briefs, links>>

LEMMA IdleFits == IsFlow(Idle) /\ Fit(Idle)
BY DEF IsFlow, Fit, Idle

LEMMA BeginSteps ==
  ASSUME IInv, NEW w \in Processes, Begin(w)
  PROVE  GoesOn(w)
<1>1. CASE \E kind \in WorkKinds, id \in Ids : BeginAuthor(w, kind, id)
  <2>1. PICK kind \in WorkKinds, id \in Ids : BeginAuthor(w, kind, id)
    BY <1>1
  <2>2. PICK d : d = [op |-> "version", id |-> id,
                      row |-> [kind |-> kind, version |-> 1, supersedes |-> None]]
    OBVIOUS
  <2>3. d \in VersionFlows
    BY <2>2 DEF VersionFlows, VersionRows
  <2>4. d.op = "version" /\ FitRow(d.row)
    BY <2>2 DEF FitRow
  <2>5. IsFlow(d) /\ Fit(d) /\ Become(w, d)
    BY <2>1, <2>2, <2>3, <2>4 DEF IsFlow, Fit, BeginAuthor
  <2>6. QED
    BY <2>1, <2>5 DEF GoesOn, BeginAuthor, tables
<1>2. CASE \E of, id \in Ids : BeginRevise(w, of, id)
  <2>1. PICK of \in Ids, id \in Ids : BeginRevise(w, of, id)
    BY <1>2
  <2>2. PICK d : d = [op |-> "version", id |-> id,
                      row |-> [kind |-> versions[of].kind, version |-> versions[of].version + 1,
                               supersedes |-> of]]
    OBVIOUS
  <2>3. of \in DOMAIN versions /\ versions[of].kind \in WorkKinds
        /\ versions[of].version \in Nat \ {0}
    BY <2>1 DEF BeginRevise, IInv, Types, TypeOK
  <2>4. d \in VersionFlows
    BY <2>2, <2>3 DEF VersionFlows, VersionRows
  <2>5. d.op = "version" /\ FitRow(d.row)
    BY <2>2, <2>3 DEF FitRow
  <2>6. IsFlow(d) /\ Fit(d) /\ Become(w, d)
    BY <2>1, <2>2, <2>4, <2>5 DEF IsFlow, Fit, BeginRevise
  <2>7. QED
    BY <2>1, <2>6 DEF GoesOn, BeginRevise, tables
<1>3. CASE \E id \in Ids, posture \in Postures, paragraphs \in Paragraphs :
             BeginBrief(w, id, posture, paragraphs)
  <2>1. PICK id \in Ids, posture \in Postures, paragraphs \in Paragraphs :
          BeginBrief(w, id, posture, paragraphs)
    BY <1>3
  <2>2. PICK d : d = [op |-> "brief", id |-> id, snapshot |-> "none",
                      row |-> [posture |-> posture, version |-> 0, paragraphs |-> paragraphs]]
    OBVIOUS
  <2>3. d \in BriefFlows /\ d.op = "brief"
    BY <2>2 DEF BriefFlows, BriefRows
  <2>4. IsFlow(d) /\ Fit(d) /\ Become(w, d)
    BY <2>1, <2>2, <2>3 DEF IsFlow, Fit, BeginBrief
  <2>5. QED
    BY <2>1, <2>4 DEF GoesOn, BeginBrief, tables
<1>4. CASE \E r \in ChargeRequests : BeginCharge(w, r)
  <2>1. PICK r \in ChargeRequests : BeginCharge(w, r)
    BY <1>4
  <2>2. PICK d : d = [op |-> "charge", request |-> r]
    OBVIOUS
  <2>3. d.op = "charge" /\ d = [op |-> "charge", request |-> d.request]
    BY <2>2
  <2>4. IsFlow(d) /\ Fit(d) /\ Become(w, d)
    BY <2>1, <2>2, <2>3 DEF IsFlow, Fit, BeginCharge
  <2>5. QED
    BY <2>1, <2>4 DEF GoesOn, BeginCharge, tables
<1>5. CASE \E element \in AllElements, p \in Propositions, a \in Assessments : BeginMap(w, element, p, a)
  <2>1. PICK element \in AllElements, p \in Propositions, a \in Assessments : BeginMap(w, element, p, a)
    BY <1>5
  <2>2. PICK d : d = [op |-> "map", pair |-> <<element, p>>, assessment |-> a]
    OBVIOUS
  <2>3. d.op = "map" /\ d.assessment \in Assessments
        /\ d = [op |-> "map", pair |-> d.pair, assessment |-> d.assessment]
    BY <2>2
  <2>4. IsFlow(d) /\ Fit(d) /\ Become(w, d)
    BY <2>1, <2>2, <2>3 DEF IsFlow, Fit, BeginMap
  <2>5. QED
    BY <2>1, <2>4 DEF GoesOn, BeginMap, tables
<1>6. CASE \E audience \in {"disclosable", "work-file"} : BeginExport(w, audience)
  <2>1. PICK audience \in {"disclosable", "work-file"} : BeginExport(w, audience)
    BY <1>6
  <2>2. PICK d : d = [op |-> "export", audience |-> audience, fresh |-> TRUE]
    OBVIOUS
  <2>3. d.op = "export" /\ d \in ExportFlows
    BY <2>2 DEF ExportFlows, Audiences
  <2>4. IsFlow(d) /\ Fit(d) /\ Become(w, d)
    BY <2>1, <2>2, <2>3 DEF IsFlow, Fit, BeginExport
  <2>5. QED
    BY <2>1, <2>4 DEF GoesOn, BeginExport, tables
<1>7. QED
  BY <1>1, <1>2, <1>3, <1>4, <1>5, <1>6 DEF Begin

LEMMA InsertSteps ==
  ASSUME IInv, NEW w \in Processes,
         InsertVersion(w) \/ InsertBrief(w) \/ InsertCharge(w) \/ InsertMapping(w)
  PROVE  GoesOn(w) \/ AddsVersion(w) \/ AddsBrief(w) \/ AddsAnother(w)
<1>0. ASSUME Become(w, Idle), UNCHANGED <<versions, briefs, links, reviews>>
      PROVE  GoesOn(w)
  BY <1>0, IdleFits DEF GoesOn
<1>1. CASE InsertVersion(w)
  BY <1>0, <1>1 DEF InsertVersion, AddsVersion
<1>2. CASE InsertBrief(w)
  BY <1>0, <1>2 DEF InsertBrief, AddsBrief
<1>3. \A k \in DOMAIN links : links[k] \in Assessments
  BY DEF IInv, Types, TypeOK
<1>4. CASE InsertCharge(w)
  BY <1>0, <1>3, <1>4 DEF InsertCharge, AddsAnother
<1>5. CASE InsertMapping(w)
  <2>1. doing[w].assessment \in Assessments
    BY <1>5, FlowOfOp DEF InsertMapping, IInv, Types, Typed
  <2>2. \A k \in DOMAIN AddRow(links, doing[w].pair, doing[w].assessment) :
          AddRow(links, doing[w].pair, doing[w].assessment)[k] \in Assessments
    BY <1>3, <2>1 DEF AddRow
  <2>3. QED
    BY <1>0, <1>5, <2>2 DEF InsertMapping, AddsAnother
<1>6. QED
  BY <1>1, <1>2, <1>4, <1>5

LEMMA CountsAreFinite ==
  ASSUME NEW S, S \subseteq Evidence
  PROVE  IsFiniteSet(S) /\ Cardinality(S) \in Nat
BY ConstantsAssumption, FS_Subset, FS_CardinalityType

\* A line that is unreviewed at one end is one that nobody decided in full.
LEMMA UnreviewedLines ==
  ASSUME Types
  PROVE  {e \in ExportedEvidence : "unreviewed" \in {lineState[e], passageState[Bears[e].passage]}}
           = Undecided(ExportedEvidence)
<1>1. ASSUME NEW e \in ExportedEvidence
      PROVE  /\ lineState[e] \in {"unreviewed", "reviewed"}
             /\ passageState[Bears[e].passage] \in {"unreviewed", "reviewed", "rejected"}
  <2>1. e \in Evidence /\ lineState[e] \notin {"absent", "rejected"} /\ Bears[e].passage \in Passages
    BY DEF ExportedEvidence, Passages
  <2>2. lineState[e] \in ReviewStates /\ passageState[Bears[e].passage] \in ReviewStates \ {"absent"}
    BY <2>1 DEF Types, TypeOK
  <2>3. QED
    BY <2>1, <2>2 DEF ReviewStates
<1>2. QED
  BY <1>1 DEF Undecided

\* The team's export shows each history and each posture once.
LEMMA CurrentWorkLasts ==
  ASSUME IInv
  PROVE  Lasting(CurrentWork) /\ CurrentWork \subseteq {"version", "brief"} \X Ids
<1>0. Ordered /\ DOMAIN versions \subseteq Ids /\ DOMAIN briefs \subseteq Ids
  BY DEF IInv, Ordered, Types, TypeOK
<1>1. ASSUME NEW a \in CurrentWork
      PROVE  \/ a \in {"version"} \X DOMAIN versions /\ IsCurrent(a[2])
             \/ /\ a \in {"brief"} \X DOMAIN briefs
                /\ briefs[a[2]].version = Highest(NumbersOf(briefs[a[2]].posture))
  BY DEF CurrentWork
<1>2. ASSUME NEW a \in CurrentWork, NEW b \in CurrentWork, a # b, a[1] = b[1]
      PROVE  IF a[1] = "version" THEN Earliest[a[2]] # Earliest[b[2]]
             ELSE briefs[a[2]].posture # briefs[b[2]].posture
  <2>1. CASE a[1] = "version"
    <3>0. /\ a \in {"version"} \X DOMAIN versions /\ b \in {"version"} \X DOMAIN versions
          /\ IsCurrent(a[2]) /\ IsCurrent(b[2])
      <4>1. a[1] # "brief" /\ b[1] # "brief"
        BY <1>2, <2>1
      <4>2. a \notin {"brief"} \X DOMAIN briefs /\ b \notin {"brief"} \X DOMAIN briefs
        BY <4>1
      <4>3. QED
        BY <1>1, <4>2
    <3>1. /\ a = <<"version", a[2]>> /\ b = <<"version", b[2]>>
          /\ a[2] \in DOMAIN versions /\ b[2] \in DOMAIN versions
          /\ IsCurrent(a[2]) /\ IsCurrent(b[2])
      BY <3>0
    <3>2. a[2] # b[2]
      BY <1>2, <3>1
    <3>3. QED
      BY <1>0, <2>1, <3>1, <3>2, OneCurrent
  <2>2. CASE a[1] # "version"
    <3>1. a = <<"brief", a[2]>> /\ b = <<"brief", b[2]>>
          /\ a[2] \in DOMAIN briefs /\ b[2] \in DOMAIN briefs
          /\ briefs[a[2]].version = Highest(NumbersOf(briefs[a[2]].posture))
          /\ briefs[b[2]].version = Highest(NumbersOf(briefs[b[2]].posture))
      BY <1>1, <1>2, <2>2
    <3>2. a[2] # b[2]
      BY <1>2, <3>1
    <3>3. briefs[a[2]].posture # briefs[b[2]].posture
      BY <3>1, <3>2 DEF IInv, BriefsApart
    <3>4. QED
      BY <2>2, <3>3
  <2>3. QED
    BY <2>1, <2>2
<1>3. CurrentWork \subseteq {"version", "brief"} \X Ids
  BY <1>0, <1>1
<1>4. Lasting(CurrentWork)
  <2>1. \A a \in CurrentWork : a \in {"version"} \X DOMAIN versions \/ a \in {"brief"} \X DOMAIN briefs
    BY <1>1
  <2>2. QED
    BY <1>2, <2>1 DEF Lasting
<1>5. QED
  BY <1>3, <1>4

LEMMA ReadSteps ==
  ASSUME IInv, NEW w \in Processes,
         ReadNumber(w) \/ ReadEvidence(w) \/ CountRejected(w) \/ ReadPrivileged(w)
  PROVE  GoesOn(w)
<1>0. IsFlow(doing[w]) /\ Fit(doing[w]) /\ Types
  BY DEF IInv, Types, Typed
<1>1. CASE ReadNumber(w)
  <2>1. doing[w] \in BriefFlows
    BY <1>0, <1>1, FlowOfOp DEF ReadNumber
  <2>2. PICK n : n = Highest(NumbersOf(doing[w].row.posture)) + 1
    OBVIOUS
  <2>3. n \in Nat
    BY <1>0, <2>2, HighestNumber
  <2>4. PICK d : d = [doing[w] EXCEPT !.snapshot = "current", !.row.version = n]
    OBVIOUS
  <2>5. d \in BriefFlows /\ d.op = "brief"
    BY <2>1, <2>3, <2>4 DEF BriefFlows, BriefRows
  <2>6. IsFlow(d) /\ Fit(d) /\ Become(w, d)
    BY <1>1, <2>2, <2>4, <2>5 DEF IsFlow, Fit, ReadNumber
  <2>7. QED
    BY <1>1, <2>6 DEF GoesOn, ReadNumber, tables
<1>2. CASE ReadEvidence(w)
  <2>1. doing[w] \in ExportFlows
    BY <1>0, <1>2, FlowOfOp DEF ReadEvidence
  <2>2. PICK lines : lines = ExportedEvidence
    OBVIOUS
  <2>3. PICK n : n = Cardinality({e \in lines : "unreviewed" \in {lineState[e], passageState[Bears[e].passage]}})
    OBVIOUS
  <2>4. PICK without : without = {p \in Propositions : \A e \in lines : Bears[e].proposition # p}
    OBVIOUS
  <2>5. lines \subseteq Evidence /\ without \subseteq Propositions
        /\ without = Propositions \ {Bears[e].proposition : e \in lines}
    BY <2>2, <2>4 DEF ExportedEvidence
  <2>6. n \in Nat /\ n = Cardinality(Undecided(lines))
    BY <1>0, <2>2, <2>3, <2>5, UnreviewedLines, CountsAreFinite
  <2>7. PICK d : d = [op |-> "count", audience |-> doing[w].audience, fresh |-> doing[w].fresh,
                      lines |-> lines, unsupported |-> without, unreviewed |-> n]
    OBVIOUS
  <2>8. d \in CountFlows /\ d.op = "count"
    BY <2>1, <2>5, <2>6, <2>7 DEF CountFlows, ExportFlows
  <2>9. Accounted(d)
    BY <2>2, <2>5, <2>6, <2>7 DEF Accounted
  <2>10. IsFlow(d) /\ Fit(d)
    BY <2>8, <2>9 DEF IsFlow, Fit
  <2>11. Become(w, d)
    BY <1>2, <2>2, <2>3, <2>4, <2>7 DEF ReadEvidence
  <2>12. QED
    BY <1>2, <2>10, <2>11 DEF GoesOn, ReadEvidence, tables
<1>3. CASE CountRejected(w)
  <2>1. doing[w] \in CountFlows /\ doing[w].op = "count" /\ Accounted(doing[w])
    BY <1>0, <1>3, FlowOfOp DEF CountRejected, Fit
  <2>2. PICK n : n = Cardinality(Rejected)
    OBVIOUS
  <2>3. n \in Nat
    BY <2>2, CountsAreFinite DEF Rejected
  <2>4. PICK d : d = [op |-> "privilege", audience |-> doing[w].audience, fresh |-> doing[w].fresh,
                      lines |-> doing[w].lines, unsupported |-> doing[w].unsupported,
                      unreviewed |-> doing[w].unreviewed, omitted |-> n]
    OBVIOUS
  <2>5. d \in PrivilegeFlows /\ d.op = "privilege"
    BY <2>1, <2>3, <2>4 DEF CountFlows, PrivilegeFlows
  <2>6. Accounted(d)
    BY <2>1, <2>2, <2>4 DEF Accounted
  <2>7. IsFlow(d) /\ Fit(d)
    BY <2>5, <2>6 DEF IsFlow, Fit
  <2>8. Become(w, d)
    BY <1>3, <2>2, <2>4 DEF CountRejected, Rejected
  <2>9. QED
    BY <1>3, <2>7, <2>8 DEF GoesOn, CountRejected, tables
<1>4. CASE ReadPrivileged(w)
  <2>1. doing[w] \in PrivilegeFlows /\ doing[w].op = "privilege" /\ Accounted(doing[w])
    BY <1>0, <1>4, FlowOfOp DEF ReadPrivileged, Fit
  <2>2. PICK S : S = IF doing[w].audience = "work-file" THEN CurrentWork ELSE {}
    OBVIOUS
  <2>3. Lasting(S) /\ S \subseteq {"version", "brief"} \X Ids
    <3>1. CASE S = {}
      BY <3>1 DEF Lasting
    <3>2. CASE S = CurrentWork
      BY <3>2, CurrentWorkLasts
    <3>3. QED
      BY <2>2, <3>1, <3>2
  <2>4. PICK d : d = [op |-> "exported", fresh |-> doing[w].fresh,
                      lines |-> doing[w].lines, unsupported |-> doing[w].unsupported,
                      unreviewed |-> doing[w].unreviewed, omitted |-> doing[w].omitted,
                      privileged |-> S]
    OBVIOUS
  <2>5. d \in ExportedFlows /\ d.op = "exported"
    BY <2>1, <2>3, <2>4 DEF PrivilegeFlows, ExportedFlows
  <2>6. Accounted(d)
    BY <2>1, <2>3, <2>4 DEF Accounted
  <2>7. IsFlow(d) /\ Fit(d)
    BY <2>5, <2>6 DEF IsFlow, Fit
  <2>8. Become(w, d)
    BY <1>4, <2>2, <2>4 DEF ReadPrivileged
  <2>9. QED
    BY <1>4, <2>7, <2>8 DEF GoesOn, ReadPrivileged, tables
<1>5. QED
  BY <1>1, <1>2, <1>3, <1>4

LEMMA DecideSteps ==
  ASSUME IInv,
         \/ \E e \in Evidence, state \in {"reviewed", "rejected"} : DecideLine(e, state)
         \/ \E c \in Passages, state \in {"reviewed", "rejected"} : DecidePassage(c, state)
  PROVE  Decides
<1>1. lineState \in [Evidence -> ReviewStates] /\ passageState \in [Passages -> ReviewStates \ {"absent"}]
  <2>1. passageState \in [Passages -> ReviewStates] /\ \A c \in Passages : passageState[c] # "absent"
    BY DEF IInv, Types, TypeOK
  <2>2. QED
    BY <2>1 DEF IInv, Types, TypeOK
<1>2. CASE \E e \in Evidence, state \in {"reviewed", "rejected"} : DecideLine(e, state)
  BY <1>1, <1>2 DEF DecideLine, Decides, tables, ReviewStates
<1>3. CASE \E c \in Passages, state \in {"reviewed", "rejected"} : DecidePassage(c, state)
  BY <1>1, <1>3 DEF DecidePassage, Decides, tables, ReviewStates
<1>4. QED
  BY <1>2, <1>3

LEMMA Steps ==
  ASSUME IInv, [Next]_vars
  PROVE  \/ \E w \in Processes : GoesOn(w) \/ AddsVersion(w) \/ AddsBrief(w) \/ AddsAnother(w)
         \/ Decides
         \/ UNCHANGED vars
<1>1. ASSUME NEW w \in Processes, Step(w)
      PROVE  GoesOn(w) \/ AddsVersion(w) \/ AddsBrief(w) \/ AddsAnother(w)
  BY <1>1, InsertSteps, ReadSteps DEF Step
<1>2. ASSUME NEW w \in Processes, Finish(w)
      PROVE  GoesOn(w)
  BY <1>2, IdleFits DEF Finish, GoesOn, tables
<1>3. ASSUME NEW w \in Processes, Begin(w) \/ Step(w) \/ Finish(w)
      PROVE  GoesOn(w) \/ AddsVersion(w) \/ AddsBrief(w) \/ AddsAnother(w)
  BY <1>1, <1>2, <1>3, BeginSteps
<1>4. QED
  BY <1>3, DecideSteps DEF Next

----------------------------------------------------------------------------
(* The steps preserve the invariant.                                        *)

LEMMA InitInvariant == Init => IInv
<1> SUFFICES ASSUME Init PROVE IInv
  OBVIOUS
<1>1. Types
  BY InitTypes
<1>2. DOMAIN versions = {} /\ DOMAIN briefs = {}
  BY DEF Init, EmptyTable
<1>3. \A w \in Processes : Fit(doing[w])
  <2>1. \A w \in Processes : doing[w] = Idle
    BY DEF Init
  <2>2. QED
    BY <2>1, IdleFits
<1>4. QED
  BY <1>1, <1>2, <1>3 DEF IInv, Chained, BriefsApart

LEMMA GoesOnStep ==
  ASSUME IInv, NEW w \in Processes, GoesOn(w)
  PROVE  IInv'
<1>1. PICK d : IsFlow(d) /\ Fit(d) /\ Become(w, d)
  BY DEF GoesOn
<1>2. UNCHANGED <<versions, briefs, links, lineState, passageState>> /\ UNCHANGED reviews
  BY DEF GoesOn, reviews
<1>3. Typed(doing)' /\ Goes(w, d)
  BY <1>1, BecomeTyped DEF IInv, Types
<1>4. Types'
  BY <1>2, <1>3 DEF IInv, Types, TypeOK, Numbered
<1>5. Chained' /\ BriefsApart'
  BY <1>2 DEF IInv, Chained, FitRow, BriefsApart
<1>6. Ordered /\ Ordered' /\ Grow
  BY <1>2, <1>4, <1>5 DEF IInv, Ordered, Grow
<1>7. ASSUME NEW v \in Processes PROVE Fit(doing[v])'
  <2>1. PICK x : x = IF v = w THEN d ELSE doing[v]
    OBVIOUS
  <2>2. Fit(x)
    BY <1>1, <2>1 DEF IInv
  <2>3. Fit(x)'
    BY <1>2, <1>6, <2>2, FitStays
  <2>4. doing'[v] = x
    BY <1>3, <2>1 DEF Goes
  <2>5. QED
    BY <2>3, <2>4
<1>8. QED
  BY <1>4, <1>5, <1>7 DEF IInv

\* What a commit leaves of the other commands fits as before.
LEMMA CommitFits ==
  ASSUME IInv, Ordered', Grow, UNCHANGED reviews, NEW w \in Processes, GoesAhead(w, Idle),
         NEW v \in Processes
  PROVE  Fit(doing[v])'
<1>0. Ordered
  BY DEF IInv, Ordered
<1>1. CASE v = w
  BY <1>1, IdleFits DEF GoesAhead, Idle, Fit
<1>2. CASE v # w /\ doing[v].op = "brief"
  <2>1. doing'[v].op = "brief"
    <3>1. doing[v] \in BriefFlows
      BY <1>2, FlowOfOp DEF IInv, Types, Typed
    <3>2. QED
      BY <1>2, <3>1, OvertakenBrief DEF GoesAhead
  <2>2. QED
    BY <2>1 DEF Fit
<1>3. CASE v # w /\ doing[v].op # "brief"
  <2>1. PICK x : x = doing[v]
    OBVIOUS
  <2>2. Fit(x)'
    BY <1>0, <2>1, FitStays DEF IInv
  <2>3. doing'[v] = x
    BY <1>3, <2>1 DEF GoesAhead
  <2>4. QED
    BY <2>2, <2>3
<1>4. QED
  BY <1>1, <1>2, <1>3

LEMMA AddsVersionStep ==
  ASSUME IInv, NEW w \in Processes, AddsVersion(w)
  PROVE  IInv'
<1>1. PICK id, row : id = doing[w].id /\ row = doing[w].row
  OBVIOUS
<1>2. doing[w] \in VersionFlows
  BY FlowOfOp DEF AddsVersion, IInv, Types, Typed
<1>3. id \in Ids /\ row \in VersionRows /\ id # None
  BY <1>1, <1>2, ConstantsAssumption DEF VersionFlows
<1>4. FitRow(row)
  BY <1>1 DEF AddsVersion, IInv, Fit
<1>5. id \notin DOMAIN versions /\ (row.supersedes = None \/ IsCurrent(row.supersedes))
  BY <1>1 DEF AddsVersion, Accepts
<1>6. /\ DOMAIN versions' = DOMAIN versions \cup {id} /\ versions'[id] = row
      /\ \A n \in DOMAIN versions : versions'[n] = versions[n]
      /\ versions' = [n \in DOMAIN versions' |-> versions'[n]]
  BY <1>1, <1>5 DEF AddsVersion, AddRow
<1>7. UNCHANGED <<briefs, links, lineState, passageState>> /\ UNCHANGED reviews
  BY DEF AddsVersion, reviews
<1>8. Typed(doing)' /\ GoesAhead(w, Idle)
  BY CommitTyped DEF AddsVersion, IInv, Types
<1>9. \A n \in DOMAIN versions : versions[n] \in VersionRows /\ n \in Ids
  BY DEF IInv, Types, TypeOK, VersionRows
<1>10. TypeOK'
  <2>1. \A n \in DOMAIN versions' : versions'[n] \in VersionRows /\ n \in Ids
    BY <1>3, <1>6, <1>9
  <2>2. QED
    BY <1>7, <2>1 DEF IInv, Types, TypeOK, VersionRows
<1>11. Numbered(versions)'
  <2>1. PICK n \in Nat : \A k \in DOMAIN versions : versions[k].version <= n
    BY DEF IInv, Types, Numbered
  <2>2. row.version \in Nat /\ \A k \in DOMAIN versions : versions[k].version \in Nat
    BY <1>3, <1>9 DEF VersionRows
  <2>3. \A k \in DOMAIN versions' : versions'[k].version <= n + row.version
    BY <1>6, <2>1, <2>2
  <2>4. n + row.version \in Nat
    BY <2>2
  <2>5. QED
    BY <2>3, <2>4 DEF Numbered
<1>12. Types'
  BY <1>6, <1>7, <1>8, <1>10, <1>11 DEF IInv, Types, Numbered
<1>13. Grow
  BY <1>6, <1>7 DEF Grow
<1>14. Chained'
  <2>1. \A n \in DOMAIN versions : FitRow(versions[n])
    BY DEF IInv, Chained
  <2>2. ASSUME NEW n \in DOMAIN versions' PROVE FitRow(versions[n])'
    <3>1. PICK r : r = versions'[n]
      OBVIOUS
    <3>2. FitRow(r)
      BY <1>4, <1>6, <2>1, <3>1
    <3>3. FitRow(r)'
      BY <1>13, <3>2, RowStays
    <3>4. QED
      BY <3>1, <3>3
  <2>3. ASSUME NEW m \in DOMAIN versions', NEW n \in DOMAIN versions',
               versions'[m].supersedes = versions'[n].supersedes, versions'[n].supersedes # None
        PROVE  m = n
    <3>1. CASE m # id /\ n # id
      BY <1>6, <2>3, <3>1 DEF IInv, Chained
    <3>2. CASE m = id \/ n = id
      <4>1. SUFFICES ASSUME m # n PROVE FALSE
        OBVIOUS
      <4>2. PICK k \in DOMAIN versions : versions[k].supersedes = row.supersedes
        BY <1>6, <2>3, <3>2, <4>1
      <4>3. row.supersedes # None
        BY <1>6, <2>3, <3>2
      <4>4. QED
        BY <1>5, <4>2, <4>3 DEF IsCurrent
    <3>3. QED
      BY <3>1, <3>2
  <2>4. QED
    BY <2>2, <2>3 DEF Chained
<1>15. BriefsApart'
  BY <1>7 DEF IInv, BriefsApart
<1>16. \A v \in Processes : Fit(doing[v])'
  BY <1>7, <1>8, <1>12, <1>13, <1>14, CommitFits DEF Ordered
<1>17. QED
  BY <1>12, <1>14, <1>15, <1>16 DEF IInv

LEMMA AddsBriefStep ==
  ASSUME IInv, NEW w \in Processes, AddsBrief(w)
  PROVE  IInv'
<1>1. PICK id, row : id = doing[w].id /\ row = doing[w].row
  OBVIOUS
<1>2. doing[w] \in BriefFlows
  BY FlowOfOp DEF AddsBrief, IInv, Types, Typed
<1>3. id \in Ids /\ row \in BriefRows /\ row.version # 0
  BY <1>1, <1>2 DEF BriefFlows, AddsBrief
<1>4. id \notin DOMAIN briefs /\ row.version \notin NumbersOf(row.posture)
  BY <1>1 DEF AddsBrief, BriefIsAccepted
<1>5. /\ DOMAIN briefs' = DOMAIN briefs \cup {id} /\ briefs'[id] = row
      /\ \A n \in DOMAIN briefs : briefs'[n] = briefs[n]
      /\ briefs' = [n \in DOMAIN briefs' |-> briefs'[n]]
  BY <1>1, <1>4 DEF AddsBrief, AddRow
<1>6. UNCHANGED <<versions, links, lineState, passageState>> /\ UNCHANGED reviews
  BY DEF AddsBrief, reviews
<1>7. Typed(doing)' /\ GoesAhead(w, Idle)
  BY CommitTyped DEF AddsBrief, IInv, Types
<1>8. \A n \in DOMAIN briefs : briefs[n] \in BriefRows /\ briefs[n].version # 0 /\ n \in Ids
  BY DEF IInv, Types, TypeOK, BriefRows
<1>9. TypeOK'
  <2>1. \A n \in DOMAIN briefs' : briefs'[n] \in BriefRows /\ briefs'[n].version # 0 /\ n \in Ids
    BY <1>3, <1>5, <1>8
  <2>2. QED
    BY <1>6, <2>1 DEF IInv, Types, TypeOK, BriefRows
<1>10. Numbered(briefs)'
  <2>1. PICK n \in Nat : \A k \in DOMAIN briefs : briefs[k].version <= n
    BY DEF IInv, Types, Numbered
  <2>2. row.version \in Nat /\ \A k \in DOMAIN briefs : briefs[k].version \in Nat
    BY <1>3, <1>8 DEF BriefRows
  <2>3. \A k \in DOMAIN briefs' : briefs'[k].version <= n + row.version
    BY <1>5, <2>1, <2>2
  <2>4. n + row.version \in Nat
    BY <2>2
  <2>5. QED
    BY <2>3, <2>4 DEF Numbered
<1>11. Types'
  BY <1>5, <1>6, <1>7, <1>9, <1>10 DEF IInv, Types, Numbered
<1>12. Grow
  BY <1>5, <1>6 DEF Grow
<1>13. Chained'
  BY <1>6 DEF IInv, Chained, FitRow
<1>14. BriefsApart'
  <2>1. ASSUME NEW a \in DOMAIN briefs, briefs[a].posture = row.posture
        PROVE  briefs[a].version # row.version
    BY <1>4, <2>1 DEF NumbersOf
  <2>2. QED
    BY <1>5, <2>1 DEF IInv, BriefsApart
<1>15. \A v \in Processes : Fit(doing[v])'
  BY <1>6, <1>7, <1>11, <1>12, <1>13, CommitFits DEF Ordered
<1>16. QED
  BY <1>11, <1>13, <1>14, <1>15 DEF IInv

LEMMA AddsAnotherStep ==
  ASSUME IInv, NEW w \in Processes, AddsAnother(w)
  PROVE  IInv'
<1>1. UNCHANGED <<versions, briefs, lineState, passageState>> /\ UNCHANGED reviews
  BY DEF AddsAnother, reviews
<1>2. Typed(doing)' /\ GoesAhead(w, Idle)
  BY CommitTyped DEF AddsAnother, IInv, Types
<1>3. Types'
  BY <1>1, <1>2 DEF IInv, Types, TypeOK, Numbered, AddsAnother
<1>4. Chained' /\ BriefsApart'
  BY <1>1 DEF IInv, Chained, FitRow, BriefsApart
<1>5. Grow
  BY <1>1 DEF Grow
<1>6. \A v \in Processes : Fit(doing[v])'
  BY <1>1, <1>2, <1>3, <1>4, <1>5, CommitFits DEF Ordered
<1>7. QED
  BY <1>3, <1>4, <1>6 DEF IInv

LEMMA DecidesStep ==
  ASSUME IInv, Decides
  PROVE  IInv'
<1>1. UNCHANGED <<versions, briefs, links>>
  BY DEF Decides
<1>2. Typed(doing)' /\ Disturbed
  BY DisturbTyped DEF Decides, IInv, Types
<1>3. passageState' \in [Passages -> ReviewStates] /\ \A c \in Passages : passageState'[c] # "absent"
  BY DEF Decides
<1>4. Types'
  BY <1>1, <1>2, <1>3 DEF IInv, Types, TypeOK, Numbered, Decides
<1>5. Chained' /\ BriefsApart'
  BY <1>1 DEF IInv, Chained, FitRow, BriefsApart
<1>6. Ordered /\ Ordered' /\ Grow
  BY <1>1, <1>4, <1>5 DEF IInv, Ordered, Grow
<1>7. ASSUME NEW v \in Processes PROVE Fit(doing[v])'
  <2>0. IsFlow(doing[v]) /\ Fit(doing[v])
    BY DEF IInv, Types, Typed
  <2>1. PICK x : x = doing[v]
    OBVIOUS
  <2>2. CASE x.op = "brief"
    <3>1. x \in BriefFlows /\ doing'[v] = Overtaken(x)
      BY <1>2, <2>0, <2>1, <2>2, FlowOfOp DEF Disturbed
    <3>2. doing'[v].op = "brief"
      BY <3>1, OvertakenBrief
    <3>3. QED
      BY <3>2 DEF Fit
  <2>3. CASE x.op # "brief" /\ "fresh" \in DOMAIN x
    <3>1. Fit(Mixed(x))'
      BY <1>6, <2>0, <2>1, <2>3, MixedFits
    <3>2. doing'[v] = Mixed(x)
      BY <1>2, <2>1, <2>3 DEF Disturbed
    <3>3. QED
      BY <3>1, <3>2 DEF Mixed
  <2>4. CASE x.op # "brief" /\ "fresh" \notin DOMAIN x
    <3>1. doing'[v] = x
      BY <1>2, <2>1, <2>4 DEF Disturbed
    <3>2. x.op \notin {"count", "privilege", "exported"}
      BY <2>0, <2>1, <2>4, FreshIsExported
    <3>3. x.op = "version" => FitRow(x.row)
      BY <2>0, <2>1 DEF Fit
    <3>4. x.op = "version" => FitRow(x.row)'
      BY <1>6, <3>3, RowStays
    <3>5. QED
      BY <3>1, <3>2, <3>4 DEF Fit
  <2>5. QED
    BY <2>2, <2>3, <2>4
<1>8. QED
  BY <1>4, <1>5, <1>7 DEF IInv

LEMMA NextInvariant == IInv /\ [Next]_vars => IInv'
<1> SUFFICES ASSUME IInv, [Next]_vars PROVE IInv'
  OBVIOUS
<1>1. ASSUME UNCHANGED vars PROVE IInv'
  <2>1. UNCHANGED <<versions, briefs, links, lineState, passageState, doing>> /\ UNCHANGED reviews
    BY <1>1 DEF vars, reviews
  <2>2. Types'
    BY <2>1 DEF IInv, Types, TypeOK, Numbered, Typed
  <2>3. Chained' /\ BriefsApart'
    BY <2>1 DEF IInv, Chained, FitRow, BriefsApart
  <2>4. Ordered /\ Ordered' /\ Grow
    BY <2>1, <2>2, <2>3 DEF IInv, Ordered, Grow
  <2>5. ASSUME NEW v \in Processes PROVE Fit(doing[v])'
    <3>1. PICK x : x = doing[v]
      OBVIOUS
    <3>2. Fit(x)'
      BY <2>1, <2>4, <3>1, FitStays DEF IInv
    <3>3. QED
      BY <2>1, <3>1, <3>2
  <2>6. QED
    BY <2>2, <2>3, <2>5 DEF IInv
<1>2. QED
  BY <1>1, Steps, GoesOnStep, AddsVersionStep, AddsBriefStep, AddsAnotherStep, DecidesStep

LEMMA Always == Spec => []IInv
<1>1. QED
  BY InitInvariant, NextInvariant, PTL DEF Spec

\* The tables hold what the schema admits, whoever writes them.
THEOREM TypeCorrect == Spec => []TypeOK
<1>1. IInv => TypeOK
  BY DEF IInv, Types
<1>2. QED
  BY <1>1, Always, PTL

\* revise_advocacy_item, advocacy_history: however many people revise, and
\* whenever one of them is cut short, the versions of a work product are one
\* line without a fork or a gap, which the walk finds from any of them.
THEOREM HistoryIsLinearHolds == Spec => []HistoryIsLinear
<1>1. IInv => HistoryIsLinear
  BY OneLine DEF IInv, Ordered
<1>2. QED
  BY <1>1, Always, PTL

LEMMA LinesAndOmitted ==
  Cardinality(ExportedEvidence) + Cardinality(Rejected)
    = Cardinality({e \in Evidence : lineState[e] # "absent"})
<1>1. PICK A : A = ExportedEvidence
  OBVIOUS
<1>2. PICK B : B = Rejected
  OBVIOUS
<1>3. A \subseteq Evidence /\ B \subseteq Evidence
  BY <1>1, <1>2 DEF ExportedEvidence, Rejected
<1>4. IsFiniteSet(A) /\ IsFiniteSet(B) /\ Cardinality(A) \in Nat /\ Cardinality(B) \in Nat
  BY <1>3, CountsAreFinite
<1>5. A \cap B = {} /\ A \cup B = {e \in Evidence : lineState[e] # "absent"}
  BY <1>1, <1>2 DEF ExportedEvidence, Rejected
<1>6. Cardinality(A \cup B) = Cardinality(A) + Cardinality(B) - Cardinality(A \cap B)
  BY <1>4, FS_Union
<1>7. Cardinality(A \cap B) = 0
  BY <1>5, FS_EmptySet
<1>8. Cardinality(A \cup B) = Cardinality(A) + Cardinality(B)
  BY <1>4, <1>6, <1>7
<1>9. QED
  BY <1>1, <1>2, <1>5, <1>8

\* export_case: what an export says it holds and leaves out is all there is, as
\* long as nobody decides meanwhile; what it lists as unsupported is what no
\* line is about; and the team's export has each history and each posture once,
\* also after more was written.
THEOREM ExportIsAccountedHolds == Spec => []ExportIsAccounted
<1>1. IInv => ExportIsAccounted
  <2> SUFFICES ASSUME IInv, NEW w \in Processes, doing[w].op = "exported"
               PROVE  LET report == doing[w]
                      IN /\ report.fresh =>
                              /\ Cardinality(report.lines) + report.omitted
                                   = Cardinality({e \in Evidence : lineState[e] # "absent"})
                              /\ report.unreviewed = Cardinality(Undecided(report.lines))
                         /\ report.unsupported = Propositions \ {Bears[e].proposition : e \in report.lines}
                         /\ \A a, b \in report.privileged :
                              a # b /\ a[1] = b[1] =>
                                IF a[1] = "version" THEN Earliest[a[2]] # Earliest[b[2]]
                                ELSE briefs[a[2]].posture # briefs[b[2]].posture
    BY DEF ExportIsAccounted, Undecided
  <2>1. PICK report : report = doing[w]
    OBVIOUS
  <2>2. Accounted(report) /\ report.op = "exported"
    BY <2>1 DEF IInv, Fit
  <2>3. report.fresh =>
          /\ Cardinality(report.lines) + report.omitted
               = Cardinality({e \in Evidence : lineState[e] # "absent"})
          /\ report.unreviewed = Cardinality(Undecided(report.lines))
    BY <2>2, LinesAndOmitted DEF Accounted
  <2>4. Lasting(report.privileged)
    BY <2>2 DEF Accounted
  <2>5. QED
    BY <2>1, <2>2, <2>3, <2>4 DEF Accounted, Lasting
<1>2. QED
  BY <1>1, Always, PTL

----------------------------------------------------------------------------
(* Recursion and folds.  The library's induction theorems take the property *)
(* as an operator; these take it as a set.                                  *)

\* What holds where nothing smaller comes before, and passes from what is
\* smaller, holds everywhere.
LEMMA RankInduction ==
  ASSUME NEW D, NEW rank \in [D -> Nat], NEW T,
         \A s \in D : (\A t \in D : rank[t] < rank[s] => t \in T) => s \in T
  PROVE  D \subseteq T
<1> SUFFICES ASSUME NEW x \in D, x \notin T PROVE FALSE
  OBVIOUS
<1> DEFINE Ranks == {rank[s] : s \in D \ T}
<1>1. Ranks \in SUBSET Nat /\ Ranks # {}
  OBVIOUS
<1> HIDE DEF Ranks
<1>2. PICK n \in Ranks : \A m \in Ranks : n <= m
  BY <1>1, LeastIsThere
<1>3. PICK s \in D \ T : rank[s] = n
  BY DEF Ranks
<1>4. ASSUME NEW t \in D, rank[t] < rank[s] PROVE t \in T
  <2>1. rank[t] \in Nat /\ rank[s] \in Nat
    OBVIOUS
  <2>2. rank[t] \notin Ranks
    BY <1>2, <1>3, <1>4, <2>1
  <2>3. QED
    BY <2>2 DEF Ranks
<1>5. QED
  BY <1>3, <1>4

\* A function that either stops or goes on from one smaller argument.
Recurs(g, D, Stop, next, base, step) ==
  \A s \in D : g[s] = IF s \in Stop THEN base[s] ELSE step[<<s, g[next[s]]>>]

LEMMA RecursionExists ==
  ASSUME NEW D, NEW V, NEW N \in Nat, NEW rank \in [D -> 0 .. N], NEW Stop,
         NEW next \in [D -> D], NEW base \in [D -> V], NEW step \in [D \X V -> V],
         \A s \in D \ Stop : rank[next[s]] < rank[s]
  PROVE  \E g \in [D -> V] : Recurs(g, D, Stop, next, base, step)
<1> DEFINE Upto(g, n) ==
             \A s \in D : rank[s] < n =>
               g[s] = IF s \in Stop THEN base[s] ELSE step[<<s, g[next[s]]>>]
           Good == {n \in Nat : \E g \in [D -> V] : Upto(g, n)}
<1>1. 0 \in Good
  <2>1. Upto(base, 0)
    OBVIOUS
  <2>2. QED
    BY <2>1
<1>2. ASSUME NEW n \in Nat, n \in Good PROVE n + 1 \in Good
  <2>1. PICK g \in [D -> V] : Upto(g, n)
    BY <1>2
  <2> DEFINE h == [s \in D |-> IF rank[s] < n THEN g[s]
                               ELSE IF s \in Stop THEN base[s] ELSE step[<<s, g[next[s]]>>]]
  <2>2. h \in [D -> V]
    OBVIOUS
  <2>3. ASSUME NEW s \in D, rank[s] < n + 1
        PROVE  h[s] = IF s \in Stop THEN base[s] ELSE step[<<s, h[next[s]]>>]
    <3>1. CASE s \in Stop
      BY <2>1, <3>1
    <3>2. CASE s \notin Stop
      <4>1. next[s] \in D /\ rank[next[s]] < rank[s] /\ rank[s] \in Nat /\ rank[next[s]] \in Nat
        BY <3>2
      <4>2. rank[next[s]] < n
        BY <2>3, <4>1
      <4>3. h[next[s]] = g[next[s]]
        BY <4>1, <4>2
      <4>4. h[s] = step[<<s, g[next[s]]>>]
        BY <2>1, <3>2
      <4>5. QED
        BY <3>2, <4>3, <4>4
    <3>3. QED
      BY <3>1, <3>2
  <2>4. Upto(h, n + 1)
    BY <2>3
  <2> HIDE DEF h
  <2>5. QED
    BY <2>2, <2>4
<1> HIDE DEF Good
<1>3. N + 1 \in Good
  <2>1. [n \in Nat |-> n] \in [Nat -> Nat]
    OBVIOUS
  <2>2. ASSUME NEW n \in Nat, \A k \in Nat : k < n => k \in Good PROVE n \in Good
    <3>1. CASE n = 0
      BY <1>1, <3>1
    <3>2. CASE n # 0
      <4>1. n - 1 \in Nat /\ n - 1 < n /\ (n - 1) + 1 = n
        BY <3>2
      <4>2. QED
        BY <1>2, <2>2, <4>1
    <3>3. QED
      BY <3>1, <3>2
  <2>3. Nat \subseteq Good
    <3> DEFINE own == [n \in Nat |-> n]
    <3>1. \A s \in Nat : (\A t \in Nat : own[t] < own[s] => t \in Good) => s \in Good
      BY <2>2
    <3>2. own \in [Nat -> Nat]
      OBVIOUS
    <3> HIDE DEF own
    <3>3. QED
      BY <3>1, <3>2, RankInduction
  <2>4. QED
    BY <2>3
<1>4. PICK g \in [D -> V] : Upto(g, N + 1)
  BY <1>3 DEF Good
<1>5. \A s \in D : rank[s] < N + 1
  OBVIOUS
<1>6. QED
  BY <1>4, <1>5 DEF Recurs

LEMMA SmallerSets ==
  ASSUME NEW I, IsFiniteSet(I)
  PROVE  /\ Cardinality(I) \in Nat
         /\ \A S \in SUBSET I : IsFiniteSet(S) /\ Cardinality(S) \in 0 .. Cardinality(I)
         /\ \A S \in SUBSET I : \A x \in S :
              S \ {x} \in SUBSET I /\ Cardinality(S \ {x}) < Cardinality(S)
<1>1. Cardinality(I) \in Nat
  BY FS_CardinalityType
<1>2. \A S \in SUBSET I : IsFiniteSet(S) /\ Cardinality(S) \in 0 .. Cardinality(I)
  BY <1>1, FS_Subset, FS_CardinalityType
<1>3. ASSUME NEW S \in SUBSET I, NEW x \in S PROVE Cardinality(S \ {x}) < Cardinality(S)
  <2>1. IsFiniteSet(S) /\ Cardinality(S) \in Nat
    BY <1>2
  <2>2. Cardinality(S \ {x}) = Cardinality(S) - 1
    BY <2>1, FS_RemoveElement
  <2>3. QED
    BY <2>1, <2>2
<1>4. QED
  BY <1>1, <1>2, <1>3

(* Folds over sequences.  They are folds over the set of indices, from the  *)
(* largest down, so recursion over subsets of an interval unfolds them.     *)

LEMMA MaxIsIn ==
  ASSUME NEW n \in Nat, NEW s \in SUBSET (1 .. n), s # {}
  PROVE  Max(s) \in s /\ \A y \in s : y <= Max(s)
<1> DEFINE below == {n - x : x \in s}
<1>1. below \in SUBSET Nat /\ below # {}
  <2>1. \A x \in 1 .. n : n - x \in Nat
    OBVIOUS
  <2>2. QED
    BY <2>1
<1> HIDE DEF below
<1>2. PICK k \in below : \A m \in below : k <= m
  BY <1>1, LeastIsThere
<1>3. PICK x \in s : k = n - x
  BY <1>2 DEF below
<1>4. \A y \in s : y <= x
  <2> SUFFICES ASSUME NEW y \in s PROVE y <= x
    OBVIOUS
  <2>1. n - y \in below
    BY DEF below
  <2>2. n - x <= n - y
    BY <1>2, <1>3, <2>1
  <2>3. x \in 1 .. n /\ y \in 1 .. n
    OBVIOUS
  <2>4. QED
    BY <2>2, <2>3
<1>5. \E x_1 \in s : \A y \in s : x_1 >= y
  BY <1>4
<1>6. Max(s) \in s /\ \A y \in s : Max(s) >= y
  BY <1>5, Zenon DEF Max
<1>7. \A y \in 1 .. n : y \in Int
  OBVIOUS
<1>8. Max(s) \in Int /\ \A y \in s : y \in Int
  BY <1>6, <1>7
<1> DEFINE m == Max(s)
<1>9. m \in s /\ m \in Int /\ \A y \in s : m >= y /\ y \in Int
  BY <1>6, <1>8
<1> HIDE DEF m
<1>10. \A y \in s : y <= m
  BY <1>9
<1>11. QED
  BY <1>9, <1>10 DEF m

LEMMA UptoMax ==
  ASSUME NEW k \in Nat, k # 0
  PROVE  Max(1 .. k) = k /\ (1 .. k) \ {k} = 1 .. (k - 1)
<1>1. 1 .. k \in SUBSET (1 .. k) /\ 1 .. k # {} /\ k \in 1 .. k
  OBVIOUS
<1>2. Max(1 .. k) \in 1 .. k /\ \A y \in 1 .. k : y <= Max(1 .. k)
  BY <1>1, MaxIsIn
<1>3. Max(1 .. k) = k
  BY <1>1, <1>2
<1>4. QED
  BY <1>3

LEMMA CountingUp ==
  ASSUME NEW T, NEW n \in Nat, 0 \in T, \A k \in Nat : k < n /\ k \in T => k + 1 \in T
  PROVE  0 .. n \subseteq T
<1> DEFINE own == [k \in Nat |-> k]
           Good == {k \in Nat : k <= n => k \in T}
<1>1. ASSUME NEW k \in Nat, \A j \in Nat : own[j] < own[k] => j \in Good PROVE k \in Good
  <2>1. CASE k = 0
    BY <2>1
  <2>2. CASE k # 0 /\ k <= n
    <3>1. k - 1 \in Nat /\ own[k - 1] < own[k] /\ k - 1 < n /\ k - 1 <= n /\ (k - 1) + 1 = k
      BY <2>2
    <3>2. k - 1 \in T
      BY <1>1, <3>1
    <3>3. QED
      BY <3>1, <3>2
  <2>3. QED
    BY <2>1, <2>2
<1>2. own \in [Nat -> Nat]
  OBVIOUS
<1>3. \A s \in Nat : (\A t \in Nat : own[t] < own[s] => t \in Good) => s \in Good
  BY <1>1
<1> HIDE DEF own, Good
<1>4. Nat \subseteq Good
  BY <1>2, <1>3, RankInduction
<1>5. \A k \in 0 .. n : k \in Nat /\ k <= n
  OBVIOUS
<1>6. QED
  BY <1>4, <1>5 DEF Good

LEMMA Initial ==
  ASSUME NEW n \in Nat, NEW k \in 1 .. n
  PROVE  /\ k \in Nat /\ k # 0 /\ k - 1 \in 0 .. n /\ k \in 0 .. n
         /\ 1 .. k \in SUBSET (1 .. n) /\ 1 .. k # {}
<1>1. \A i \in 1 .. k : i \in 1 .. n
  OBVIOUS
<1>2. k \in 1 .. k
  OBVIOUS
<1>3. QED
  BY <1>1, <1>2

\* A fold over a sequence of n elements, on the sets of indices.
Folded(f, n, start, step) ==
  \A s \in SUBSET (1 .. n) : f[s] = IF s = {} THEN start ELSE step[<<Max(s), f[s \ {Max(s)}]>>]

LEMMA FoldExists ==
  ASSUME NEW n \in Nat, NEW V, NEW start \in V, NEW step \in [(1 .. n) \X V -> V]
  PROVE  \E f \in [SUBSET (1 .. n) -> V] : Folded(f, n, start, step)
<1> DEFINE D == SUBSET (1 .. n)
           rank == [s \in D |-> Cardinality(s)]
           next == [s \in D |-> s \ {Max(s)}]
           base == [s \in D |-> start]
           turn == [p \in D \X V |-> IF p[1] = {} THEN start ELSE step[<<Max(p[1]), p[2]>>]]
<1>0. IsFiniteSet(1 .. n)
  BY FS_Interval
<1>1. rank \in [D -> 0 .. Cardinality(1 .. n)] /\ Cardinality(1 .. n) \in Nat
  BY <1>0, SmallerSets
<1>2. next \in [D -> D] /\ base \in [D -> V]
  OBVIOUS
<1>3. \A s \in D : s # {} => Max(s) \in s
  BY MaxIsIn
<1>4. turn \in [D \X V -> V]
  <2>1. ASSUME NEW p \in D \X V, p[1] # {} PROVE step[<<Max(p[1]), p[2]>>] \in V
    <3>1. Max(p[1]) \in 1 .. n /\ p[2] \in V
      BY <1>3, <2>1
    <3>2. QED
      BY <3>1
  <2>2. QED
    BY <2>1
<1>5. \A s \in D \ {{}} : rank[next[s]] < rank[s]
  <2>1. \A S \in D : \A x \in S : Cardinality(S \ {x}) < Cardinality(S)
    BY <1>0, SmallerSets
  <2>2. QED
    BY <1>3, <2>1
<1>6. \A s \in D, v \in V : s # {} => turn[<<s, v>>] = step[<<Max(s), v>>] /\ next[s] = s \ {Max(s)}
  OBVIOUS
<1>7. \A s \in D : base[s] = start
  OBVIOUS
<1> HIDE DEF D, rank, next, base, turn
<1>8. PICK f \in [D -> V] : Recurs(f, D, {{}}, next, base, turn)
  BY <1>1, <1>2, <1>4, <1>5, RecursionExists
<1>9. \A s \in D : f[s] = IF s = {} THEN start ELSE step[<<Max(s), f[s \ {Max(s)}]>>]
  <2> SUFFICES ASSUME NEW s \in D
               PROVE  f[s] = IF s = {} THEN start ELSE step[<<Max(s), f[s \ {Max(s)}]>>]
    OBVIOUS
  <2>1. f[s] = IF s \in {{}} THEN base[s] ELSE turn[<<s, f[next[s]]>>]
    BY <1>8 DEF Recurs
  <2>2. f[next[s]] \in V
    BY <1>2
  <2>3. CASE s = {}
    BY <1>7, <2>1, <2>3
  <2>4. CASE s # {}
    <3>1. f[s] = turn[<<s, f[next[s]]>>]
      BY <2>1, <2>4
    <3>2. turn[<<s, f[next[s]]>>] = step[<<Max(s), f[next[s]]>>] /\ next[s] = s \ {Max(s)}
      BY <1>6, <2>2, <2>4
    <3>3. QED
      BY <2>4, <3>1, <3>2
  <2>5. QED
    BY <2>3, <2>4
<1>10. QED
  BY <1>8, <1>9 DEF D, Folded

----------------------------------------------------------------------------
(* Orders.  A finite set whose nonempty subsets each have a member that     *)
(* precedes no other can be listed so that the order is respected.          *)

Orders(s, S, R) ==
  /\ s \in [1 .. Cardinality(S) -> S] /\ IsInjective(s) /\ ToSet(s) = S
  /\ \A i, j \in DOMAIN s : <<s[i], s[j]>> \in R => i < j

LEMMA OneMore ==
  ASSUME NEW S, IsFiniteSet(S), NEW x \in S, NEW R, \A y \in S : <<x, y>> \notin R,
         NEW s, Orders(s, S \ {x}, R)
  PROVE  \E t : Orders(t, S, R)
<1>1. PICK n \in Nat : n = Cardinality(S \ {x}) /\ Cardinality(S) = n + 1
  BY FS_CardinalityType, FS_RemoveElement, FS_Subset
<1>2. s \in [1 .. n -> S \ {x}] /\ DOMAIN s = 1 .. n
  BY <1>1 DEF Orders
<1> DEFINE t == [i \in 1 .. n + 1 |-> IF i = n + 1 THEN x ELSE s[i]]
<1>3. \A i \in 1 .. n + 1 : i = n + 1 \/ i \in 1 .. n
  BY <1>1
<1>4. DOMAIN t = 1 .. n + 1 /\ t[n + 1] = x /\ \A i \in 1 .. n : t[i] = s[i] /\ t[i] \in S /\ t[i] # x
  <2>1. n + 1 \in 1 .. n + 1
    BY <1>1
  <2>2. ASSUME NEW i \in 1 .. n PROVE i \in 1 .. n + 1 /\ i # n + 1 /\ s[i] \in S /\ s[i] # x
    <3>1. i \in 1 .. n + 1 /\ i # n + 1
      BY <1>1
    <3>2. s[i] \in S \ {x}
      BY <1>2
    <3>3. QED
      BY <3>1, <3>2
  <2>3. QED
    BY <2>1, <2>2
<1>5. t \in [1 .. Cardinality(S) -> S]
  BY <1>1, <1>3, <1>4
<1> HIDE DEF t
<1>6. IsInjective(t)
  <2>1. \A i, j \in 1 .. n : s[i] = s[j] => i = j
    BY <1>2 DEF Orders, IsInjective
  <2>2. ASSUME NEW i \in 1 .. n + 1, NEW j \in 1 .. n + 1, t[i] = t[j] PROVE i = j
    BY <1>3, <1>4, <2>1, <2>2
  <2>3. QED
    BY <1>4, <2>2 DEF IsInjective
<1>7. ToSet(t) = S
  <2>1. ASSUME NEW y \in S PROVE \E i \in 1 .. n + 1 : t[i] = y
    <3>1. CASE y = x
      BY <1>1, <1>4, <3>1
    <3>2. CASE y # x
      <4>1. y \in ToSet(s)
        BY <3>2 DEF Orders
      <4>2. PICK i \in 1 .. n : s[i] = y
        BY <1>2, <4>1 DEF ToSet
      <4>3. i \in 1 .. n + 1
        BY <1>1
      <4>4. QED
        BY <1>4, <4>2, <4>3
    <3>3. QED
      BY <3>1, <3>2
  <2>2. \A i \in 1 .. n + 1 : t[i] \in S
    BY <1>3, <1>4
  <2>3. QED
    BY <1>4, <2>1, <2>2 DEF ToSet
<1>8. ASSUME NEW i \in 1 .. n + 1, NEW j \in 1 .. n + 1, <<t[i], t[j]>> \in R PROVE i < j
  <2>1. CASE i = n + 1
    <3>1. t[j] \in S
      BY <1>3, <1>4
    <3>2. QED
      BY <1>4, <1>8, <2>1, <3>1
  <2>2. CASE i \in 1 .. n /\ j = n + 1
    BY <1>1, <2>2
  <2>3. CASE i \in 1 .. n /\ j \in 1 .. n
    BY <1>2, <1>4, <1>8, <2>3 DEF Orders
  <2>4. QED
    BY <1>3, <2>1, <2>2, <2>3
<1>9. QED
  BY <1>4, <1>5, <1>6, <1>7, <1>8 DEF Orders

LEMMA OrderExists ==
  ASSUME NEW S, IsFiniteSet(S), NEW R,
         \A T \in SUBSET S : T # {} => \E x \in T : \A y \in T : <<x, y>> \notin R
  PROVE  \E s : Orders(s, S, R)
<1> DEFINE Done == {n \in Nat : \A T \in SUBSET S : Cardinality(T) = n => \E s : Orders(s, T, R)}
<1>1. PICK N \in Nat : N = Cardinality(S)
  BY FS_CardinalityType
<1>2. \A T \in SUBSET S : IsFiniteSet(T) /\ Cardinality(T) \in Nat
  BY FS_Subset, FS_CardinalityType
<1>3. 0 \in Done
  <2>1. ASSUME NEW T \in SUBSET S, Cardinality(T) = 0 PROVE \E s : Orders(s, T, R)
    <3>1. T = {}
      BY <1>2, <2>1, FS_EmptySet
    <3>2. Orders(<< >>, {}, R)
      <4>1. Cardinality({}) = 0 /\ 1 .. 0 = {}
        BY FS_EmptySet
      <4>2. << >> \in [1 .. Cardinality({}) -> {}] /\ DOMAIN << >> = {}
        BY <4>1
      <4>3. QED
        BY <4>2 DEF Orders, IsInjective, ToSet
    <3>3. QED
      BY <3>1, <3>2
  <2>2. QED
    BY <2>1
<1>4. ASSUME NEW n \in Nat, n < N /\ n \in Done PROVE n + 1 \in Done
  <2>1. ASSUME NEW T \in SUBSET S, Cardinality(T) = n + 1 PROVE \E s : Orders(s, T, R)
    <3>1. T # {}
      BY <2>1, FS_EmptySet
    <3>2. PICK x \in T : \A y \in T : <<x, y>> \notin R
      BY <3>1
    <3>3. T \ {x} \in SUBSET S /\ Cardinality(T \ {x}) = n
      <4>1. Cardinality(T \ {x}) = (n + 1) - 1
        BY <1>2, <2>1, <3>2, FS_RemoveElement
      <4>2. QED
        BY <4>1
    <3>4. PICK s : Orders(s, T \ {x}, R)
      BY <1>4, <3>3
    <3>5. QED
      BY <1>2, <3>2, <3>4, OneMore
  <2>2. QED
    BY <2>1
<1> HIDE DEF Done
<1>5. N \in 0 .. N /\ 0 .. N \subseteq Done
  <2>1. 0 .. N \subseteq Done
    BY <1>3, <1>4, CountingUp
  <2>2. QED
    BY <2>1
<1>6. QED
  BY <1>1, <1>5 DEF Done

\* R is a strict order on S.
Strict(R, S) ==
  /\ \A x \in S : <<x, x>> \notin R
  /\ \A x, y, z \in S : <<x, y>> \in R /\ <<y, z>> \in R => <<x, z>> \in R

LEMMA MaximalExists ==
  ASSUME NEW S, IsFiniteSet(S), NEW R, Strict(R, S), S # {}
  PROVE  \E x \in S : \A y \in S : <<x, y>> \notin R
<1> DEFINE Done == {n \in Nat : \A T \in SUBSET S : Cardinality(T) = n /\ T # {} =>
                                  \E x \in T : \A y \in T : <<x, y>> \notin R}
<1>1. PICK N \in Nat : N = Cardinality(S)
  BY FS_CardinalityType
<1>2. \A T \in SUBSET S : IsFiniteSet(T) /\ Cardinality(T) \in Nat
  BY FS_Subset, FS_CardinalityType
<1>3. 0 \in Done
  BY <1>2, FS_EmptySet
<1>4. ASSUME NEW n \in Nat, n < N /\ n \in Done PROVE n + 1 \in Done
  <2>1. ASSUME NEW T \in SUBSET S, Cardinality(T) = n + 1, T # {}
        PROVE  \E x \in T : \A y \in T : <<x, y>> \notin R
    <3>1. PICK x \in T : x \in S
      BY <2>1
    <3>2. T \ {x} \in SUBSET S /\ Cardinality(T \ {x}) = n
      <4>1. Cardinality(T \ {x}) = (n + 1) - 1
        BY <1>2, <2>1, <3>1, FS_RemoveElement
      <4>2. QED
        BY <4>1
    <3>3. CASE T \ {x} = {}
      BY <3>1, <3>3 DEF Strict
    <3>4. CASE T \ {x} # {}
      <4>1. PICK m \in T \ {x} : \A y \in T \ {x} : <<m, y>> \notin R
        BY <1>4, <3>2, <3>4
      <4>2. CASE <<m, x>> \notin R
        BY <4>1, <4>2
      <4>3. CASE <<m, x>> \in R
        <5>1. ASSUME NEW y \in T, <<x, y>> \in R PROVE FALSE
          <6>1. y \in S /\ m \in S
            OBVIOUS
          <6>2. <<m, y>> \in R
            BY <3>1, <4>3, <5>1, <6>1 DEF Strict
          <6>3. y # x
            BY <3>1, <5>1 DEF Strict
          <6>4. QED
            BY <4>1, <6>2, <6>3
        <5>2. QED
          BY <5>1
      <4>4. QED
        BY <4>2, <4>3
    <3>5. QED
      BY <3>3, <3>4
  <2>2. QED
    BY <2>1
<1> HIDE DEF Done
<1>5. N \in 0 .. N /\ 0 .. N \subseteq Done
  <2>1. 0 .. N \subseteq Done
    BY <1>3, <1>4, CountingUp
  <2>2. QED
    BY <2>1
<1>6. N \in Done
  BY <1>5
<1>7. QED
  BY <1>1, <1>6 DEF Done

LEMMA StrictOrderExists ==
  ASSUME NEW S, IsFiniteSet(S), NEW R, Strict(R, S)
  PROVE  \E s : Orders(s, S, R)
<1>1. ASSUME NEW T \in SUBSET S, T # {} PROVE \E x \in T : \A y \in T : <<x, y>> \notin R
  <2>1. IsFiniteSet(T) /\ Strict(R, T)
    BY FS_Subset DEF Strict
  <2>2. QED
    BY <1>1, <2>1, MaximalExists
<1>2. QED
  BY <1>1, OrderExists

----------------------------------------------------------------------------
(* The charges that are read: the rows of their elements, grouped again.    *)

Charged == IsCharged(charges, links)
Rank(c) == LabelRank[charges[c].label]
ElementRows == UNION {{<<c, i>> : i \in DOMAIN charges[c].elements} : c \in DOMAIN charges}

LEMMA ChargeRow ==
  ASSUME Charged, NEW c \in DOMAIN charges
  PROVE  /\ charges[c].elements \in Seq(ElementsOf(c)) /\ Rank(c) \in Nat
         /\ Len(charges[c].elements) \in Nat
         /\ DOMAIN charges[c].elements = 1 .. Len(charges[c].elements)
         /\ ElementsOf(c) \subseteq AllElements
<1>1. charges[c].elements \in Seq(ElementsOf(c)) /\ charges[c].label \in DOMAIN LabelRank
  BY DEF Charged, IsCharged, ElementsOf, ToSet
<1>2. PICK e : e = charges[c].elements
  OBVIOUS
<1>3. Len(e) \in Nat /\ DOMAIN e = 1 .. Len(e)
  BY <1>1, <1>2
<1>4. Rank(c) \in Nat
  BY <1>1, ViewsAssumption DEF Rank
<1>5. QED
  BY <1>1, <1>2, <1>3, <1>4 DEF AllElements

LEMMA RankTells ==
  ASSUME Charged, NEW c \in DOMAIN charges, NEW d \in DOMAIN charges
  PROVE  Rank(c) = Rank(d) => charges[c].label = charges[d].label
BY ViewsAssumption DEF Charged, IsCharged, Rank

LEMMA ImageIsFinite ==
  ASSUME NEW f, IsFiniteSet(DOMAIN f), f = [x \in DOMAIN f |-> f[x]]
  PROVE  IsFiniteSet({f[x] : x \in DOMAIN f})
<1>1. f \in Surjection(DOMAIN f, {f[x] : x \in DOMAIN f})
  BY DEF Surjection
<1>2. QED
  BY <1>1, FS_Surjection

LEMMA RowsAreFinite ==
  ASSUME Charged
  PROVE  IsFiniteSet(ElementRows)
<1> DEFINE Of(c) == {<<c, i>> : i \in DOMAIN charges[c].elements}
           family == {Of(c) : c \in DOMAIN charges}
<1>1. ASSUME NEW c \in DOMAIN charges PROVE IsFiniteSet(Of(c))
  <2>1. PICK n \in Nat : DOMAIN charges[c].elements = 1 .. n
    BY ChargeRow
  <2>2. IsFiniteSet(1 .. n)
    BY FS_Interval
  <2>3. IsFiniteSet({<<c, i>> : i \in 1 .. n})
    <3> DEFINE f == [i \in 1 .. n |-> <<c, i>>]
    <3>1. DOMAIN f = 1 .. n /\ f = [i \in DOMAIN f |-> f[i]] /\ {f[i] : i \in 1 .. n} = {<<c, i>> : i \in 1 .. n}
      OBVIOUS
    <3> HIDE DEF f
    <3>2. QED
      BY <2>2, <3>1, ImageIsFinite
  <2>4. QED
    BY <2>1, <2>3
<1>2. IsFiniteSet(family)
  <2>1. IsFiniteSet(DOMAIN charges)
    BY DEF Charged, IsCharged
  <2> DEFINE f == [c \in DOMAIN charges |-> Of(c)]
  <2>2. DOMAIN f = DOMAIN charges /\ f = [c \in DOMAIN f |-> f[c]] /\ {f[c] : c \in DOMAIN charges} = family
    OBVIOUS
  <2> HIDE DEF f, family
  <2>3. QED
    BY <2>1, <2>2, ImageIsFinite
<1>3. \A S \in family : IsFiniteSet(S)
  BY <1>1
<1>4. IsFiniteSet(UNION family)
  BY <1>2, <1>3, FS_UNION
<1>5. QED
  BY <1>4 DEF ElementRows

IsListing(rows, n) ==
  /\ n \in Nat /\ rows \in [1 .. n -> ElementRows] /\ IsInjective(rows) /\ ToSet(rows) = ElementRows
  /\ \A i, j \in 1 .. n : Before(rows[i], rows[j]) => i < j

\* The rows are listed, in an order of their charges and ordinals.
LEMMA RowsAreListed ==
  ASSUME Charged
  PROVE  \E n \in Nat : IsListing(StandingRows, n)
<1> DEFINE S == ElementRows
           R == {p \in S \X S : Before(p[1], p[2])}
<1>1. IsFiniteSet(S) /\ Cardinality(S) \in Nat
  BY RowsAreFinite, FS_CardinalityType
<1>2. ASSUME NEW x \in S
      PROVE  x = <<x[1], x[2]>> /\ x[1] \in DOMAIN charges /\ Rank(x[1]) \in Nat /\ x[2] \in Nat
  <2>1. PICK c \in DOMAIN charges : \E i \in DOMAIN charges[c].elements : x = <<c, i>>
    BY DEF ElementRows
  <2>2. PICK i \in DOMAIN charges[c].elements : x = <<c, i>>
    BY <2>1
  <2>3. i \in Nat /\ Rank(c) \in Nat
    BY ChargeRow
  <2>4. QED
    BY <2>2, <2>3
<1>3. ASSUME NEW x \in S, NEW y \in S
      PROVE  /\ <<x, y>> \in R <=> Before(x, y)
             /\ Before(x, y) <=> \/ Rank(x[1]) < Rank(y[1])
                                 \/ Rank(x[1]) = Rank(y[1]) /\ x[2] < y[2]
  BY DEF Before, Rank
<1> HIDE DEF S, R
<1>4. Strict(R, S)
  <2>1. ASSUME NEW x \in S PROVE <<x, x>> \notin R
    BY <1>2, <1>3
  <2>2. ASSUME NEW x \in S, NEW y \in S, NEW z \in S, <<x, y>> \in R, <<y, z>> \in R
        PROVE  <<x, z>> \in R
    BY <1>2, <1>3, <2>2
  <2>3. QED
    BY <2>1, <2>2 DEF Strict
<1>5. PICK s : Orders(s, S, R)
  BY <1>1, <1>4, StrictOrderExists
<1> DEFINE Fits(t) == /\ IsInjective(t) /\ ToSet(t) = S
                      /\ \A i, j \in DOMAIN t : Before(t[i], t[j]) => i < j
<1>6. s \in [1 .. Cardinality(S) -> S] /\ Fits(s)
  <2>1. \A i, j \in DOMAIN s : s[i] \in S /\ s[j] \in S
    BY <1>5 DEF Orders
  <2>2. QED
    BY <1>3, <1>5, <2>1 DEF Orders
<1>7. StandingRows = CHOOSE t \in [1 .. Cardinality(S) -> S] : Fits(t)
  BY DEF StandingRows, Sorted, S, ElementRows
<1>8. StandingRows \in [1 .. Cardinality(S) -> S] /\ Fits(StandingRows)
  BY <1>6, <1>7
<1>9. QED
  BY <1>1, <1>8 DEF IsListing, S

Entries == [charge : DOMAIN charges, elements : Seq(AllElements)]
Grows(f, rows) ==
  f = [s \in SUBSET DOMAIN rows |->
         IF s = {} THEN << >> ELSE AddStanding(f[s \ {Max(s)}], rows[Max(s)])]

\* What has been grouped of the first rows.
IsGrouping(g, rows, n) ==
  /\ g \in [0 .. n -> Seq(Entries)] /\ g[0] = << >> /\ g[n] = ChargesStanding
  /\ \A k \in 1 .. n : g[k] = AddStanding(g[k - 1], rows[k])

LEMMA AddsToEntries ==
  ASSUME Charged, NEW e \in Seq(Entries), NEW row \in ElementRows
  PROVE  AddStanding(e, row) \in Seq(Entries)
<1>1. PICK c \in DOMAIN charges : \E j \in DOMAIN charges[c].elements : row = <<c, j>>
  BY DEF ElementRows
<1>2. PICK i \in DOMAIN charges[c].elements : row = <<c, i>>
  BY <1>1
<1>3. PICK x \in AllElements : x = charges[c].elements[i]
  BY DEF AllElements, ElementsOf
<1>4. <<x>> \in Seq(AllElements)
  OBVIOUS
<1>5. CASE e # << >> /\ Last(e).charge = c
  <2>1. PICK n \in Nat : n = Len(e) /\ n \in 1 .. Len(e) /\ e[n] \in Entries
    BY <1>5
  <2>2. e[n].elements \in Seq(AllElements) /\ e[n].charge \in DOMAIN charges
    BY <2>1 DEF Entries
  <2>3. Append(e[n].elements, x) \in Seq(AllElements)
    BY <2>2
  <2>4. [e[n] EXCEPT !.elements = Append(@, x)] \in Entries
    BY <2>1, <2>3 DEF Entries
  <2>5. [e EXCEPT ![n] = [e[n] EXCEPT !.elements = Append(@, x)]] \in Seq(Entries)
    BY <2>1, <2>4
  <2>6. AddStanding(e, row) = [e EXCEPT ![n] = [e[n] EXCEPT !.elements = Append(@, x)]]
    BY <1>2, <1>3, <1>5, <2>1 DEF AddStanding
  <2>7. QED
    BY <2>5, <2>6
<1>6. CASE ~ (e # << >> /\ Last(e).charge = c)
  <2>1. AddStanding(e, row) = Append(e, [charge |-> c, elements |-> <<x>>])
    BY <1>2, <1>3, <1>6 DEF AddStanding
  <2>2. [charge |-> c, elements |-> <<x>>] \in Entries
    BY <1>4 DEF Entries
  <2>3. QED
    BY <2>1, <2>2
<1>7. QED
  BY <1>5, <1>6

LEMMA GroupingExists ==
  ASSUME Charged, NEW n, IsListing(StandingRows, n)
  PROVE  \E g : IsGrouping(g, StandingRows, n)
<1> DEFINE V == Seq(Entries)
           rows == StandingRows
           step == [p \in (1 .. n) \X V |-> AddStanding(p[2], rows[p[1]])]
           c == CHOOSE f : Grows(f, rows)
<1>1. n \in Nat /\ DOMAIN rows = 1 .. n /\ \A i \in 1 .. n : rows[i] \in ElementRows
  BY DEF IsListing
<1>2. ChargesStanding = c[1 .. n]
  BY <1>1 DEF ChargesStanding, FoldLeft, MapThenFoldSet, Grows
<1>3. << >> \in V
  OBVIOUS
<1>4. step \in [(1 .. n) \X V -> V]
  <2>1. ASSUME NEW p \in (1 .. n) \X V PROVE AddStanding(p[2], rows[p[1]]) \in V
    BY <1>1, AddsToEntries
  <2>2. QED
    BY <2>1
<1>5. \A k \in 1 .. n, v \in V : step[<<k, v>>] = AddStanding(v, rows[k])
  OBVIOUS
<1> HIDE DEF V, rows, step, c
<1>6. PICK f \in [SUBSET (1 .. n) -> V] : Folded(f, n, << >>, step)
  BY <1>1, <1>3, <1>4, FoldExists
<1>7. ASSUME NEW s \in SUBSET (1 .. n), s # {}
      PROVE  Max(s) \in 1 .. n /\ s \ {Max(s)} \in SUBSET (1 .. n)
  BY <1>1, <1>7, MaxIsIn
<1>8. Grows(f, rows)
  <2>1. \A s \in SUBSET (1 .. n) :
          f[s] = IF s = {} THEN << >> ELSE AddStanding(f[s \ {Max(s)}], rows[Max(s)])
    BY <1>5, <1>6, <1>7 DEF Folded
  <2>2. QED
    BY <1>1, <2>1 DEF Grows
<1>9. Grows(c, rows)
  BY <1>8 DEF c
<1>10. \A s \in SUBSET (1 .. n) :
         c[s] = IF s = {} THEN << >> ELSE AddStanding(c[s \ {Max(s)}], rows[Max(s)])
  BY <1>1, <1>9 DEF Grows
<1> DEFINE g == [k \in 0 .. n |-> c[1 .. k]]
<1>11. g[0] = << >> /\ g[n] = ChargesStanding
  <2>1. 1 .. 0 = {} /\ {} \in SUBSET (1 .. n) /\ 0 \in 0 .. n /\ n \in 0 .. n
    BY <1>1
  <2>2. QED
    BY <1>2, <1>10, <2>1
<1>12. ASSUME NEW k \in 1 .. n PROVE g[k] = AddStanding(g[k - 1], rows[k])
  <2>1. 1 .. k \in SUBSET (1 .. n) /\ 1 .. k # {} /\ k - 1 \in 0 .. n /\ k \in 0 .. n
    BY <1>1, Initial
  <2>2. Max(1 .. k) = k /\ (1 .. k) \ {k} = 1 .. (k - 1)
    BY <1>1, UptoMax
  <2>3. QED
    BY <1>10, <2>1, <2>2
<1> DEFINE Good == {k \in 0 .. n : g[k] \in V}
<1>13. \A k \in 0 .. n : g[k] \in V
  <2>1. 0 \in Good
    BY <1>1, <1>3, <1>11
  <2>2. ASSUME NEW k \in Nat, k < n, k \in Good PROVE k + 1 \in Good
    <3>1. k + 1 \in 1 .. n /\ (k + 1) - 1 = k /\ k + 1 \in 0 .. n
      BY <1>1, <2>2
    <3>2. g[k] \in V /\ rows[k + 1] \in ElementRows
      BY <1>1, <2>2, <3>1
    <3>3. AddStanding(g[k], rows[k + 1]) \in V
      BY <3>2, AddsToEntries DEF V
    <3>4. QED
      BY <1>12, <3>1, <3>3
  <2> HIDE DEF Good
  <2>3. 0 .. n \subseteq Good
    BY <1>1, <2>1, <2>2, CountingUp
  <2>4. QED
    BY <2>3 DEF Good
<1>14. g \in [0 .. n -> V]
  BY <1>13
<1> HIDE DEF g
<1>15. QED
  BY <1>11, <1>12, <1>14 DEF IsGrouping, V, rows

\* A row goes to the last entry, or it begins one.
Lengthens(f, e, c, x) ==
  /\ e # << >> /\ e[Len(e)].charge = c /\ Len(f) = Len(e)
  /\ \A m \in 1 .. Len(e) : m # Len(e) => f[m] = e[m]
  /\ f[Len(e)] = [charge |-> c, elements |-> Append(e[Len(e)].elements, x)]
Begins(f, e, c, x) ==
  /\ e = << >> \/ e[Len(e)].charge # c
  /\ Len(f) = Len(e) + 1
  /\ \A m \in 1 .. Len(e) : f[m] = e[m]
  /\ f[Len(e) + 1] = [charge |-> c, elements |-> <<x>>]

LEMMA RowIsAdded ==
  ASSUME NEW e \in Seq(Entries), NEW c \in DOMAIN charges, NEW i, NEW f,
         f = AddStanding(e, <<c, i>>), NEW x, x = charges[c].elements[i]
  PROVE  Lengthens(f, e, c, x) \/ Begins(f, e, c, x)
<1>1. PICK n \in Nat : n = Len(e) /\ DOMAIN e = 1 .. n /\ \A m \in 1 .. n : e[m] \in Entries
  OBVIOUS
<1>2. CASE e # << >> /\ Last(e).charge = c
  <2>0. n \in 1 .. n /\ e[n].charge = c /\ e[n] \in Entries
    <3>1. n # 0 /\ e[n].charge = c
      BY <1>1, <1>2 DEF Last
    <3>2. n \in 1 .. n
      BY <3>1
    <3>3. QED
      BY <1>1, <3>1, <3>2
  <2>1. n \in 1 .. n /\ e[n].charge = c /\ e[n] = [charge |-> c, elements |-> e[n].elements]
    BY <2>0 DEF Entries
  <2>2. f = [e EXCEPT ![n] = [e[n] EXCEPT !.elements = Append(@, x)]]
    BY <1>1, <1>2 DEF AddStanding
  <2>3. PICK q, s : q = e[n] /\ s = e[n].elements /\ q = [charge |-> c, elements |-> s]
    BY <2>1
  <2>4. [q EXCEPT !.elements = Append(@, x)] = [charge |-> c, elements |-> Append(s, x)]
    <3>1. PICK t : t = Append(s, x)
      OBVIOUS
    <3>2. q.elements = s /\ [q EXCEPT !.elements = t] = [charge |-> c, elements |-> t]
      BY <2>3
    <3>3. QED
      BY <3>1, <3>2
  <2>5. PICK r : r = [charge |-> c, elements |-> Append(s, x)]
    OBVIOUS
  <2>6. f = [e EXCEPT ![n] = r]
    BY <2>2, <2>3, <2>4, <2>5
  <2>7. Len(f) = n /\ f[n] = r /\ \A m \in 1 .. n : m # n => f[m] = e[m]
    <3>1. DOMAIN f = 1 .. n /\ f[n] = r /\ \A m \in 1 .. n : m # n => f[m] = e[m]
      BY <1>1, <2>1, <2>6
    <3>2. Len(f) = n
      BY <1>1, <2>6
    <3>3. QED
      BY <3>1, <3>2
  <2>8. Lengthens(f, e, c, x)
    BY <1>1, <1>2, <2>1, <2>3, <2>5, <2>7 DEF Lengthens
  <2>9. QED
    BY <2>8
<1>3. CASE ~ (e # << >> /\ Last(e).charge = c)
  <2>1. PICK r : r = [charge |-> c, elements |-> <<x>>]
    OBVIOUS
  <2>2. f = Append(e, r)
    BY <1>3, <2>1 DEF AddStanding
  <2>3. Len(f) = n + 1 /\ f[n + 1] = r /\ \A m \in 1 .. n : f[m] = e[m]
    <3>1. PICK T : T = Entries \cup {r}
      OBVIOUS
    <3>2. r \in T /\ e \in Seq(T)
      BY <3>1
    <3>3. Len(Append(e, r)) = n + 1 /\ Append(e, r)[n + 1] = r /\ \A m \in 1 .. n : Append(e, r)[m] = e[m]
      BY <1>1, <3>2
    <3>4. QED
      BY <2>2, <3>3
  <2>4. Begins(f, e, c, x)
    BY <1>1, <1>3, <2>1, <2>3 DEF Begins, Last
  <2>5. QED
    BY <2>4
<1>4. QED
  BY <1>2, <1>3

LEMMA ListedTells ==
  ASSUME NEW e, NEW n, DOMAIN e = 1 .. n, NEW y
  PROVE  y \in Listed(e) <=> \E m \in 1 .. n : y \in ToSet(e[m].elements)
BY DEF Listed

LEMMA Appended ==
  ASSUME NEW S, NEW s \in Seq(S), NEW x
  PROVE  ToSet(Append(s, x)) = ToSet(s) \cup {x}
<1>1. PICK k \in Nat : k = Len(s) /\ DOMAIN s = 1 .. k /\ DOMAIN Append(s, x) = 1 .. k + 1
  OBVIOUS
<1>2. Append(s, x)[k + 1] = x /\ \A j \in 1 .. k : Append(s, x)[j] = s[j]
  BY <1>1
<1>3. \A j \in 1 .. k + 1 : j = k + 1 \/ j \in 1 .. k
  BY <1>1
<1>4. k + 1 \in 1 .. k + 1 /\ \A j \in 1 .. k : j \in 1 .. k + 1
  BY <1>1
<1>5. QED
  BY <1>1, <1>2, <1>3, <1>4 DEF ToSet

LEMMA ListedGrows ==
  ASSUME Charged, NEW e \in Seq(Entries), NEW f \in Seq(Entries), NEW c, NEW x,
         Lengthens(f, e, c, x) \/ Begins(f, e, c, x)
  PROVE  Listed(f) = Listed(e) \cup {x} /\ f # << >> /\ f[Len(f)].charge = c
<1>1. PICK n \in Nat : n = Len(e) /\ DOMAIN e = 1 .. n
  OBVIOUS
<1>2. CASE Lengthens(f, e, c, x)
  <2>1. n \in 1 .. n /\ Len(f) = n /\ DOMAIN f = 1 .. n /\ f # << >>
    BY <1>1, <1>2 DEF Lengthens
  <2>2. PICK s \in Seq(AllElements) : s = e[n].elements
    <3>1. e[n] \in Entries
      BY <1>1, <2>1
    <3>2. QED
      BY <3>1 DEF Entries
  <2>3. f[n] = [charge |-> c, elements |-> Append(s, x)] /\ \A m \in 1 .. n : m # n => f[m] = e[m]
    BY <1>1, <1>2, <2>2 DEF Lengthens
  <2>4. ToSet(Append(s, x)) = ToSet(s) \cup {x}
    BY <2>2, Appended
  <2>5. \A y : (\E m \in 1 .. n : y \in ToSet(f[m].elements))
               <=> (\E m \in 1 .. n : y \in ToSet(e[m].elements)) \/ y = x
    <3>1. \A y : y \in ToSet(f[n].elements) <=> y \in ToSet(e[n].elements) \/ y = x
      BY <2>2, <2>3, <2>4
    <3>2. QED
      BY <2>1, <2>3, <3>1
  <2>6. \A y : y \in Listed(f) <=> y \in Listed(e) \/ y = x
    BY <1>1, <2>1, <2>5, ListedTells
  <2>7. f[Len(f)].charge = c
    BY <2>1, <2>3
  <2>8. QED
    BY <2>1, <2>6, <2>7
<1>3. CASE Begins(f, e, c, x)
  <2>1. n + 1 \in 1 .. n + 1 /\ Len(f) = n + 1 /\ DOMAIN f = 1 .. n + 1 /\ f # << >>
    BY <1>1, <1>3 DEF Begins
  <2>2. f[n + 1] = [charge |-> c, elements |-> <<x>>] /\ \A m \in 1 .. n : f[m] = e[m]
    BY <1>1, <1>3 DEF Begins
  <2>3. ToSet(f[n + 1].elements) = {x}
    BY <2>2 DEF ToSet
  <2>4. \A m \in 1 .. n + 1 : m = n + 1 \/ m \in 1 .. n
    BY <1>1
  <2>5. \A m \in 1 .. n : m \in 1 .. n + 1
    BY <1>1
  <2>6. \A y : (\E m \in 1 .. n + 1 : y \in ToSet(f[m].elements))
               <=> (\E m \in 1 .. n : y \in ToSet(e[m].elements)) \/ y = x
    BY <2>1, <2>2, <2>3, <2>4, <2>5
  <2>7. \A y : y \in Listed(f) <=> y \in Listed(e) \/ y = x
    BY <1>1, <2>1, <2>6, ListedTells
  <2>8. f[Len(f)].charge = c
    BY <2>1, <2>2
  <2>9. QED
    BY <2>1, <2>7, <2>8
<1>4. QED
  BY <1>2, <1>3

Element(row) == charges[row[1]].elements[row[2]]

LEMMA RowParts ==
  ASSUME Charged, NEW row \in ElementRows
  PROVE  \E c \in DOMAIN charges, i \in Nat :
           /\ row = <<c, i>> /\ i \in 1 .. Len(charges[c].elements)
           /\ charges[c].elements[i] = Element(row) /\ Element(row) \in ElementsOf(c)
<1>1. PICK c \in DOMAIN charges : \E j \in DOMAIN charges[c].elements : row = <<c, j>>
  BY DEF ElementRows
<1>2. PICK i \in DOMAIN charges[c].elements : row = <<c, i>>
  BY <1>1
<1>3. i \in 1 .. Len(charges[c].elements) /\ i \in Nat
  BY ChargeRow
<1>4. charges[c].elements[i] = Element(row) /\ Element(row) \in ElementsOf(c)
  BY <1>2 DEF Element, ElementsOf
<1>5. QED
  BY <1>2, <1>3, <1>4

\* The next row, and what the entries are with it.
LEMMA RowFollows ==
  ASSUME Charged, NEW n, IsListing(StandingRows, n), NEW g, IsGrouping(g, StandingRows, n),
         NEW k \in Nat, k < n
  PROVE  /\ g[k] \in Seq(Entries) /\ g[k + 1] \in Seq(Entries)
         /\ \E c \in DOMAIN charges, i \in Nat :
              /\ StandingRows[k + 1] = <<c, i>> /\ i \in 1 .. Len(charges[c].elements)
              /\ charges[c].elements[i] = Element(StandingRows[k + 1])
              /\ \/ Lengthens(g[k + 1], g[k], c, Element(StandingRows[k + 1]))
                 \/ Begins(g[k + 1], g[k], c, Element(StandingRows[k + 1]))
<1>1. n \in Nat /\ k + 1 \in 1 .. n /\ (k + 1) - 1 = k /\ k \in 0 .. n /\ k + 1 \in 0 .. n
  BY DEF IsListing
<1>2. g[k] \in Seq(Entries) /\ g[k + 1] \in Seq(Entries) /\ g[k + 1] = AddStanding(g[k], StandingRows[k + 1])
  BY <1>1 DEF IsGrouping
<1>3. PICK row \in ElementRows : row = StandingRows[k + 1]
  BY <1>1 DEF IsListing
<1>4. PICK c \in DOMAIN charges, i \in Nat :
         /\ row = <<c, i>> /\ i \in 1 .. Len(charges[c].elements)
         /\ charges[c].elements[i] = Element(row) /\ Element(row) \in ElementsOf(c)
  BY RowParts
<1>5. PICK e, f, x : /\ e \in Seq(Entries) /\ f \in Seq(Entries)
                     /\ e = g[k] /\ f = g[k + 1] /\ x = Element(row) /\ f = AddStanding(e, <<c, i>>)
  BY <1>2, <1>3, <1>4
<1>6. Lengthens(f, e, c, x) \/ Begins(f, e, c, x)
  BY <1>4, <1>5, RowIsAdded
<1>7. QED
  BY <1>2, <1>3, <1>4, <1>5, <1>6

\* No element is overlooked, whatever the charges are called.
LEMMA EveryElementIsListed ==
  ASSUME Charged
  PROVE  ChargesStanding \in Seq(Entries) /\ Listed(ChargesStanding) = AllElements
<1>1. PICK n \in Nat : IsListing(StandingRows, n)
  BY RowsAreListed
<1>2. PICK g : IsGrouping(g, StandingRows, n)
  BY <1>1, GroupingExists
<1> DEFINE Good == {k \in 0 .. n :
              \A y : y \in Listed(g[k]) <=> \E i \in 1 .. k : y = Element(StandingRows[i])}
<1>3. 0 \in Good
  <2>1. g[0] = << >> /\ 0 \in 0 .. n
    BY <1>2 DEF IsGrouping
  <2>2. Listed(<< >>) = {} /\ 1 .. 0 = {}
    BY DEF Listed
  <2>3. QED
    BY <2>1, <2>2
<1>4. ASSUME NEW k \in Nat, k < n /\ k \in Good PROVE k + 1 \in Good
  <2>1. g[k] \in Seq(Entries) /\ g[k + 1] \in Seq(Entries)
    BY <1>1, <1>2, <1>4, RowFollows
  <2>2. PICK c \in DOMAIN charges, i \in Nat :
              /\ StandingRows[k + 1] = <<c, i>> /\ i \in 1 .. Len(charges[c].elements)
              /\ charges[c].elements[i] = Element(StandingRows[k + 1])
              /\ \/ Lengthens(g[k + 1], g[k], c, Element(StandingRows[k + 1]))
                 \/ Begins(g[k + 1], g[k], c, Element(StandingRows[k + 1]))
    BY <1>1, <1>2, <1>4, RowFollows
  <2>3. Listed(g[k + 1]) = Listed(g[k]) \cup {Element(StandingRows[k + 1])}
    BY <2>1, <2>2, ListedGrows
  <2>4. \A i_1 \in 1 .. k + 1 : i_1 = k + 1 \/ i_1 \in 1 .. k
    OBVIOUS
  <2>5. k + 1 \in 1 .. k + 1 /\ k + 1 \in 0 .. n /\ \A j \in 1 .. k : j \in 1 .. k + 1
    BY <1>4
  <2>6. QED
    BY <1>4, <2>3, <2>4, <2>5
<1> HIDE DEF Good
<1>5. n \in 0 .. n /\ 0 .. n \subseteq Good
  <2>1. 0 .. n \subseteq Good
    BY <1>3, <1>4, CountingUp
  <2>2. QED
    BY <2>1
<1>6. g[n] = ChargesStanding /\ ChargesStanding \in Seq(Entries)
  BY <1>5, <1>2 DEF IsGrouping
<1>7. ASSUME NEW y
      PROVE  y \in Listed(ChargesStanding) <=> \E i \in 1 .. n : y = Element(StandingRows[i])
  BY <1>5, <1>6 DEF Good
<1>8. ASSUME NEW y PROVE y \in AllElements <=> \E row \in ElementRows : y = Element(row)
  <2>1. ASSUME NEW c \in DOMAIN charges, NEW j \in DOMAIN charges[c].elements, y = charges[c].elements[j]
        PROVE  \E row \in ElementRows : y = Element(row)
    <3>1. <<c, j>> \in ElementRows /\ Element(<<c, j>>) = y
      BY <2>1 DEF ElementRows, Element
    <3>2. QED
      BY <3>1
  <2>2. ASSUME NEW row \in ElementRows, y = Element(row) PROVE y \in AllElements
    BY <2>2, RowParts DEF AllElements
  <2>3. QED
    BY <2>1, <2>2 DEF AllElements, ElementsOf
<1>9. \A row : row \in ElementRows <=> \E i \in 1 .. n : row = StandingRows[i]
  BY <1>1 DEF IsListing, ToSet
<1>10. QED
  BY <1>6, <1>7, <1>8, <1>9

\* No two charges with elements share posture and label.
Distinct ==
  \A c, d \in DOMAIN charges :
    c # d /\ ElementsOf(c) # {} /\ ElementsOf(d) # {} => charges[c].label # charges[d].label

LEMMA Successive ==
  ASSUME Charged, Distinct, NEW rows, NEW n, IsListing(rows, n),
         NEW i \in 1 .. n, NEW j \in 1 .. n, i < j, NEW c, NEW a, rows[i] = <<c, a>>,
         NEW d, NEW b, rows[j] = <<d, b>>
  PROVE  /\ c \in DOMAIN charges /\ a \in 1 .. Len(charges[c].elements) /\ a \in Nat
         /\ d \in DOMAIN charges /\ b \in 1 .. Len(charges[d].elements) /\ b \in Nat
         /\ Rank(c) \in Nat /\ Rank(d) \in Nat
         /\ Rank(c) < Rank(d) \/ (c = d /\ a < b)
<1>1. rows[i] \in ElementRows /\ rows[j] \in ElementRows /\ rows[i] # rows[j]
  BY DEF IsListing, IsInjective
<1>2. c \in DOMAIN charges /\ a \in 1 .. Len(charges[c].elements) /\ a \in Nat /\ ElementsOf(c) # {}
  BY <1>1, RowParts
<1>3. d \in DOMAIN charges /\ b \in 1 .. Len(charges[d].elements) /\ b \in Nat /\ ElementsOf(d) # {}
  BY <1>1, RowParts
<1>4. Rank(c) \in Nat /\ Rank(d) \in Nat
  BY <1>2, <1>3, ChargeRow
<1>5. ~ Before(rows[j], rows[i])
  BY DEF IsListing
<1>6. ~ (Rank(d) < Rank(c)) /\ ~ (Rank(d) = Rank(c) /\ b < a)
  BY <1>5 DEF Before, Rank
<1>7. Rank(d) = Rank(c) => c = d
  BY <1>2, <1>3, RankTells DEF Distinct
<1>8. c = d => a # b
  BY <1>1
<1>9. QED
  BY <1>2, <1>3, <1>4, <1>6, <1>7, <1>8

LEMMA RowIsThere ==
  ASSUME Charged, NEW rows, NEW n, IsListing(rows, n),
         NEW c \in DOMAIN charges, NEW a \in 1 .. Len(charges[c].elements)
  PROVE  \E i \in 1 .. n : rows[i] = <<c, a>>
<1>1. <<c, a>> \in ElementRows
  <2>1. a \in DOMAIN charges[c].elements
    BY ChargeRow
  <2>2. QED
    BY <2>1 DEF ElementRows
<1>2. QED
  BY <1>1 DEF IsListing, ToSet

\* After a row comes the next element of its charge, or the first of a later one.
LEMMA NextRow ==
  ASSUME Charged, Distinct, NEW rows, NEW n, IsListing(rows, n), NEW k \in Nat, 1 <= k, k < n,
         NEW c, NEW a, rows[k] = <<c, a>>, NEW d, NEW b, rows[k + 1] = <<d, b>>
  PROVE  \/ d = c /\ b = a + 1
         \/ a = Len(charges[c].elements) /\ b = 1 /\ Rank(c) < Rank(d) /\ d # c
<1>1. n \in Nat /\ k \in 1 .. n /\ k + 1 \in 1 .. n
  BY DEF IsListing
<1>2. /\ c \in DOMAIN charges /\ a \in 1 .. Len(charges[c].elements) /\ a \in Nat
      /\ d \in DOMAIN charges /\ b \in 1 .. Len(charges[d].elements) /\ b \in Nat
      /\ Rank(c) \in Nat /\ Rank(d) \in Nat /\ Len(charges[c].elements) \in Nat
      /\ Rank(c) < Rank(d) \/ (c = d /\ a < b)
  <2>1. k < k + 1
    OBVIOUS
  <2>2. QED
    BY <1>1, <2>1, Successive, ChargeRow
<1>3. CASE a < Len(charges[c].elements)
  <2>1. a + 1 \in 1 .. Len(charges[c].elements)
    BY <1>2, <1>3
  <2>2. PICK p \in 1 .. n : rows[p] = <<c, a + 1>>
    <3>1. c \in DOMAIN charges
      BY <1>2
    <3>2. PICK o \in 1 .. Len(charges[c].elements) : o = a + 1
      BY <2>1
    <3>3. \E p \in 1 .. n : rows[p] = <<c, o>>
      BY <3>1, RowIsThere
    <3>4. QED
      BY <3>2, <3>3
  <2>3. p # k
    BY <2>2, <1>2
  <2>4. ~ (p < k)
    <3>1. SUFFICES ASSUME p < k PROVE FALSE
      OBVIOUS
    <3>2. Rank(c) < Rank(c) \/ a + 1 < a
      BY <1>1, <2>2, <3>1, Successive
    <3>3. QED
      BY <1>2, <3>2
  <2>5. CASE p = k + 1
    BY <2>2, <2>5
  <2>6. CASE p # k + 1
    <3>1. k + 1 < p
      BY <1>1, <2>3, <2>4, <2>6
    <3>2. Rank(d) < Rank(c) \/ (d = c /\ b < a + 1)
      BY <1>1, <2>2, <3>1, Successive
    <3>3. QED
      BY <1>2, <3>2
  <2>7. QED
    BY <2>5, <2>6
<1>4. CASE a = Len(charges[c].elements)
  <2>1. Rank(c) < Rank(d) /\ d # c
    BY <1>2, <1>4
  <2>2. b = 1
    <3>1. SUFFICES ASSUME b # 1 PROVE FALSE
      OBVIOUS
    <3>2. b - 1 \in 1 .. Len(charges[d].elements)
      BY <1>2, <3>1, ChargeRow
    <3>3. PICK p \in 1 .. n : rows[p] = <<d, b - 1>>
      <4>1. d \in DOMAIN charges
        BY <1>2
      <4>2. PICK o \in 1 .. Len(charges[d].elements) : o = b - 1
        BY <3>2
      <4>3. \E p \in 1 .. n : rows[p] = <<d, o>>
        BY <4>1, RowIsThere
      <4>4. QED
        BY <4>2, <4>3
    <3>4. p # k /\ p # k + 1
      BY <1>2, <2>1, <3>3
    <3>5. CASE p < k
      <4>1. Rank(d) < Rank(c) \/ d = c
        BY <1>1, <3>3, <3>5, Successive
      <4>2. QED
        BY <1>2, <2>1, <4>1
    <3>6. CASE k + 1 < p
      <4>1. Rank(d) < Rank(d) \/ b < b - 1
        BY <1>1, <3>3, <3>6, Successive
      <4>2. QED
        BY <1>2, <4>1
    <3>7. QED
      BY <1>1, <3>4, <3>5, <3>6
  <2>3. QED
    BY <1>4, <2>1, <2>2
<1>5. QED
  BY <1>2, <1>3, <1>4

LEMMA FirstRow ==
  ASSUME Charged, Distinct, NEW rows, NEW n, IsListing(rows, n), n # 0, NEW d, NEW b, rows[1] = <<d, b>>
  PROVE  b = 1
<1>1. n \in Nat /\ 1 \in 1 .. n
  BY DEF IsListing
<1>2. d \in DOMAIN charges /\ b \in 1 .. Len(charges[d].elements) /\ b \in Nat
  <2>1. rows[1] \in ElementRows
    BY <1>1 DEF IsListing
  <2>2. QED
    BY <2>1, RowParts
<1>3. SUFFICES ASSUME b # 1 PROVE FALSE
  OBVIOUS
<1>4. b - 1 \in 1 .. Len(charges[d].elements)
  BY <1>2, <1>3, ChargeRow
<1>5. PICK p \in 1 .. n : rows[p] = <<d, b - 1>>
  BY <1>2, <1>4, RowIsThere
<1>6. p # 1
  BY <1>2, <1>5
<1>7. Rank(d) \in Nat /\ (Rank(d) < Rank(d) \/ b < b - 1)
  <2>1. 1 < p
    BY <1>1, <1>6
  <2>2. QED
    BY <1>1, <1>5, <2>1, Successive
<1>8. QED
  BY <1>2, <1>7

LEMMA LastRow ==
  ASSUME Charged, Distinct, NEW rows, NEW n, IsListing(rows, n), n # 0, NEW c, NEW a, rows[n] = <<c, a>>
  PROVE  a = Len(charges[c].elements)
<1>1. n \in Nat /\ n \in 1 .. n
  BY DEF IsListing
<1>2. c \in DOMAIN charges /\ a \in 1 .. Len(charges[c].elements) /\ a \in Nat
  <2>1. rows[n] \in ElementRows
    BY <1>1 DEF IsListing
  <2>2. QED
    BY <2>1, RowParts
<1>3. SUFFICES ASSUME a # Len(charges[c].elements) PROVE FALSE
  OBVIOUS
<1>4. a + 1 \in 1 .. Len(charges[c].elements)
  BY <1>2, <1>3, ChargeRow
<1>5. PICK p \in 1 .. n : rows[p] = <<c, a + 1>>
  BY <1>2, <1>4, RowIsThere
<1>6. p # n
  BY <1>2, <1>5
<1>7. Rank(c) \in Nat /\ (Rank(c) < Rank(c) \/ a + 1 < a)
  <2>1. p < n
    BY <1>1, <1>6
  <2>2. QED
    BY <1>1, <1>5, <2>1, Successive
<1>8. QED
  BY <1>2, <1>7

\* The entries so far: every one holds the first elements of its charge, all
\* but the last hold all of them, and their charges are in order.
Partly(q) ==
  /\ q.elements \in Seq(AllElements) /\ Len(q.elements) <= Len(charges[q.charge].elements)
  /\ \A j \in 1 .. Len(q.elements) : q.elements[j] = charges[q.charge].elements[j]
InOrderOfCharges(e) ==
  /\ e \in Seq(Entries)
  /\ \A m \in 1 .. Len(e) : Partly(e[m])
  /\ \A m \in 1 .. Len(e) :
       m # Len(e) => Len(e[m].elements) = Len(charges[e[m].charge].elements)
  /\ \A m, l \in 1 .. Len(e) : m < l => Rank(e[m].charge) < Rank(e[l].charge)
Ends(e, c, a) == e # << >> /\ e[Len(e)].charge = c /\ Len(e[Len(e)].elements) = a

LEMMA LengthenedInOrder ==
  ASSUME Charged, NEW e, InOrderOfCharges(e), NEW f \in Seq(Entries), NEW c \in DOMAIN charges,
         NEW a \in Nat, Ends(e, c, a), NEW x, x = charges[c].elements[a + 1],
         a + 1 <= Len(charges[c].elements), Lengthens(f, e, c, x)
  PROVE  InOrderOfCharges(f) /\ Ends(f, c, a + 1)
<1>1. PICK n \in Nat : n = Len(e) /\ DOMAIN e = 1 .. n /\ n \in 1 .. n
  BY DEF Ends, InOrderOfCharges
<1>2. Len(f) = n /\ f # << >> /\ \A m \in 1 .. n : m # n => f[m] = e[m]
  BY <1>1 DEF Lengthens
<1>3. PICK s \in Seq(AllElements) :
        s = e[n].elements /\ Len(s) = a /\ \A j \in 1 .. a : s[j] = charges[c].elements[j]
  BY <1>1 DEF Ends, InOrderOfCharges, Partly
<1>4. e[n].charge = c
  BY <1>1 DEF Ends
<1>5. f[n] = [charge |-> c, elements |-> Append(s, x)]
  BY <1>1, <1>3 DEF Lengthens
<1>6. Append(s, x) \in Seq(AllElements)
  <2>1. f[n] \in Entries
    BY <1>1, <1>2
  <2>2. QED
    BY <1>5, <2>1 DEF Entries
<1>7. Len(Append(s, x)) = a + 1 /\ \A j \in 1 .. a + 1 : Append(s, x)[j] = charges[c].elements[j]
  <2>1. x \in AllElements
    BY ChargeRow DEF AllElements, ElementsOf
  <2>2. Len(Append(s, x)) = a + 1 /\ Append(s, x)[a + 1] = x /\ \A j \in 1 .. a : Append(s, x)[j] = s[j]
    BY <1>3, <2>1
  <2>3. \A j \in 1 .. a + 1 : j = a + 1 \/ j \in 1 .. a
    OBVIOUS
  <2>4. QED
    BY <1>3, <2>2, <2>3
<1>8. Partly(f[n])
  BY <1>5, <1>6, <1>7 DEF Partly
<1>9. ASSUME NEW m \in 1 .. n
      PROVE  /\ Partly(f[m]) /\ f[m].charge = e[m].charge
             /\ m # n => Len(f[m].elements) = Len(charges[f[m].charge].elements)
  <2>1. CASE m = n
    BY <1>4, <1>5, <1>8, <2>1
  <2>2. CASE m # n
    BY <1>1, <1>2, <2>2 DEF InOrderOfCharges
  <2>3. QED
    BY <2>1, <2>2
<1>10. \A m, l \in 1 .. n : m < l => Rank(f[m].charge) < Rank(f[l].charge)
  BY <1>1, <1>9 DEF InOrderOfCharges
<1>11. InOrderOfCharges(f)
  BY <1>2, <1>9, <1>10 DEF InOrderOfCharges
<1>12. Ends(f, c, a + 1)
  BY <1>2, <1>5, <1>7 DEF Ends
<1>13. QED
  BY <1>11, <1>12

LEMMA BegunInOrder ==
  ASSUME Charged, NEW e, InOrderOfCharges(e), NEW f \in Seq(Entries), NEW c \in DOMAIN charges,
         NEW x, x = charges[c].elements[1], 1 <= Len(charges[c].elements), Begins(f, e, c, x),
         e # << >> => \E d \in DOMAIN charges : /\ Ends(e, d, Len(charges[d].elements))
                                               /\ Rank(d) < Rank(c)
  PROVE  InOrderOfCharges(f) /\ Ends(f, c, 1)
<1>1. PICK n \in Nat : n = Len(e) /\ DOMAIN e = 1 .. n
  BY DEF InOrderOfCharges
<1>2. /\ Len(f) = n + 1 /\ f[n + 1] = [charge |-> c, elements |-> <<x>>]
      /\ \A m \in 1 .. n : f[m] = e[m]
  BY <1>1 DEF Begins
<1>3. f # << >> /\ n + 1 \in 1 .. n + 1 /\ \A m \in 1 .. n + 1 : m = n + 1 \/ m \in 1 .. n
  BY <1>1, <1>2
<1>4. Ends(f, c, 1)
  BY <1>2, <1>3 DEF Ends
<1>5. Partly(f[n + 1])
  <2>1. f[n + 1] \in Entries
    BY <1>1, <1>2, <1>3
  <2>2. <<x>> \in Seq(AllElements)
    BY <1>2, <2>1 DEF Entries
  <2>3. \A j \in 1 .. 1 : j = 1
    OBVIOUS
  <2>4. QED
    BY <1>2, <2>2, <2>3 DEF Partly
<1>6. ASSUME NEW m \in 1 .. n
      PROVE  /\ Partly(f[m]) /\ f[m].charge = e[m].charge /\ Rank(e[m].charge) < Rank(c)
             /\ Len(f[m].elements) = Len(charges[f[m].charge].elements)
  <2>1. e # << >> /\ n \in 1 .. n
    BY <1>1
  <2>2. PICK d \in DOMAIN charges : Ends(e, d, Len(charges[d].elements)) /\ Rank(d) < Rank(c)
    BY <2>1
  <2>3. e[n].charge = d /\ Len(e[n].elements) = Len(charges[d].elements)
    BY <1>1, <2>2 DEF Ends
  <2>4. Len(e[m].elements) = Len(charges[e[m].charge].elements)
    <3>1. CASE m = n
      BY <2>3, <3>1
    <3>2. CASE m # n
      BY <1>1, <3>2 DEF InOrderOfCharges
    <3>3. QED
      BY <3>1, <3>2
  <2>5. Rank(e[m].charge) < Rank(c)
    <3>1. CASE m = n
      BY <2>2, <2>3, <3>1
    <3>2. CASE m # n
      <4>1. m < n
        BY <1>1, <3>2
      <4>2. Rank(e[m].charge) < Rank(d)
        BY <1>1, <2>1, <2>3, <4>1 DEF InOrderOfCharges
      <4>3. e[m].charge \in DOMAIN charges
        <5>1. e[m] \in Entries
          BY <1>1 DEF InOrderOfCharges
        <5>2. QED
          BY <5>1 DEF Entries
      <4>4. Rank(e[m].charge) \in Nat /\ Rank(d) \in Nat /\ Rank(c) \in Nat
        BY <4>3, ChargeRow
      <4>5. QED
        BY <2>2, <4>2, <4>4
    <3>3. QED
      BY <3>1, <3>2
  <2>6. QED
    BY <1>1, <1>2, <2>4, <2>5 DEF InOrderOfCharges
<1>7. ASSUME NEW m \in 1 .. n + 1, NEW l \in 1 .. n + 1, m < l
      PROVE  Rank(f[m].charge) < Rank(f[l].charge)
  <2>1. m \in 1 .. n
    BY <1>1, <1>7
  <2>2. CASE l = n + 1
    BY <1>2, <1>6, <2>1, <2>2
  <2>3. CASE l \in 1 .. n
    BY <1>1, <1>6, <1>7, <2>1, <2>3 DEF InOrderOfCharges
  <2>4. QED
    BY <1>3, <2>2, <2>3
<1>8. InOrderOfCharges(f)
  BY <1>2, <1>3, <1>5, <1>6, <1>7 DEF InOrderOfCharges
<1>9. QED
  BY <1>4, <1>8

\* Charges that differ in posture or label stand once, with all their elements.
LEMMA ChargesStandOnce ==
  ASSUME Charged, Distinct
  PROVE  LET e == ChargesStanding
         IN /\ \A m \in DOMAIN e : e[m].elements = charges[e[m].charge].elements
            /\ \A m, l \in DOMAIN e : e[m].charge = e[l].charge => m = l
<1>1. PICK n \in Nat : IsListing(StandingRows, n)
  BY RowsAreListed
<1>2. PICK g : IsGrouping(g, StandingRows, n)
  BY <1>1, GroupingExists
<1> DEFINE Good == {k \in 0 .. n :
              /\ InOrderOfCharges(g[k])
              /\ k # 0 => \E c \in DOMAIN charges, a \in Nat :
                            StandingRows[k] = <<c, a>> /\ Ends(g[k], c, a)}
<1>3. 0 \in Good
  <2>1. g[0] = << >> /\ 0 \in 0 .. n
    BY <1>2 DEF IsGrouping
  <2>2. InOrderOfCharges(<< >>)
    <3>1. Len(<< >>) = 0 /\ 1 .. 0 = {} /\ << >> \in Seq(Entries)
      OBVIOUS
    <3>2. QED
      BY <3>1 DEF InOrderOfCharges
  <2>3. QED
    BY <2>1, <2>2
<1>4. ASSUME NEW k \in Nat, k < n /\ k \in Good PROVE k + 1 \in Good
  <2>1. g[k] \in Seq(Entries) /\ g[k + 1] \in Seq(Entries)
    BY <1>1, <1>2, <1>4, RowFollows
  <2>2. PICK c \in DOMAIN charges, i \in Nat :
              /\ StandingRows[k + 1] = <<c, i>> /\ i \in 1 .. Len(charges[c].elements)
              /\ charges[c].elements[i] = Element(StandingRows[k + 1])
              /\ \/ Lengthens(g[k + 1], g[k], c, Element(StandingRows[k + 1]))
                 \/ Begins(g[k + 1], g[k], c, Element(StandingRows[k + 1]))
    BY <1>1, <1>2, <1>4, RowFollows
  <2>3. PICK e, f, x : e = g[k] /\ f = g[k + 1] /\ x = charges[c].elements[i]
    OBVIOUS
  <2>4. InOrderOfCharges(e) /\ f \in Seq(Entries) /\ (Lengthens(f, e, c, x) \/ Begins(f, e, c, x))
    BY <1>4, <2>1, <2>2, <2>3
  <2>5. k + 1 \in 0 .. n /\ n # 0
    BY <1>4
  <2>6. InOrderOfCharges(f) /\ Ends(f, c, i)
    <3>1. CASE k = 0
      <4>1. i = 1
        BY <1>1, <2>2, <2>5, <3>1, FirstRow
      <4>2. e = << >>
        BY <1>2, <2>3, <3>1 DEF IsGrouping
      <4>3. Begins(f, e, c, x)
        BY <2>4, <4>2 DEF Lengthens
      <4>4. x = charges[c].elements[1] /\ 1 <= Len(charges[c].elements)
        BY <2>2, <2>3, <4>1, ChargeRow
      <4>5. InOrderOfCharges(f) /\ Ends(f, c, 1)
        BY <2>4, <4>2, <4>3, <4>4, BegunInOrder
      <4>6. QED
        BY <4>1, <4>5
    <3>2. CASE k # 0
      <4>1. PICK d \in DOMAIN charges, a \in Nat : StandingRows[k] = <<d, a>> /\ Ends(e, d, a)
        BY <1>4, <2>3, <3>2
      <4>2. 1 <= k /\ k < n
        BY <1>4, <3>2
      <4>3. \/ c = d /\ i = a + 1
            \/ a = Len(charges[d].elements) /\ i = 1 /\ Rank(d) < Rank(c) /\ c # d
        BY <1>1, <2>2, <4>1, <4>2, NextRow
      <4>4. CASE c = d /\ i = a + 1
        <5>1. Lengthens(f, e, c, x)
          BY <2>4, <4>1, <4>4 DEF Begins, Ends
        <5>2. Ends(e, c, a) /\ x = charges[c].elements[a + 1] /\ a + 1 <= Len(charges[c].elements)
          BY <2>2, <2>3, <4>1, <4>4, ChargeRow
        <5>3. InOrderOfCharges(f) /\ Ends(f, c, a + 1)
          BY <2>4, <5>1, <5>2, LengthenedInOrder
        <5>4. QED
          BY <4>4, <5>3
      <4>5. CASE a = Len(charges[d].elements) /\ i = 1 /\ Rank(d) < Rank(c) /\ c # d
        <5>1. Begins(f, e, c, x)
          BY <2>4, <4>1, <4>5 DEF Lengthens, Ends
        <5>2. x = charges[c].elements[1] /\ 1 <= Len(charges[c].elements)
          BY <2>2, <2>3, <4>5, ChargeRow
        <5>3. Ends(e, d, Len(charges[d].elements)) /\ Rank(d) < Rank(c)
          BY <4>1, <4>5
        <5>4. InOrderOfCharges(f) /\ Ends(f, c, 1)
          BY <2>4, <5>1, <5>2, <5>3, BegunInOrder
        <5>5. QED
          BY <4>5, <5>4
      <4>6. QED
        BY <4>3, <4>4, <4>5
    <3>3. QED
      BY <3>1, <3>2
  <2>7. QED
    BY <2>2, <2>3, <2>5, <2>6
<1> HIDE DEF Good
<1>5. n \in 0 .. n /\ 0 .. n \subseteq Good
  <2>1. 0 .. n \subseteq Good
    BY <1>3, <1>4, CountingUp
  <2>2. QED
    BY <2>1
<1>6. PICK e : e = ChargesStanding
  OBVIOUS
<1>7. g[n] = e /\ InOrderOfCharges(e)
  BY <1>5, <1>2, <1>6 DEF IsGrouping, Good
<1>8. PICK k \in Nat : k = Len(e) /\ DOMAIN e = 1 .. k
  BY <1>7 DEF InOrderOfCharges
<1>9. ASSUME NEW m \in 1 .. k
      PROVE  /\ e[m].charge \in DOMAIN charges /\ Rank(e[m].charge) \in Nat
             /\ Len(e[m].elements) = Len(charges[e[m].charge].elements)
  <2>1. e[m] \in Entries
    BY <1>7, <1>8 DEF InOrderOfCharges
  <2>2. e[m].charge \in DOMAIN charges
    BY <2>1 DEF Entries
  <2>3. Len(e[m].elements) = Len(charges[e[m].charge].elements)
    <3>1. CASE m # k
      BY <1>7, <1>8, <3>1 DEF InOrderOfCharges
    <3>2. CASE m = k
      <4>1. n # 0
        <5>1. SUFFICES ASSUME n = 0 PROVE FALSE
          OBVIOUS
        <5>2. e = << >>
          BY <1>2, <1>7, <5>1 DEF IsGrouping
        <5>3. QED
          BY <1>8, <5>2
      <4>2. PICK c \in DOMAIN charges, a \in Nat : StandingRows[n] = <<c, a>> /\ Ends(e, c, a)
        BY <1>5, <1>7, <4>1 DEF Good
      <4>3. a = Len(charges[c].elements)
        BY <1>1, <4>1, <4>2, LastRow
      <4>4. QED
        BY <1>8, <3>2, <4>2, <4>3 DEF Ends
    <3>3. QED
      BY <3>1, <3>2
  <2>4. QED
    BY <2>2, <2>3, ChargeRow
<1>10. ASSUME NEW m \in 1 .. k PROVE e[m].elements = charges[e[m].charge].elements
  <2>1. PICK s, t : s = e[m].elements /\ t = charges[e[m].charge].elements
    OBVIOUS
  <2>2. Partly(e[m])
    BY <1>7, <1>8 DEF InOrderOfCharges
  <2>3. s \in Seq(AllElements) /\ \A j \in 1 .. Len(s) : s[j] = t[j]
    BY <2>1, <2>2 DEF Partly
  <2>4. Len(s) = Len(t) /\ t \in Seq(ElementsOf(e[m].charge))
    BY <1>9, <2>1, ChargeRow
  <2>5. s = t
    BY <2>3, <2>4
  <2>6. QED
    BY <2>1, <2>5
<1>11. ASSUME NEW m \in 1 .. k, NEW l \in 1 .. k, e[m].charge = e[l].charge PROVE m = l
  <2>1. m < l => Rank(e[m].charge) < Rank(e[l].charge)
    BY <1>7, <1>8 DEF InOrderOfCharges
  <2>2. l < m => Rank(e[l].charge) < Rank(e[m].charge)
    BY <1>7, <1>8 DEF InOrderOfCharges
  <2>3. QED
    BY <1>9, <1>11, <2>1, <2>2
<1>12. QED
  BY <1>6, <1>8, <1>10, <1>11

----------------------------------------------------------------------------
(* What a process has read so far, statement by statement.                  *)

\* Rows are added and none is changed.
Extends(new, old) ==
  /\ DOMAIN old \subseteq DOMAIN new
  /\ \A k \in DOMAIN old : new[k] = old[k]

\* Nothing was decided or mapped since the first statement.
Quiet(q) == q.fresh /\ q.links = links

ChargesListed(entries) == {entries[i].charge : i \in DOMAIN entries}
StandsOnce(entries) ==
  (\A c, d \in ChargesListed(entries) : c # d => charges[c].label # charges[d].label) =>
    /\ Len(entries) = Cardinality(ChargesListed(entries))
    /\ \A i \in DOMAIN entries : entries[i].elements = charges[entries[i].charge].elements

StandingOps == {"standing", "mapped", "sourced", "disputed", "unsupported", "stood"}
ReadMapped(q) ==
  /\ {"facts", "bearsOn"} \subseteq DOMAIN q
  /\ Quiet(q) =>
       /\ \A x \in Listed(q.entries) :
            q.facts[x] = [supporting |-> MappedTo(x, "supports"),
                          unchecked |-> UncheckedSupport(x), unbacked |-> Unbacked(x)]
       /\ \A p \in Propositions : q.bearsOn[p] = {x \in Listed(q.entries) : <<x, p>> \in DOMAIN links}
ReadSourced(q) ==
  /\ "sources" \in DOMAIN q
  /\ Quiet(q) => \A x \in Listed(q.entries) : q.sources[x] = SourcesBehindSupport(x)
ReadDisputed(q) ==
  "disputes" \in DOMAIN q /\ (Quiet(q) => q.disputes = {p \in Propositions : Disputed(p)})
ReadGaps(q) ==
  /\ "unsupported" \in DOMAIN q
  /\ Quiet(q) => q.unsupported = {p \in Propositions : LinesOn(p) = {}}
ReadStood(q) ==
  /\ "unmapped" \in DOMAIN q
  /\ Quiet(q) => q.unmapped = {p \in Propositions : LinesOn(p) # {} /\ q.bearsOn[p] = {}}

StandingFits(q) ==
  /\ {"fresh", "links", "entries"} \subseteq DOMAIN q
  /\ q.entries \in Seq(Entries)
  /\ StandsOnce(q.entries)
  /\ Extends(links, q.links)
  /\ \A k \in DOMAIN q.links : k[1] \in Listed(q.entries)
  /\ q.op \in StandingOps \ {"standing"} => ReadMapped(q)
  /\ q.op \in {"sourced", "disputed", "unsupported", "stood"} => ReadSourced(q)
  /\ q.op \in {"disputed", "unsupported", "stood"} => ReadDisputed(q)
  /\ q.op \in {"unsupported", "stood"} => ReadGaps(q)
  /\ q.op = "stood" => ReadStood(q)

\* A row of the comparison shows what is mapped: all there was, and nothing else.
ComparedOps == {"comparison", "elements", "compared"}
MappedIn(mapped, x, a) == {p \in Propositions : <<x, p>> \in DOMAIN mapped /\ mapped[<<x, p>>] = a}
LineFits(line, x, old) ==
  /\ line.element = x
  /\ line.supporting \subseteq MappedTo(x, "supports")
  /\ line.opposing \subseteq MappedTo(x, "opposes")
  /\ MappedIn(old, x, "supports") \subseteq line.supporting
  /\ MappedIn(old, x, "opposes") \subseteq line.opposing
RowFits(q, i) ==
  LET row == q.rows[i]
  IN /\ row.charge = q.listed[i]
     /\ DOMAIN row.elements = DOMAIN charges[q.listed[i]].elements
     /\ \A j \in DOMAIN row.elements :
          LineFits(row.elements[j], charges[q.listed[i]].elements[j], q.links)

ComparisonFits(q) ==
  /\ {"links", "listed"} \subseteq DOMAIN q
  /\ q.listed \in Seq(DOMAIN charges) /\ IsInjective(q.listed)
  /\ Extends(links, q.links)
  /\ \A k \in DOMAIN q.links : \E i \in DOMAIN q.listed : k[1] \in ElementsOf(q.listed[i])
  /\ q.op # "comparison" =>
       /\ "elements" \in DOMAIN q
       /\ \A i \in DOMAIN q.listed : q.elements[q.listed[i]] = charges[q.listed[i]].elements
  /\ q.op = "compared" =>
       /\ "rows" \in DOMAIN q
       /\ DOMAIN q.rows = DOMAIN q.listed
       /\ \A i \in DOMAIN q.rows : RowFits(q, i)

SearchFits(q) ==
  /\ {"fresh", "hits"} \subseteq DOMAIN q
  /\ q.op = "found" =>
       /\ "bears" \in DOMAIN q
       /\ q.fresh => q.bears = {e \in ExportedEvidence : Bears[e].passage \in q.hits}

FlowFits(q) ==
  /\ q = [k \in DOMAIN q |-> q[k]] /\ "op" \in DOMAIN q
  /\ q.op = "brief" => q \in BriefFlows
  /\ q.op = "charge" => "request" \in DOMAIN q /\ q.request \in ChargeRequests
  /\ q.op = "map" =>
       /\ {"pair", "assessment"} \subseteq DOMAIN q /\ q.assessment \in Assessments
       /\ \E x \in AllElements, p \in Propositions : q.pair = <<x, p>>
  /\ q.op \in StandingOps => StandingFits(q)
  /\ q.op \in ComparedOps => ComparisonFits(q)
  /\ q.op \in {"search", "found"} => SearchFits(q)

BriefsNumbered ==
  /\ briefs = [b \in DOMAIN briefs |-> briefs[b]]
  /\ Numbered(briefs) /\ \A b \in DOMAIN briefs : briefs[b] \in BriefRows
  /\ BriefsApart

ViewInv ==
  /\ Charged /\ BriefsNumbered
  /\ \A k \in DOMAIN links : links[k] \in Assessments
  /\ doing = [w \in Processes |-> doing[w]]
  /\ \A w \in Processes : FlowFits(doing[w])

LEMMA Changes ==
  ASSUME NEW q, q = [k \in DOMAIN q |-> q[k]], NEW f, NEW v
  PROVE  /\ DOMAIN [q EXCEPT ![f] = v] = DOMAIN q
         /\ [q EXCEPT ![f] = v] = [k \in DOMAIN q |-> [q EXCEPT ![f] = v][k]]
         /\ \A k \in DOMAIN q : k # f => [q EXCEPT ![f] = v][k] = q[k]
         /\ f \in DOMAIN q => [q EXCEPT ![f] = v][f] = v
OBVIOUS

LEMMA Counted ==
  ASSUME NEW n \in Nat, NEW f, f = [i \in 1 .. n |-> f[i]],
         \A i, j \in 1 .. n : f[i] = f[j] => i = j
  PROVE  Cardinality({f[i] : i \in 1 .. n}) = n
<1> DEFINE T == {f[i] : i \in 1 .. n}
<1>1. f \in Bijection(1 .. n, T)
  BY DEF Bijection, Injection, Surjection, IsInjective
<1>2. ExistsBijection(1 .. n, T)
  BY <1>1 DEF ExistsBijection
<1>3. IsFiniteSet(1 .. n) /\ Cardinality(1 .. n) = n
  <2>1. n \in Int /\ 1 \in Int
    OBVIOUS
  <2>2. IsFiniteSet(1 .. n) /\ Cardinality(1 .. n) = IF 1 > n THEN 0 ELSE n - 1 + 1
    BY <2>1, FS_Interval
  <2>3. QED
    BY <2>2
<1> HIDE DEF T
<1>4. Cardinality(T) = n
  BY <1>2, <1>3, FS_Bijection
<1>5. QED
  BY <1>4 DEF T

\* What a standing that was read to its end tells is one story.
LEMMA StandingIsSound ==
  ASSUME NEW q, StandingFits(q), q.op = "stood"
  PROVE  IsSound(q)
<1>1. ReadMapped(q) /\ ReadSourced(q) /\ ReadDisputed(q) /\ ReadGaps(q) /\ ReadStood(q)
  BY DEF StandingFits, StandingOps
<1>2. StandsOnce(q.entries)
  BY DEF StandingFits
<1>3. ASSUME Quiet(q), NEW x \in Listed(q.entries)
      PROVE  /\ q.facts[x].unchecked # q.facts[x].supporting => q.sources[x] # {}
             /\ q.facts[x].supporting \subseteq q.facts[x].unbacked => q.sources[x] = {}
  <2>1. /\ q.facts[x].supporting = MappedTo(x, "supports")
        /\ q.facts[x].unchecked = UncheckedSupport(x) /\ q.facts[x].unbacked = Unbacked(x)
        /\ q.sources[x] = SourcesBehindSupport(x)
    <3>1. q.facts[x] = [supporting |-> MappedTo(x, "supports"),
                        unchecked |-> UncheckedSupport(x), unbacked |-> Unbacked(x)]
      BY <1>1, <1>3 DEF ReadMapped
    <3>2. q.sources[x] = SourcesBehindSupport(x)
      BY <1>1, <1>3 DEF ReadSourced
    <3>3. QED
      BY <3>1, <3>2
  <2>2. ASSUME UncheckedSupport(x) # MappedTo(x, "supports") PROVE SourcesBehindSupport(x) # {}
    <3>1. PICK p \in MappedTo(x, "supports") : CheckedLines(p) # {}
      BY <2>2 DEF UncheckedSupport
    <3>2. PICK e \in CheckedLines(p) : TRUE
      BY <3>1
    <3>3. Bears[e].source \in SourcesBehindSupport(x)
      BY <3>1, <3>2 DEF CheckedLines, LinesOn, SourcesBehindSupport
    <3>4. QED
      BY <3>3
  <2>3. ASSUME MappedTo(x, "supports") \subseteq Unbacked(x) PROVE SourcesBehindSupport(x) = {}
    <3>1. SUFFICES ASSUME NEW s \in SourcesBehindSupport(x) PROVE FALSE
      OBVIOUS
    <3>2. PICK e \in Evidence : /\ Bears[e].proposition \in MappedTo(x, "supports")
                                /\ lineState[e] \notin {"absent", "rejected"}
      BY <3>1 DEF SourcesBehindSupport
    <3>3. e \in LinesOn(Bears[e].proposition)
      BY <3>2 DEF LinesOn
    <3>4. LinesOn(Bears[e].proposition) = {}
      BY <2>3, <3>2 DEF Unbacked
    <3>5. QED
      BY <3>3, <3>4
  <2>4. QED
    BY <2>1, <2>2, <2>3
<1>4. ASSUME Quiet(q), NEW p \in Propositions
      PROVE  /\ p \in q.unmapped => q.bearsOn[p] = {} /\ p \notin q.unsupported
             /\ p \in q.disputes => p \notin q.unsupported
             /\ p \in q.unsupported \cup q.unmapped \/ q.bearsOn[p] # {}
  <2>1. /\ q.disputes = {x \in Propositions : Disputed(x)}
        /\ q.unsupported = {x \in Propositions : LinesOn(x) = {}}
        /\ q.unmapped = {x \in Propositions : LinesOn(x) # {} /\ q.bearsOn[x] = {}}
    BY <1>1, <1>4 DEF ReadDisputed, ReadGaps, ReadStood
  <2>2. Disputed(p) => LinesOn(p) # {}
    BY DEF Disputed
  <2>3. QED
    BY <2>1, <2>2
<1>5. QED
  BY <1>2, <1>3, <1>4 DEF IsSound, StandsOnce, ChargesListed, Quiet

\* The rows of the matrix that show a mapping.
Mappings == {row \in MatrixRows : row[4] # None}
IsMapping(z, c, x, p) ==
  /\ c \in DOMAIN charges /\ x \in ElementsOf(c) /\ p \in Propositions
  /\ <<x, p>> \in DOMAIN links /\ z = <<c, x, links[<<x, p>>], p>>

LEMMA MatrixTells ==
  ASSUME NEW z
  PROVE  z \in Mappings <=> \E c, x, p : IsMapping(z, c, x, p)
<1>1. None \notin Propositions
  BY ViewsAssumption
<1>2. ASSUME NEW c \in DOMAIN charges, NEW x \in ElementsOf(c)
      PROVE  z \in MatrixOf(c, x) /\ z[4] # None <=>
               \E p \in Propositions : <<x, p>> \in DOMAIN links /\ z = <<c, x, links[<<x, p>>], p>>
  <2> DEFINE mapped == {p \in Propositions : <<x, p>> \in DOMAIN links}
  <2>1. CASE mapped = {}
    <3>1. MatrixOf(c, x) = {<<c, x, None, None>>}
      BY <2>1 DEF MatrixOf
    <3>2. z = <<c, x, None, None>> => z[4] = None
      OBVIOUS
    <3>3. ~ \E p \in Propositions : <<x, p>> \in DOMAIN links
      BY <2>1
    <3>4. QED
      BY <3>1, <3>2, <3>3
  <2>2. CASE mapped # {}
    <3>1. MatrixOf(c, x) = {<<c, x, links[<<x, p>>], p>> : p \in mapped}
      BY <2>2 DEF MatrixOf
    <3>2. ASSUME NEW p, NEW a, z = <<c, x, a, p>> PROVE z[4] = p
      BY <3>2
    <3>3. ASSUME NEW p \in mapped PROVE p # None
      BY <1>1, <3>3
    <3>4. QED
      BY <3>1, <3>2, <3>3
  <2>3. QED
    BY <2>1, <2>2
<1>3. z \in MatrixRows <=> \E c \in DOMAIN charges : \E x \in ElementsOf(c) : z \in MatrixOf(c, x)
  BY DEF MatrixRows
<1>4. ASSUME NEW c \in DOMAIN charges, NEW x \in ElementsOf(c)
      PROVE  z \in MatrixOf(c, x) /\ z[4] # None <=> \E p : IsMapping(z, c, x, p)
  <2>1. ASSUME NEW p
        PROVE  IsMapping(z, c, x, p) <=>
                 p \in Propositions /\ <<x, p>> \in DOMAIN links /\ z = <<c, x, links[<<x, p>>], p>>
    BY DEF IsMapping
  <2>2. QED
    BY <1>2, <2>1
<1>5. \A c, x, p : IsMapping(z, c, x, p) => c \in DOMAIN charges /\ x \in ElementsOf(c)
  BY DEF IsMapping
<1>6. z \in Mappings <=> z \in MatrixRows /\ z[4] # None
  BY DEF Mappings
<1>7. QED
  BY <1>3, <1>4, <1>5, <1>6

\* What the rows of a comparison show.
ShownIn(q) ==
  UNION {UNION {{<<q.rows[i].charge, x.element, "supports", p>> : p \in x.supporting}
                  \cup {<<q.rows[i].charge, x.element, "opposes", p>> : p \in x.opposing}
                : x \in ToSet(q.rows[i].elements)} : i \in DOMAIN q.rows}

LEMMA ShownTells ==
  ASSUME NEW q, NEW z
  PROVE  z \in ShownIn(q) <=>
           \E i \in DOMAIN q.rows : \E j \in DOMAIN q.rows[i].elements :
             LET x == q.rows[i].elements[j]
             IN \/ \E p \in x.supporting : z = <<q.rows[i].charge, x.element, "supports", p>>
                \/ \E p \in x.opposing : z = <<q.rows[i].charge, x.element, "opposes", p>>
BY DEF ShownIn, ToSet

LEMMA OneCharge ==
  ASSUME Charged, NEW c \in DOMAIN charges, NEW d \in DOMAIN charges,
         NEW x \in ElementsOf(c), x \in ElementsOf(d)
  PROVE  c = d
BY DEF Charged, IsCharged, ElementsOf, ToSet

\* A comparison that was read to its end shows what is mapped.
LEMMA ComparisonIsComplete ==
  ASSUME Charged, \A k \in DOMAIN links : links[k] \in Assessments,
         NEW q, ComparisonFits(q), q.op = "compared"
  PROVE  IsComplete(q)
<1>1. PICK n \in Nat : n = Len(q.listed) /\ DOMAIN q.listed = 1 .. n /\ q.listed \in [1 .. n -> DOMAIN charges]
  BY DEF ComparisonFits
<1>2. DOMAIN q.rows = 1 .. n /\ \A i \in 1 .. n : RowFits(q, i)
  BY <1>1 DEF ComparisonFits
<1>3. ASSUME NEW i \in 1 .. n
      PROVE  /\ q.listed[i] \in DOMAIN charges /\ q.rows[i].charge = q.listed[i]
             /\ DOMAIN q.rows[i].elements = DOMAIN charges[q.listed[i]].elements
             /\ \A j \in DOMAIN q.rows[i].elements :
                  /\ q.rows[i].elements[j].element = charges[q.listed[i]].elements[j]
                  /\ charges[q.listed[i]].elements[j] \in ElementsOf(q.listed[i])
  BY <1>1, <1>2 DEF RowFits, LineFits, ElementsOf
<1>4. Cardinality(ToSet(q.listed)) = Len(q.listed)
  <2>1. PICK s : s = q.listed
    OBVIOUS
  <2>2. ToSet(s) = {s[i] : i \in 1 .. n}
    BY <1>1, <2>1 DEF ToSet
  <2>3. s = [i \in 1 .. n |-> s[i]] /\ \A i, j \in 1 .. n : s[i] = s[j] => i = j
    BY <1>1, <2>1 DEF ComparisonFits, IsInjective
  <2>4. Cardinality({s[i] : i \in 1 .. n}) = n
    BY <2>3, Counted
  <2>5. QED
    BY <1>1, <2>1, <2>2, <2>4
<1>5. ASSUME NEW i \in 1 .. n
      PROVE  [j \in DOMAIN q.rows[i].elements |-> q.rows[i].elements[j].element]
               = charges[q.rows[i].charge].elements
  <2>1. PICK c \in DOMAIN charges : c = q.listed[i]
    BY <1>3
  <2>2. charges[c].elements = [j \in DOMAIN charges[c].elements |-> charges[c].elements[j]]
    BY ChargeRow
  <2>3. QED
    BY <1>3, <2>1, <2>2
<1>6. ASSUME NEW z \in ShownIn(q) PROVE z \in Mappings
  <2>1. PICK i, j :
          /\ i \in 1 .. n /\ j \in DOMAIN q.rows[i].elements
          /\ LET x == q.rows[i].elements[j]
             IN \/ \E p \in x.supporting : z = <<q.rows[i].charge, x.element, "supports", p>>
                \/ \E p \in x.opposing : z = <<q.rows[i].charge, x.element, "opposes", p>>
    BY <1>2, ShownTells
  <2>2. PICK c, x :
          /\ c \in DOMAIN charges /\ x \in ElementsOf(c)
          /\ c = q.rows[i].charge /\ x = q.rows[i].elements[j].element
          /\ q.rows[i].elements[j].supporting \subseteq MappedTo(x, "supports")
          /\ q.rows[i].elements[j].opposing \subseteq MappedTo(x, "opposes")
    <3>1. /\ q.rows[i].elements[j].supporting
               \subseteq MappedTo(charges[q.listed[i]].elements[j], "supports")
          /\ q.rows[i].elements[j].opposing
               \subseteq MappedTo(charges[q.listed[i]].elements[j], "opposes")
      BY <1>2, <1>3, <2>1 DEF RowFits, LineFits
    <3>2. QED
      BY <1>3, <2>1, <3>1
  <2>3. PICK p \in Propositions, a \in Assessments : p \in MappedTo(x, a) /\ z = <<c, x, a, p>>
    <3>1. ASSUME NEW p \in q.rows[i].elements[j].supporting,
                 z = <<q.rows[i].charge, q.rows[i].elements[j].element, "supports", p>>
          PROVE  p \in Propositions /\ p \in MappedTo(x, "supports") /\ z = <<c, x, "supports", p>>
      BY <2>2, <3>1 DEF MappedTo
    <3>2. ASSUME NEW p \in q.rows[i].elements[j].opposing,
                 z = <<q.rows[i].charge, q.rows[i].elements[j].element, "opposes", p>>
          PROVE  p \in Propositions /\ p \in MappedTo(x, "opposes") /\ z = <<c, x, "opposes", p>>
      BY <2>2, <3>2 DEF MappedTo
    <3>3. "supports" \in Assessments /\ "opposes" \in Assessments
      BY DEF Assessments
    <3>4. QED
      BY <2>1, <3>1, <3>2, <3>3
  <2>4. <<x, p>> \in DOMAIN links /\ links[<<x, p>>] = a
    BY <2>3 DEF MappedTo
  <2>5. IsMapping(z, c, x, p)
    BY <2>2, <2>3, <2>4 DEF IsMapping
  <2>6. QED
    BY <2>5, MatrixTells
<1>7. ASSUME NEW z \in Mappings, <<z[2], z[4]>> \in DOMAIN q.links PROVE z \in ShownIn(q)
  <2>0. PICK c, x, p : IsMapping(z, c, x, p)
    BY <1>7, MatrixTells
  <2>1. /\ c \in DOMAIN charges /\ x \in ElementsOf(c) /\ p \in Propositions
        /\ <<x, p>> \in DOMAIN links /\ z = <<c, x, links[<<x, p>>], p>>
    BY <2>0 DEF IsMapping
  <2>2. PICK k : k = <<x, p>>
    OBVIOUS
  <2>3. k \in DOMAIN q.links /\ k[1] = x /\ q.links[k] = links[k] /\ links[k] \in {"supports", "opposes"}
    <3>1. z[2] = x /\ z[4] = p
      BY <2>1
    <3>2. k \in DOMAIN q.links /\ k[1] = x
      BY <1>7, <2>2, <3>1
    <3>3. q.links[k] = links[k] /\ links[k] \in Assessments
      BY <2>1, <2>2, <3>2 DEF ComparisonFits, Extends
    <3>4. QED
      BY <3>2, <3>3 DEF Assessments
  <2>4. PICK i \in 1 .. n : x \in ElementsOf(q.listed[i])
    BY <1>1, <2>3 DEF ComparisonFits
  <2>5. q.listed[i] = c
    BY <1>3, <2>1, <2>4, OneCharge
  <2>6. PICK j \in DOMAIN charges[c].elements : charges[c].elements[j] = x
    BY <2>1 DEF ElementsOf
  <2>7. /\ MappedIn(q.links, x, "supports") \subseteq q.rows[i].elements[j].supporting
        /\ MappedIn(q.links, x, "opposes") \subseteq q.rows[i].elements[j].opposing
    BY <1>2, <2>5, <2>6, <1>3 DEF RowFits, LineFits
  <2>8. p \in MappedIn(q.links, x, links[k])
    BY <2>1, <2>2, <2>3 DEF MappedIn
  <2>9. /\ j \in DOMAIN q.rows[i].elements /\ q.rows[i].charge = c
        /\ q.rows[i].elements[j].element = x
    BY <1>3, <2>5, <2>6
  <2>10. CASE links[k] = "supports"
    <3>1. p \in q.rows[i].elements[j].supporting /\ z = <<c, x, "supports", p>>
      BY <2>1, <2>2, <2>7, <2>8, <2>10
    <3>2. QED
      BY <1>2, <2>9, <3>1, ShownTells
  <2>11. CASE links[k] = "opposes"
    <3>1. p \in q.rows[i].elements[j].opposing /\ z = <<c, x, "opposes", p>>
      BY <2>1, <2>2, <2>7, <2>8, <2>11
    <3>2. QED
      BY <1>2, <2>9, <3>1, ShownTells
  <2>12. QED
    BY <2>3, <2>10, <2>11
<1>8. q.links = links => ShownIn(q) = Mappings
  <2>1. ASSUME NEW z \in Mappings PROVE <<z[2], z[4]>> \in DOMAIN links
    <3>0. PICK c, x, p : IsMapping(z, c, x, p)
      BY <2>1, MatrixTells
    <3>1. <<x, p>> \in DOMAIN links /\ z = <<c, x, links[<<x, p>>], p>>
      BY <3>0 DEF IsMapping
    <3>2. z[2] = x /\ z[4] = p
      BY <3>1
    <3>3. QED
      BY <3>1, <3>2
  <2>2. QED
    BY <1>6, <1>7, <2>1
<1>9. /\ ShownIn(q) \subseteq Mappings
      /\ {row \in Mappings : <<row[2], row[4]>> \in DOMAIN q.links} \subseteq ShownIn(q)
  BY <1>6, <1>7
<1>10. \A i \in DOMAIN q.rows :
         [j \in DOMAIN q.rows[i].elements |-> q.rows[i].elements[j].element]
           = charges[q.rows[i].charge].elements
  BY <1>2, <1>5
<1>11. QED
  BY <1>4, <1>8, <1>9, <1>10 DEF IsComplete, ShownIn, Mappings

----------------------------------------------------------------------------
(* The index of times and places.  What the fold leaves is what one look at *)
(* all passages would find.                                                 *)

DateOf == [c \in Passages |-> Anchor[c].date]
PlaceOf == [c \in Passages |-> Anchor[c].place]
SpotOf == [c \in Passages |-> <<Anchor[c].date, Anchor[c].place>>]
LackedBy(c) == {part \in {"date", "place"} : Anchor[c][part] = None}

Groups(key, S) == [k \in {key[c] : c \in S} |-> {c \in S : key[c] = k}]
Found(S) ==
  [dates |-> Groups(DateOf, {c \in S : DateOf[c] # None}),
   places |-> Groups(PlaceOf, {c \in S : PlaceOf[c] # None}),
   both |-> Groups(SpotOf, {c \in S : LackedBy(c) = {}}),
   missing |-> [c \in {x \in S : LackedBy(x) # {}} |-> LackedBy(c)],
   coverage |-> Groups([c \in Passages |-> Original[c]], S)]

LEMMA OneMoreGrouped ==
  ASSUME NEW key, NEW S, NEW c
  PROVE  Groups(key, S \cup {c}) = Grouped(Groups(key, S), key[c], c)
<1> DEFINE g == Groups(key, S)
           h == Grouped(g, key[c], c)
<1>1. DOMAIN g = {key[x] : x \in S} /\ \A k \in DOMAIN g : g[k] = {x \in S : key[x] = k}
  BY DEF Groups
<1>2. /\ DOMAIN h = DOMAIN g \cup {key[c]} /\ h = [k \in DOMAIN h |-> h[k]]
      /\ h[key[c]] = (IF key[c] \in DOMAIN g THEN g[key[c]] ELSE {}) \cup {c}
      /\ \A k \in DOMAIN g : k # key[c] => h[k] = g[k]
  BY DEF Grouped, AddRow
<1>3. DOMAIN h = {key[x] : x \in S \cup {c}}
  BY <1>1, <1>2
<1>4. ASSUME NEW k \in DOMAIN h PROVE h[k] = {x \in S \cup {c} : key[x] = k}
  <2>1. CASE k = key[c] /\ k \in DOMAIN g
    BY <1>1, <1>2, <2>1
  <2>2. CASE k = key[c] /\ k \notin DOMAIN g
    BY <1>1, <1>2, <2>2
  <2>3. CASE k # key[c]
    BY <1>1, <1>2, <2>3
  <2>4. QED
    BY <2>1, <2>2, <2>3
<1> HIDE DEF g, h
<1>5. h = [k \in {key[x] : x \in S \cup {c}} |-> {x \in S \cup {c} : key[x] = k}]
  BY <1>2, <1>3, <1>4
<1>6. QED
  BY <1>5 DEF Groups, g, h

LEMMA OneMorePassage ==
  ASSUME NEW S, S \subseteq Passages, NEW c \in Passages
  PROVE  Found(S \cup {c}) = FilePassage(Found(S), c)
<1> DEFINE T == S \cup {c}
           D(R) == {x \in R : DateOf[x] # None}
           P(R) == {x \in R : PlaceOf[x] # None}
           B(R) == {x \in R : LackedBy(x) = {}}
<1>1. DateOf[c] = Anchor[c].date /\ PlaceOf[c] = Anchor[c].place
      /\ SpotOf[c] = <<Anchor[c].date, Anchor[c].place>>
  BY DEF DateOf, PlaceOf, SpotOf
<1>2. Groups(DateOf, D(T)) = IF Anchor[c].date = None THEN Groups(DateOf, D(S))
                             ELSE Grouped(Groups(DateOf, D(S)), Anchor[c].date, c)
  <2>1. CASE DateOf[c] = None
    <3>1. D(T) = D(S)
      BY <2>1
    <3>2. QED
      BY <1>1, <2>1, <3>1
  <2>2. CASE DateOf[c] # None
    <3>1. D(T) = D(S) \cup {c}
      BY <2>2
    <3>2. Groups(DateOf, D(S) \cup {c}) = Grouped(Groups(DateOf, D(S)), DateOf[c], c)
      BY OneMoreGrouped
    <3>3. QED
      BY <1>1, <2>2, <3>1, <3>2
  <2>3. QED
    BY <2>1, <2>2
<1>3. Groups(PlaceOf, P(T)) = IF Anchor[c].place = None THEN Groups(PlaceOf, P(S))
                              ELSE Grouped(Groups(PlaceOf, P(S)), Anchor[c].place, c)
  <2>1. CASE PlaceOf[c] = None
    <3>1. P(T) = P(S)
      BY <2>1
    <3>2. QED
      BY <1>1, <2>1, <3>1
  <2>2. CASE PlaceOf[c] # None
    <3>1. P(T) = P(S) \cup {c}
      BY <2>2
    <3>2. Groups(PlaceOf, P(S) \cup {c}) = Grouped(Groups(PlaceOf, P(S)), PlaceOf[c], c)
      BY OneMoreGrouped
    <3>3. QED
      BY <1>1, <2>2, <3>1, <3>2
  <2>3. QED
    BY <2>1, <2>2
<1>4. Groups(SpotOf, B(T)) = IF LackedBy(c) # {} THEN Groups(SpotOf, B(S))
                             ELSE Grouped(Groups(SpotOf, B(S)), <<Anchor[c].date, Anchor[c].place>>, c)
  <2>1. CASE LackedBy(c) # {}
    <3>1. B(T) = B(S)
      BY <2>1
    <3>2. QED
      BY <2>1, <3>1
  <2>2. CASE LackedBy(c) = {}
    <3>1. B(T) = B(S) \cup {c}
      BY <2>2
    <3>2. Groups(SpotOf, B(S) \cup {c}) = Grouped(Groups(SpotOf, B(S)), SpotOf[c], c)
      BY OneMoreGrouped
    <3>3. QED
      BY <1>1, <2>2, <3>1, <3>2
  <2>3. QED
    BY <2>1, <2>2
<1>5. [x \in {y \in T : LackedBy(y) # {}} |-> LackedBy(x)]
        = IF LackedBy(c) = {} THEN [x \in {y \in S : LackedBy(y) # {}} |-> LackedBy(x)]
          ELSE AddRow([x \in {y \in S : LackedBy(y) # {}} |-> LackedBy(x)], c, LackedBy(c))
  <2> DEFINE lacking == [x \in {y \in S : LackedBy(y) # {}} |-> LackedBy(x)]
  <2>1. CASE LackedBy(c) = {}
    <3>1. {y \in T : LackedBy(y) # {}} = {y \in S : LackedBy(y) # {}}
      BY <2>1
    <3>2. QED
      BY <2>1, <3>1
  <2>2. CASE LackedBy(c) # {}
    <3>1. {y \in T : LackedBy(y) # {}} = {y \in S : LackedBy(y) # {}} \cup {c}
      BY <2>2
    <3>2. DOMAIN lacking = {y \in S : LackedBy(y) # {}} /\ \A x \in DOMAIN lacking : lacking[x] = LackedBy(x)
      OBVIOUS
    <3> HIDE DEF lacking
    <3>3. AddRow(lacking, c, LackedBy(c)) = [x \in {y \in T : LackedBy(y) # {}} |-> LackedBy(x)]
      BY <3>1, <3>2 DEF AddRow
    <3>4. QED
      BY <2>2, <3>3 DEF lacking
  <2>3. QED
    BY <2>1, <2>2
<1>6. Groups([x \in Passages |-> Original[x]], T)
        = Grouped(Groups([x \in Passages |-> Original[x]], S), Original[c], c)
  <2> DEFINE key == [x \in Passages |-> Original[x]]
  <2>1. key[c] = Original[c]
    OBVIOUS
  <2> HIDE DEF key
  <2>2. Groups(key, T) = Grouped(Groups(key, S), key[c], c)
    BY OneMoreGrouped
  <2>3. QED
    BY <2>1, <2>2 DEF key
<1>7. FilePassage(Found(S), c) =
        [dates |-> IF Anchor[c].date = None THEN Groups(DateOf, D(S))
                   ELSE Grouped(Groups(DateOf, D(S)), Anchor[c].date, c),
         places |-> IF Anchor[c].place = None THEN Groups(PlaceOf, P(S))
                    ELSE Grouped(Groups(PlaceOf, P(S)), Anchor[c].place, c),
         both |-> IF LackedBy(c) # {} THEN Groups(SpotOf, B(S))
                  ELSE Grouped(Groups(SpotOf, B(S)), <<Anchor[c].date, Anchor[c].place>>, c),
         missing |-> IF LackedBy(c) = {} THEN [x \in {y \in S : LackedBy(y) # {}} |-> LackedBy(x)]
                     ELSE AddRow([x \in {y \in S : LackedBy(y) # {}} |-> LackedBy(x)], c, LackedBy(c)),
         coverage |-> Grouped(Groups([x \in Passages |-> Original[x]], S), Original[c], c)]
  BY DEF FilePassage, Found, LackedBy
<1>8. QED
  BY <1>2, <1>3, <1>4, <1>5, <1>6, <1>7 DEF Found

LEMMA PassagesAreFinite == IsFiniteSet(Passages)
<1> DEFINE f == [e \in Evidence |-> Bears[e].passage]
<1>1. DOMAIN f = Evidence /\ f = [e \in DOMAIN f |-> f[e]] /\ {f[e] : e \in DOMAIN f} = Passages
  BY DEF Passages
<1>2. IsFiniteSet(Evidence)
  BY ConstantsAssumption
<1> HIDE DEF f
<1>3. QED
  BY <1>1, <1>2, ImageIsFinite

AnyOf(s) == CHOOSE c \in s : TRUE
Files(f, S) ==
  f = [s \in SUBSET S |-> IF s = {} THEN EmptyIndex ELSE FilePassage(f[s \ {AnyOf(s)}], AnyOf(s))]

LEMMA PassagesFiled ==
  ASSUME NEW S, S \subseteq Passages
  PROVE  FoldSet(LAMBDA c, i : FilePassage(i, c), EmptyIndex, S) = Found(S)
<1> DEFINE f == CHOOSE f : Files(f, S)
<1>1. FoldSet(LAMBDA c, i : FilePassage(i, c), EmptyIndex, S) = f[S]
  BY DEF FoldSet, MapThenFoldSet, Files, AnyOf
<1>2. ASSUME NEW s \in SUBSET S, s # {}
      PROVE  /\ AnyOf(s) \in s /\ s \ {AnyOf(s)} \in SUBSET S
             /\ Found(s) = FilePassage(Found(s \ {AnyOf(s)}), AnyOf(s))
  <2>1. AnyOf(s) \in s
    BY <1>2 DEF AnyOf
  <2>2. PICK c \in Passages : c = AnyOf(s)
    BY <2>1
  <2>3. s \ {c} \subseteq Passages /\ (s \ {c}) \cup {c} = s
    BY <2>1, <2>2
  <2>4. Found((s \ {c}) \cup {c}) = FilePassage(Found(s \ {c}), c)
    BY <2>3, OneMorePassage
  <2>5. QED
    BY <2>1, <2>2, <2>3, <2>4
<1>3. Found({}) = EmptyIndex
  <2>1. \A key : Groups(key, {}) = << >>
    BY DEF Groups
  <2>2. {c \in {} : DateOf[c] # None} = {} /\ {c \in {} : PlaceOf[c] # None} = {}
        /\ {c \in {} : LackedBy(c) = {}} = {} /\ {c \in {} : LackedBy(c) # {}} = {}
    OBVIOUS
  <2>3. [c \in {} |-> LackedBy(c)] = << >>
    OBVIOUS
  <2>4. QED
    BY <2>1, <2>2, <2>3 DEF Found, EmptyIndex, EmptyTable
<1>4. Files([s \in SUBSET S |-> Found(s)], S)
  <2> DEFINE g == [s \in SUBSET S |-> Found(s)]
  <2>1. ASSUME NEW s \in SUBSET S
        PROVE  g[s] = IF s = {} THEN EmptyIndex ELSE FilePassage(g[s \ {AnyOf(s)}], AnyOf(s))
    <3>1. CASE s = {}
      BY <1>3, <3>1
    <3>2. CASE s # {}
      BY <1>2, <3>2
    <3>3. QED
      BY <3>1, <3>2
  <2>2. g = [s \in SUBSET S |-> g[s]]
    OBVIOUS
  <2> HIDE DEF g
  <2>3. Files(g, S)
    BY <2>1, <2>2 DEF Files
  <2>4. QED
    BY <2>3 DEF g
<1>5. Files(f, S)
  BY <1>4
<1> HIDE DEF f
<1>6. \A s \in SUBSET S :
        f[s] = IF s = {} THEN EmptyIndex ELSE FilePassage(f[s \ {AnyOf(s)}], AnyOf(s))
  BY <1>5 DEF Files
<1> DEFINE D == SUBSET S
           rank == [s \in D |-> Cardinality(s)]
           T == {s \in D : f[s] = Found(s)}
<1>7. IsFiniteSet(S)
  BY PassagesAreFinite, FS_Subset
<1>8. rank \in [D -> Nat] /\ \A s \in D : \A x \in s : s \ {x} \in D /\ rank[s \ {x}] < rank[s]
  <2>1. \A s \in SUBSET S : Cardinality(s) \in Nat
    BY <1>7, SmallerSets
  <2>2. \A s \in SUBSET S : \A x \in s : s \ {x} \in SUBSET S /\ Cardinality(s \ {x}) < Cardinality(s)
    BY <1>7, SmallerSets
  <2>3. QED
    BY <2>1, <2>2
<1>9. ASSUME NEW s \in D, \A t \in D : rank[t] < rank[s] => t \in T PROVE s \in T
  <2>1. CASE s = {}
    BY <1>3, <1>6, <2>1
  <2>2. CASE s # {}
    <3>1. s \ {AnyOf(s)} \in T
      BY <1>2, <1>8, <1>9, <2>2
    <3>2. QED
      BY <1>2, <1>6, <2>2, <3>1
  <2>3. QED
    BY <2>1, <2>2
<1> HIDE DEF D, rank, T
<1>10. D \subseteq T
  BY <1>8, <1>9, RankInduction
<1>11. f[S] = Found(S)
  BY <1>10 DEF D, T
<1>12. QED
  BY <1>1, <1>11

LEMMA GroupTells ==
  ASSUME NEW key, NEW R, NEW k, k \in {key[c] : c \in R}
  PROVE  \A x : x \in Groups(key, R)[k] <=> x \in R /\ key[x] = k
BY DEF Groups

\* No passage in force gets lost, and a shared anchor has two originals.
LEMMA NoPassageIsLost == IndexIsWhole
<1> DEFINE S == {c \in Passages : passageState[c] # "rejected"}
           D == {c \in S : DateOf[c] # None}
           P == {c \in S : PlaceOf[c] # None}
           B == {c \in S : LackedBy(c) = {}}
           M == [c \in {x \in S : LackedBy(x) # {}} |-> LackedBy(c)]
           both == Groups(SpotOf, B)
           shared == {k \in DOMAIN both : Cardinality(Originals(both[k])) >= 2}
<1>1. FoldSet(LAMBDA c, i : FilePassage(i, c), EmptyIndex, S) = Found(S)
  BY PassagesFiled
<1>2. /\ CollationIndex.dates = Groups(DateOf, D)
      /\ CollationIndex.places = Groups(PlaceOf, P)
      /\ CollationIndex.missing = M
      /\ CollationIndex.both = [k \in shared |-> both[k]]
  <2>1. PICK index :
          /\ index = FoldSet(LAMBDA c, i : FilePassage(i, c), EmptyIndex, S)
          /\ CollationIndex =
               [index EXCEPT !.both = [k \in {k \in DOMAIN @ : Cardinality(Originals(@[k])) >= 2} |-> @[k]]]
    BY DEF CollationIndex
  <2>2. index = [dates |-> Groups(DateOf, D), places |-> Groups(PlaceOf, P), both |-> both, missing |-> M,
                 coverage |-> Groups([c \in Passages |-> Original[c]], S)]
    BY <1>1, <2>1 DEF Found
  <2> HIDE DEF M, both, D, P
  <2>3. /\ CollationIndex.dates = index.dates /\ CollationIndex.places = index.places
        /\ CollationIndex.missing = index.missing
    BY <2>1, <2>2
  <2>4. CollationIndex.both
          = [k \in {k \in DOMAIN index.both : Cardinality(Originals(index.both[k])) >= 2} |-> index.both[k]]
    BY <2>1, <2>2
  <2>5. QED
    BY <2>2, <2>3, <2>4
<1>3. ASSUME NEW c \in Passages
      PROVE  /\ DateOf[c] = Anchor[c].date /\ PlaceOf[c] = Anchor[c].place
             /\ SpotOf[c] = <<Anchor[c].date, Anchor[c].place>>
             /\ "date" \in LackedBy(c) <=> DateOf[c] = None
             /\ "place" \in LackedBy(c) <=> PlaceOf[c] = None
             /\ LackedBy(c) = {} <=> DateOf[c] # None /\ PlaceOf[c] # None
  BY DEF DateOf, PlaceOf, SpotOf, LackedBy
<1>4. ASSUME NEW key, NEW R
      PROVE  \A c : c \in R <=> \E k \in DOMAIN Groups(key, R) : c \in Groups(key, R)[k]
  BY DEF Groups
<1>5. \A c : c \in DOMAIN M <=> c \in S /\ LackedBy(c) # {}
  OBVIOUS
<1>6. \A c \in DOMAIN M : M[c] = LackedBy(c)
  OBVIOUS
<1>7. ASSUME NEW c \in Passages
      PROVE  /\ c \in S <=> (\E d \in DOMAIN CollationIndex.dates : c \in CollationIndex.dates[d])
                            \/ (c \in DOMAIN CollationIndex.missing /\ "date" \in CollationIndex.missing[c])
             /\ c \in S <=> (\E p \in DOMAIN CollationIndex.places : c \in CollationIndex.places[p])
                            \/ (c \in DOMAIN CollationIndex.missing /\ "place" \in CollationIndex.missing[c])
  <2>0. /\ \A x : x \in D <=> \E k \in DOMAIN Groups(DateOf, D) : x \in Groups(DateOf, D)[k]
        /\ \A x : x \in P <=> \E k \in DOMAIN Groups(PlaceOf, P) : x \in Groups(PlaceOf, P)[k]
    <3> HIDE DEF D, P
    <3>1. QED
      BY <1>4
  <2>1. (\E d \in DOMAIN CollationIndex.dates : c \in CollationIndex.dates[d]) <=> c \in D
    <3> HIDE DEF D
    <3>1. QED
      BY <1>2, <2>0
  <2>2. (\E p \in DOMAIN CollationIndex.places : c \in CollationIndex.places[p]) <=> c \in P
    <3> HIDE DEF P
    <3>1. QED
      BY <1>2, <2>0
  <2>3. c \in DOMAIN CollationIndex.missing /\ "date" \in CollationIndex.missing[c]
          <=> c \in S /\ DateOf[c] = None
    BY <1>2, <1>3, <1>5, <1>6
  <2>4. c \in DOMAIN CollationIndex.missing /\ "place" \in CollationIndex.missing[c]
          <=> c \in S /\ PlaceOf[c] = None
    BY <1>2, <1>3, <1>5, <1>6
  <2>5. QED
    BY <2>1, <2>2, <2>3, <2>4
<1>8. ASSUME NEW k \in DOMAIN CollationIndex.both
      PROVE  /\ CollationIndex.both[k] = CollationIndex.dates[k[1]] \cap CollationIndex.places[k[2]]
             /\ Cardinality(Originals(CollationIndex.both[k])) > 1
  <2>1. k \in DOMAIN both /\ CollationIndex.both[k] = both[k] /\ Cardinality(Originals(both[k])) >= 2
    BY <1>2, <1>8
  <2>2. (\A x : x \in both[k] <=> x \in B /\ SpotOf[x] = k) /\ k \in {SpotOf[x] : x \in B}
    <3> HIDE DEF B
    <3>1. DOMAIN both = {SpotOf[x] : x \in B}
      BY DEF Groups
    <3>2. k \in {SpotOf[x] : x \in B}
      BY <2>1, <3>1
    <3>3. QED
      BY <3>2, GroupTells
  <2>3. PICK c \in B : SpotOf[c] = k
    BY <2>2
  <2>4. c \in Passages /\ c \in D /\ c \in P /\ k = <<DateOf[c], PlaceOf[c]>>
    BY <1>3, <2>3
  <2>5. k[1] = DateOf[c] /\ k[2] = PlaceOf[c]
    BY <2>4
  <2>6. \A x : x \in CollationIndex.dates[k[1]] <=> x \in D /\ DateOf[x] = k[1]
    <3> HIDE DEF D
    <3>0. DateOf[c] \in {DateOf[x] : x \in D}
      BY <2>4
    <3>1. \A x : x \in Groups(DateOf, D)[DateOf[c]] <=> x \in D /\ DateOf[x] = DateOf[c]
      BY <3>0, GroupTells
    <3>2. QED
      BY <1>2, <2>5, <3>1
  <2>7. \A x : x \in CollationIndex.places[k[2]] <=> x \in P /\ PlaceOf[x] = k[2]
    <3> HIDE DEF P
    <3>0. PlaceOf[c] \in {PlaceOf[x] : x \in P}
      BY <2>4
    <3>1. \A x : x \in Groups(PlaceOf, P)[PlaceOf[c]] <=> x \in P /\ PlaceOf[x] = PlaceOf[c]
      BY <3>0, GroupTells
    <3>2. QED
      BY <1>2, <2>5, <3>1
  <2>8. \A x : x \in B /\ SpotOf[x] = k <=> x \in D /\ DateOf[x] = k[1] /\ x \in P /\ PlaceOf[x] = k[2]
    BY <1>3, <2>4, <2>5
  <2>9. Cardinality(Originals(both[k])) \in Nat
    <3> DEFINE R == both[k]
               f == [x \in R |-> Original[x]]
    <3>1. IsFiniteSet(R)
      <4>1. R \subseteq Passages
        BY <2>2
      <4>2. QED
        BY <4>1, PassagesAreFinite, FS_Subset
    <3> HIDE DEF R
    <3>2. DOMAIN f = R /\ f = [x \in DOMAIN f |-> f[x]] /\ {f[x] : x \in DOMAIN f} = Originals(R)
      BY DEF Originals
    <3> HIDE DEF f
    <3>3. IsFiniteSet(Originals(R))
      BY <3>1, <3>2, ImageIsFinite
    <3>4. QED
      BY <3>3, FS_CardinalityType DEF R
  <2>10. QED
    BY <2>1, <2>2, <2>6, <2>7, <2>8, <2>9
<1>9. QED
  BY <1>7, <1>8 DEF IndexIsWhole

----------------------------------------------------------------------------
(* The brief that is shown.                                                 *)

LEMMA HighestOf ==
  ASSUME BriefsNumbered, NEW p
  PROVE  /\ NumbersOf(p) \subseteq Nat
         /\ \A n \in NumbersOf(p) : n <= Highest(NumbersOf(p))
         /\ NumbersOf(p) # {} => Highest(NumbersOf(p)) \in NumbersOf(p)
         /\ Highest(NumbersOf(p)) \in Nat
<1>1. \A id \in DOMAIN briefs : briefs[id].version \in Nat
  BY DEF BriefsNumbered, BriefRows
<1>2. NumbersOf(p) \subseteq Nat
  BY <1>1 DEF NumbersOf
<1>3. PICK n \in Nat : \A id \in DOMAIN briefs : briefs[id].version <= n
  BY DEF BriefsNumbered, Numbered
<1>4. \A m \in NumbersOf(p) : m <= n
  BY <1>3 DEF NumbersOf
<1>5. CASE NumbersOf(p) = {}
  BY <1>2, <1>5 DEF Highest
<1>6. CASE NumbersOf(p) # {}
  <2>1. \E k \in NumbersOf(p) : \A m \in NumbersOf(p) : m <= k
    BY <1>2, <1>3, <1>4, <1>6, GreatestIsThere
  <2>2. QED
    BY <1>2, <1>6, <2>1 DEF Highest
<1>7. QED
  BY <1>5, <1>6

LEMMA LatestIsCurrent ==
  ASSUME BriefsNumbered, NEW a \in DOMAIN briefs, NEW posture, posture = briefs[a].posture
  PROVE  {b \in DOMAIN briefs : briefs[b].posture = posture /\ <<"brief", b>> \in CurrentWork}
           = {LatestBrief(posture)}
<1> DEFINE Latest(b) == briefs[b].posture = posture /\ briefs[b].version = Highest(NumbersOf(posture))
<1>1. ASSUME NEW b \in DOMAIN briefs
      PROVE  <<"brief", b>> \in CurrentWork <=> briefs[b].version = Highest(NumbersOf(briefs[b].posture))
  <2>1. \A id : <<"version", id>> # <<"brief", b>>
    OBVIOUS
  <2>2. \A id : <<"brief", id>> = <<"brief", b>> <=> id = b
    OBVIOUS
  <2>3. QED
    BY <2>1, <2>2 DEF CurrentWork
<1>2. \A b \in DOMAIN briefs : briefs[b].posture = posture /\ <<"brief", b>> \in CurrentWork <=> Latest(b)
  BY <1>1
<1>3. \E b \in DOMAIN briefs : Latest(b)
  <2>1. NumbersOf(posture) # {}
    BY DEF NumbersOf
  <2>2. Highest(NumbersOf(posture)) \in NumbersOf(posture)
    BY <2>1, HighestOf
  <2>3. QED
    BY <2>2 DEF NumbersOf
<1>4. \A b, c \in DOMAIN briefs : Latest(b) /\ Latest(c) => b = c
  BY DEF BriefsNumbered, BriefsApart
<1>5. LatestBrief(posture) = CHOOSE b \in DOMAIN briefs : Latest(b)
  BY DEF LatestBrief
<1> HIDE DEF Latest
<1>6. LatestBrief(posture) \in DOMAIN briefs /\ Latest(LatestBrief(posture))
  BY <1>3, <1>5
<1>7. QED
  BY <1>2, <1>4, <1>6

\* The invariant says what the views promise.
LEMMA InvariantTells == ViewInv => ViewsAgree
<1> SUFFICES ASSUME ViewInv PROVE ViewsAgree
  OBVIOUS
<1>1. IndexIsWhole
  BY NoPassageIsLost
<1>2. ASSUME NEW posture \in {briefs[b].posture : b \in DOMAIN briefs}
      PROVE  {b \in DOMAIN briefs : briefs[b].posture = posture /\ <<"brief", b>> \in CurrentWork}
               = {LatestBrief(posture)}
  BY LatestIsCurrent DEF ViewInv
<1>3. ASSUME NEW w \in Processes
      PROVE  /\ doing[w].op = "stood" => IsSound(doing[w])
             /\ doing[w].op = "compared" => IsComplete(doing[w])
             /\ doing[w].op = "found" /\ doing[w].fresh =>
                  doing[w].bears = {e \in ExportedEvidence : Bears[e].passage \in doing[w].hits}
  <2>1. FlowFits(doing[w]) /\ Charged /\ \A k \in DOMAIN links : links[k] \in Assessments
    BY DEF ViewInv
  <2>2. ASSUME doing[w].op = "stood" PROVE IsSound(doing[w])
    <3>1. StandingFits(doing[w])
      BY <2>1, <2>2 DEF FlowFits, StandingOps
    <3>2. QED
      BY <2>2, <3>1, StandingIsSound
  <2>3. ASSUME doing[w].op = "compared" PROVE IsComplete(doing[w])
    <3>1. ComparisonFits(doing[w])
      BY <2>1, <2>3 DEF FlowFits, ComparedOps
    <3>2. QED
      BY <2>1, <2>3, <3>1, ComparisonIsComplete
  <2>4. ASSUME doing[w].op = "found", doing[w].fresh
        PROVE  doing[w].bears = {e \in ExportedEvidence : Bears[e].passage \in doing[w].hits}
    BY <2>1, <2>4 DEF FlowFits, SearchFits
  <2>5. QED
    BY <2>2, <2>3, <2>4
<1>4. QED
  BY <1>1, <1>2, <1>3 DEF ViewsAgree

----------------------------------------------------------------------------
(* The first statement of a view.                                           *)

LEMMA ChargesAreListed ==
  ASSUME Charged
  PROVE  LET s == Sorted(DOMAIN charges, ComesFirst)
         IN s \in Seq(DOMAIN charges) /\ IsInjective(s) /\ ToSet(s) = DOMAIN charges
<1> DEFINE S == DOMAIN charges
           R == {p \in S \X S : ComesFirst(p[1], p[2])}
<1>1. IsFiniteSet(S) /\ Cardinality(S) \in Nat
  BY FS_CardinalityType DEF Charged, IsCharged
<1>2. \A c \in S : Rank(c) \in Nat
  BY ChargeRow
<1>3. \A x, y \in S : <<x, y>> \in R <=> Rank(x) < Rank(y)
  BY DEF ComesFirst, Rank
<1>4. \A x, y \in S : <<x, y>> \in R <=> ComesFirst(x, y)
  OBVIOUS
<1> HIDE DEF S, R
<1>5. Strict(R, S)
  <2>1. ASSUME NEW x \in S PROVE <<x, x>> \notin R
    BY <1>2, <1>3
  <2>2. ASSUME NEW x \in S, NEW y \in S, NEW z \in S, <<x, y>> \in R, <<y, z>> \in R
        PROVE  <<x, z>> \in R
    BY <1>2, <1>3, <2>2
  <2>3. QED
    BY <2>1, <2>2 DEF Strict
<1>6. PICK s : Orders(s, S, R)
  BY <1>1, <1>5, StrictOrderExists
<1> DEFINE Fits(t) == /\ IsInjective(t) /\ ToSet(t) = S
                      /\ \A i, j \in DOMAIN t : ComesFirst(t[i], t[j]) => i < j
<1>7. s \in [1 .. Cardinality(S) -> S] /\ Fits(s)
  <2>1. \A i, j \in DOMAIN s : s[i] \in S /\ s[j] \in S
    BY <1>6 DEF Orders
  <2>2. QED
    BY <1>4, <1>6, <2>1 DEF Orders
<1>8. Sorted(S, ComesFirst) = CHOOSE t \in [1 .. Cardinality(S) -> S] : Fits(t)
  BY DEF Sorted
<1>9. Sorted(S, ComesFirst) \in [1 .. Cardinality(S) -> S] /\ Fits(Sorted(S, ComesFirst))
  BY <1>7, <1>8
<1>10. Sorted(S, ComesFirst) \in Seq(S)
  BY <1>1, <1>9
<1>11. QED
  BY <1>9, <1>10 DEF S

----------------------------------------------------------------------------
(* What was read stays right while charges and mappings are added.          *)

LEMMA MoreElements ==
  ASSUME Extends(charges', charges)
  PROVE  /\ \A c \in DOMAIN charges : ElementsOf(c)' = ElementsOf(c)
         /\ AllElements \subseteq AllElements' /\ Entries \subseteq Entries'
         /\ Seq(Entries) \subseteq Seq(Entries') /\ Seq(DOMAIN charges) \subseteq Seq(DOMAIN charges')
<1>1. \A c \in DOMAIN charges : c \in DOMAIN charges' /\ ElementsOf(c)' = ElementsOf(c)
  BY DEF Extends, ElementsOf
<1>2. AllElements \subseteq AllElements'
  BY <1>1 DEF AllElements
<1>3. Seq(AllElements) \subseteq Seq(AllElements') /\ Seq(DOMAIN charges) \subseteq Seq(DOMAIN charges')
  BY <1>1, <1>2
<1>4. Entries \subseteq Entries'
  BY <1>1, <1>3 DEF Entries
<1>5. Seq(Entries) \subseteq Seq(Entries')
  BY <1>4
<1>6. QED
  BY <1>1, <1>2, <1>3, <1>4, <1>5

LEMMA MoreMapped ==
  ASSUME Extends(links', links), NEW x, NEW a
  PROVE  MappedTo(x, a) \subseteq MappedTo(x, a)'
BY DEF Extends, MappedTo

\* Nothing but freshness is forgotten.
Like(r, q) ==
  /\ DOMAIN r = DOMAIN q /\ r = [k \in DOMAIN r |-> r[k]]
  /\ \A k \in DOMAIN q : k # "fresh" => r[k] = q[k]
  /\ "fresh" \in DOMAIN q => (r.fresh => q.fresh)

LEMMA SameStory ==
  ASSUME UNCHANGED <<links, lineState, passageState>>
  PROVE  /\ \A x, a : MappedTo(x, a)' = MappedTo(x, a)
         /\ \A x : /\ UncheckedSupport(x)' = UncheckedSupport(x) /\ Unbacked(x)' = Unbacked(x)
                   /\ SourcesBehindSupport(x)' = SourcesBehindSupport(x)
         /\ \A p : LinesOn(p)' = LinesOn(p) /\ (Disputed(p)' <=> Disputed(p))
<1>1. \A x, a : MappedTo(x, a)' = MappedTo(x, a)
  BY DEF MappedTo
<1>2. \A p : LinesOn(p)' = LinesOn(p) /\ CheckedLines(p)' = CheckedLines(p)
  BY DEF LinesOn, CheckedLines
<1>3. \A x : UncheckedSupport(x)' = UncheckedSupport(x) /\ Unbacked(x)' = Unbacked(x)
  BY <1>1, <1>2 DEF UncheckedSupport, Unbacked
<1>4. \A x : SourcesBehindSupport(x)' = SourcesBehindSupport(x)
  BY <1>1 DEF SourcesBehindSupport
<1>5. \A p : Disputed(p)' <=> Disputed(p)
  BY <1>2 DEF Disputed
<1>6. QED
  BY <1>1, <1>2, <1>3, <1>4, <1>5

LEMMA StaysQuiet ==
  ASSUME Charged, Charged', Extends(links', links), NEW q, Extends(links, q.links),
         NEW r, Like(r, q), {"fresh", "links"} \subseteq DOMAIN q, Quiet(r)'
  PROVE  Quiet(q) /\ links' = links
<1>1. q.links = links' /\ q.fresh
  BY DEF Quiet, Like
<1>2. DOMAIN links' = DOMAIN links /\ \A k \in DOMAIN links : links'[k] = links[k]
  BY <1>1 DEF Extends
<1>3. links = [k \in DOMAIN links |-> links[k]] /\ links' = [k \in DOMAIN links' |-> links'[k]]
  BY DEF Charged, IsCharged
<1>4. links' = links
  BY <1>2, <1>3
<1>5. QED
  BY <1>1, <1>4 DEF Quiet

LEMMA StandingStays ==
  ASSUME Charged, Charged', Extends(charges', charges), Extends(links', links),
         NEW q, StandingFits(q), "op" \in DOMAIN q, NEW r, Like(r, q),
         r.fresh => UNCHANGED <<lineState, passageState>>
  PROVE  StandingFits(r)'
<1>1. /\ {"fresh", "links", "entries"} \subseteq DOMAIN q /\ DOMAIN r = DOMAIN q
      /\ r.op = q.op /\ r.links = q.links /\ r.entries = q.entries
      /\ Extends(links, q.links)
  BY DEF StandingFits, Like
<1>2. r.entries \in Seq(Entries')
  BY <1>1, MoreElements DEF StandingFits
<1>3. StandsOnce(r.entries)'
  <2>1. PICK e \in Seq(Entries) : e = q.entries
    BY DEF StandingFits
  <2>2. \A i \in DOMAIN e : e[i] \in Entries
    OBVIOUS
  <2>3. \A i \in DOMAIN e : e[i].charge \in DOMAIN charges
    BY <2>2 DEF Entries
  <2>4. \A c \in ChargesListed(e) : charges'[c] = charges[c]
    BY <2>3 DEF ChargesListed, Extends
  <2>5. ChargesListed(e)' = ChargesListed(e) /\ \A i \in DOMAIN e : e[i].charge \in ChargesListed(e)
    BY DEF ChargesListed
  <2>6. StandsOnce(e)
    BY <2>1 DEF StandingFits
  <2>7. StandsOnce(e)'
    BY <2>4, <2>5, <2>6 DEF StandsOnce
  <2>8. QED
    BY <1>1, <2>1, <2>7
<1>4. Extends(links', r.links)
  BY <1>1 DEF Extends
<1>5. \A k \in DOMAIN r.links : k[1] \in Listed(r.entries)
  BY <1>1 DEF StandingFits
<1>6. ASSUME Quiet(r)'
      PROVE  Quiet(q) /\ UNCHANGED <<links, lineState, passageState>>
  <2>1. r.fresh
    BY <1>6 DEF Quiet
  <2>2. QED
    BY <1>1, <1>6, <2>1, StaysQuiet
<1>7. ReadMapped(q) => ReadMapped(r)'
  <2>1. SUFFICES ASSUME ReadMapped(q) PROVE ReadMapped(r)'
    OBVIOUS
  <2>2. {"facts", "bearsOn"} \subseteq DOMAIN q /\ r.facts = q.facts /\ r.bearsOn = q.bearsOn
    BY <2>1 DEF ReadMapped, Like
  <2>3. ASSUME Quiet(r)'
        PROVE  /\ \A x \in Listed(r.entries) :
                    r.facts[x] = [supporting |-> MappedTo(x, "supports")',
                                  unchecked |-> UncheckedSupport(x)', unbacked |-> Unbacked(x)']
               /\ \A p \in Propositions :
                    r.bearsOn[p] = {x \in Listed(r.entries) : <<x, p>> \in DOMAIN links'}
    BY <1>1, <1>6, <2>1, <2>2, <2>3, SameStory DEF ReadMapped
  <2>4. QED
    BY <1>1, <2>2, <2>3 DEF ReadMapped, Listed
<1>8. ReadSourced(q) => ReadSourced(r)'
  <2>1. SUFFICES ASSUME ReadSourced(q) PROVE ReadSourced(r)'
    OBVIOUS
  <2>2. "sources" \in DOMAIN q /\ r.sources = q.sources
    BY <2>1 DEF ReadSourced, Like
  <2>3. ASSUME Quiet(r)' PROVE \A x \in Listed(r.entries) : r.sources[x] = SourcesBehindSupport(x)'
    BY <1>1, <1>6, <2>1, <2>2, <2>3, SameStory DEF ReadSourced
  <2>4. QED
    BY <1>1, <2>2, <2>3 DEF ReadSourced, Listed
<1>9. ReadDisputed(q) => ReadDisputed(r)'
  <2>1. SUFFICES ASSUME ReadDisputed(q) PROVE ReadDisputed(r)'
    OBVIOUS
  <2>2. "disputes" \in DOMAIN q /\ r.disputes = q.disputes
    BY <2>1 DEF ReadDisputed, Like
  <2>3. ASSUME Quiet(r)' PROVE r.disputes = {p \in Propositions : Disputed(p)'}
    BY <1>6, <2>1, <2>2, <2>3, SameStory DEF ReadDisputed
  <2>4. QED
    BY <1>1, <2>2, <2>3 DEF ReadDisputed
<1>10. ReadGaps(q) => ReadGaps(r)'
  <2>1. SUFFICES ASSUME ReadGaps(q) PROVE ReadGaps(r)'
    OBVIOUS
  <2>2. "unsupported" \in DOMAIN q /\ r.unsupported = q.unsupported
    BY <2>1 DEF ReadGaps, Like
  <2>3. ASSUME Quiet(r)' PROVE r.unsupported = {p \in Propositions : LinesOn(p)' = {}}
    BY <1>6, <2>1, <2>2, <2>3, SameStory DEF ReadGaps
  <2>4. QED
    BY <1>1, <2>2, <2>3 DEF ReadGaps
<1>11. ReadStood(q) /\ ReadMapped(q) => ReadStood(r)'
  <2>1. SUFFICES ASSUME ReadStood(q), ReadMapped(q) PROVE ReadStood(r)'
    OBVIOUS
  <2>2. "unmapped" \in DOMAIN q /\ r.unmapped = q.unmapped /\ r.bearsOn = q.bearsOn
    BY <2>1 DEF ReadStood, ReadMapped, Like
  <2>3. ASSUME Quiet(r)'
        PROVE  r.unmapped = {p \in Propositions : LinesOn(p)' # {} /\ r.bearsOn[p] = {}}
    BY <1>6, <2>1, <2>2, <2>3, SameStory DEF ReadStood
  <2>4. QED
    BY <1>1, <2>2, <2>3 DEF ReadStood
<1>12. QED
  BY <1>1, <1>2, <1>3, <1>4, <1>5, <1>7, <1>8, <1>9, <1>10, <1>11 DEF StandingFits, StandingOps, Listed

LEMMA LineStays ==
  ASSUME Extends(links', links), NEW line, NEW x, NEW old, LineFits(line, x, old)
  PROVE  LineFits(line, x, old)'
<1>1. \A a : MappedTo(x, a) \subseteq MappedTo(x, a)'
  BY MoreMapped
<1>2. \A a : MappedIn(old, x, a)' = MappedIn(old, x, a)
  BY DEF MappedIn
<1>3. QED
  BY <1>1, <1>2 DEF LineFits

LEMMA ComparisonStays ==
  ASSUME Extends(charges', charges), Extends(links', links),
         NEW q, ComparisonFits(q), "op" \in DOMAIN q, NEW r, Like(r, q)
  PROVE  ComparisonFits(r)'
<1>1. /\ {"links", "listed"} \subseteq DOMAIN q /\ DOMAIN r = DOMAIN q
      /\ r.op = q.op /\ r.links = q.links /\ r.listed = q.listed
      /\ Extends(links, q.links)
  BY DEF ComparisonFits, Like
<1>2. PICK s \in Seq(DOMAIN charges) : s = q.listed /\ \A i \in DOMAIN s : s[i] \in DOMAIN charges
  BY DEF ComparisonFits
<1>3. r.listed \in Seq(DOMAIN charges')
  BY <1>1, <1>2, MoreElements
<1>4. Extends(links', r.links)
  BY <1>1 DEF Extends
<1>5. \A i \in DOMAIN s : charges'[s[i]] = charges[s[i]] /\ ElementsOf(s[i])' = ElementsOf(s[i])
  BY <1>2, MoreElements DEF Extends
<1>6. \A k \in DOMAIN r.links : \E i \in DOMAIN s : k[1] \in ElementsOf(s[i])'
  BY <1>1, <1>2, <1>5 DEF ComparisonFits
<1>7. ASSUME q.op # "comparison"
      PROVE  /\ "elements" \in DOMAIN r
             /\ \A i \in DOMAIN s : r.elements[s[i]] = charges'[s[i]].elements
  <2>1. "elements" \in DOMAIN q /\ r.elements = q.elements
    BY <1>7 DEF ComparisonFits, Like
  <2>2. QED
    BY <1>1, <1>2, <1>5, <1>7, <2>1 DEF ComparisonFits
<1>8. ASSUME q.op = "compared"
      PROVE  "rows" \in DOMAIN r /\ DOMAIN r.rows = DOMAIN s /\ \A i \in DOMAIN r.rows : RowFits(r, i)'
  <2>1. "rows" \in DOMAIN q /\ r.rows = q.rows /\ DOMAIN q.rows = DOMAIN s
    BY <1>2, <1>8 DEF ComparisonFits, Like
  <2>2. ASSUME NEW i \in DOMAIN s PROVE RowFits(r, i)'
    <3>1. RowFits(q, i)
      BY <1>8, <2>1 DEF ComparisonFits
    <3>2. PICK c \in DOMAIN charges : c = q.listed[i] /\ c = r.listed[i] /\ charges'[c] = charges[c]
      BY <1>1, <1>2, <1>5
    <3>3. PICK row : row = q.rows[i] /\ row = r.rows[i]
      BY <2>1
    <3>4. /\ row.charge = c /\ DOMAIN row.elements = DOMAIN charges[c].elements
          /\ \A j \in DOMAIN row.elements : LineFits(row.elements[j], charges[c].elements[j], q.links)
      BY <3>1, <3>2, <3>3 DEF RowFits
    <3>5. ASSUME NEW j \in DOMAIN row.elements
          PROVE  LineFits(row.elements[j], charges[c].elements[j], r.links)'
      <4>1. PICK line, x : line = row.elements[j] /\ x = charges[c].elements[j] /\ x = charges'[c].elements[j]
        BY <3>2
      <4>2. LineFits(line, x, q.links)'
        BY <3>4, <4>1, LineStays
      <4>3. QED
        BY <1>1, <3>2, <4>1, <4>2 DEF LineFits, MappedIn
    <3>6. QED
      BY <3>2, <3>3, <3>4, <3>5 DEF RowFits
  <2>3. QED
    BY <1>1, <2>1, <2>2
<1>9. QED
  BY <1>1, <1>2, <1>3, <1>4, <1>6, <1>7, <1>8 DEF ComparisonFits

LEMMA SearchStays ==
  ASSUME NEW q, SearchFits(q), "op" \in DOMAIN q, NEW r, Like(r, q),
         r.fresh => UNCHANGED <<lineState, passageState>>
  PROVE  SearchFits(r)'
<1>1. {"fresh", "hits"} \subseteq DOMAIN q /\ DOMAIN r = DOMAIN q /\ r.op = q.op /\ r.hits = q.hits
  BY DEF SearchFits, Like
<1>2. ASSUME q.op = "found"
      PROVE  "bears" \in DOMAIN r /\ (r.fresh => r.bears = {e \in ExportedEvidence' : Bears[e].passage \in r.hits})
  <2>1. "bears" \in DOMAIN q /\ r.bears = q.bears
    BY <1>2 DEF SearchFits, Like
  <2>2. ASSUME r.fresh PROVE r.bears = {e \in ExportedEvidence' : Bears[e].passage \in r.hits}
    <3>1. q.fresh /\ UNCHANGED lineState
      BY <1>1, <2>2 DEF Like
    <3>2. ExportedEvidence' = ExportedEvidence
      BY <3>1 DEF ExportedEvidence
    <3>3. QED
      BY <1>1, <1>2, <2>1, <3>1, <3>2 DEF SearchFits
  <2>3. QED
    BY <1>1, <2>1, <2>2
<1>3. QED
  BY <1>1, <1>2 DEF SearchFits

LEMMA FlowStays ==
  ASSUME Charged, Charged', Extends(charges', charges), Extends(links', links),
         NEW q, FlowFits(q), q.op # "brief", NEW r, Like(r, q),
         "fresh" \in DOMAIN q /\ r.fresh => UNCHANGED <<lineState, passageState>>
  PROVE  FlowFits(r)'
<1>1. "op" \in DOMAIN q /\ r.op = q.op /\ r = [k \in DOMAIN r |-> r[k]] /\ "op" \in DOMAIN r
  BY DEF FlowFits, Like
<1>2. ASSUME q.op = "charge" PROVE r.request \in ChargeRequests
  <2>1. "request" \in DOMAIN q /\ q.request \in ChargeRequests
    BY <1>2 DEF FlowFits
  <2>2. QED
    BY <2>1 DEF Like
<1>3. ASSUME q.op = "map" PROVE \E x \in AllElements', p \in Propositions : r.pair = <<x, p>>
  <2>1. "pair" \in DOMAIN q /\ \E x \in AllElements, p \in Propositions : q.pair = <<x, p>>
    BY <1>3 DEF FlowFits
  <2>2. r.pair = q.pair
    BY <2>1 DEF Like
  <2>3. QED
    BY <2>1, <2>2, MoreElements
<1>4. ASSUME q.op = "map" PROVE r.assessment \in Assessments
  <2>1. "assessment" \in DOMAIN q /\ q.assessment \in Assessments
    BY <1>4 DEF FlowFits
  <2>2. QED
    BY <2>1 DEF Like
<1>5. ASSUME q.op \in StandingOps PROVE StandingFits(r)'
  <2>1. StandingFits(q) /\ "fresh" \in DOMAIN q
    BY <1>5 DEF FlowFits, StandingFits
  <2>2. QED
    BY <1>1, <2>1, StandingStays
<1>6. ASSUME q.op \in ComparedOps PROVE ComparisonFits(r)'
  BY <1>1, <1>6, ComparisonStays DEF FlowFits
<1>7. ASSUME q.op \in {"search", "found"} PROVE SearchFits(r)'
  <2>1. SearchFits(q) /\ "fresh" \in DOMAIN q
    BY <1>7 DEF FlowFits, SearchFits
  <2>2. QED
    BY <1>1, <2>1, SearchStays
<1>8. q.op # "brief"
  OBVIOUS
<1>9. QED
  <2>1. r.op = "map" => /\ {"pair", "assessment"} \subseteq DOMAIN r /\ r.assessment \in Assessments
                        /\ \E x \in AllElements', p \in Propositions : r.pair = <<x, p>>
    BY <1>1, <1>3, <1>4 DEF FlowFits, Like
  <2>2. r.op = "charge" => "request" \in DOMAIN r /\ r.request \in ChargeRequests
    BY <1>1, <1>2 DEF FlowFits, Like
  <2>3. /\ r.op \in StandingOps => StandingFits(r)'
        /\ r.op \in ComparedOps => ComparisonFits(r)'
        /\ r.op \in {"search", "found"} => SearchFits(r)'
    BY <1>1, <1>5, <1>6, <1>7
  <2>4. r.op # "brief"
    BY <1>1, <1>8
  <2>5. QED
    BY <1>1, <2>1, <2>2, <2>3, <2>4 DEF FlowFits, StandingOps, ComparedOps

LEMMA BriefFits ==
  ASSUME NEW q \in BriefFlows
  PROVE  FlowFits(q) /\ FlowFits(q)'
<1>1. q = [k \in DOMAIN q |-> q[k]] /\ "op" \in DOMAIN q /\ q.op = "brief"
  BY DEF BriefFlows
<1>2. QED
  BY <1>1 DEF FlowFits, StandingOps, ComparedOps

LEMMA FlowKept ==
  ASSUME Charged, Charged', Extends(charges', charges), Extends(links', links),
         UNCHANGED <<lineState, passageState>>, NEW q, FlowFits(q)
  PROVE  FlowFits(q)'
<1>1. CASE q.op = "brief"
  BY <1>1, BriefFits DEF FlowFits
<1>2. CASE q.op # "brief"
  <2>1. Like(q, q)
    BY DEF FlowFits, Like
  <2>2. QED
    BY <1>2, <2>1, FlowStays
<1>3. QED
  BY <1>1, <1>2

LEMMA FlowMixed ==
  ASSUME Charged, Charged', Extends(charges', charges), Extends(links', links),
         NEW q, FlowFits(q), q.op # "brief", "fresh" \in DOMAIN q
  PROVE  FlowFits(Mixed(q))'
<1>1. PICK r : r = Mixed(q)
  OBVIOUS
<1>2. q = [k \in DOMAIN q |-> q[k]]
  BY DEF FlowFits
<1>3. Like(r, q) /\ r.fresh = FALSE
  BY <1>1, <1>2, Changes DEF Mixed, Like
<1>4. FlowFits(r)'
  BY <1>3, FlowStays
<1>5. QED
  BY <1>1, <1>4

LEMMA NothingLost == UNCHANGED <<charges, links>> => Extends(charges', charges) /\ Extends(links', links)
BY DEF Extends

----------------------------------------------------------------------------
(* The steps: a process goes on with what fits, a row is added, a reviewer  *)
(* decides, or nothing happens that a view reads.                           *)

ReadsOn(w) ==
  /\ \E d : FlowFits(d) /\ Become(w, d)
  /\ UNCHANGED <<briefs, charges, links, reviews>>
Commits(w) ==
  /\ CommitAs(w, Idle)
  /\ Charged' /\ BriefsNumbered' /\ \A k \in DOMAIN links' : links'[k] \in Assessments
  /\ Extends(charges', charges) /\ Extends(links', links)
  /\ UNCHANGED reviews
Reviews == Disturb /\ UNCHANGED <<briefs, charges, links>>

LEMMA IdleIsFit == FlowFits(Idle) /\ FlowFits(Idle)'
BY DEF FlowFits, Idle, StandingOps, ComparedOps

LEMMA ReadsOnStep ==
  ASSUME ViewInv, NEW w \in Processes, ReadsOn(w)
  PROVE  ViewInv'
<1>1. PICK d : FlowFits(d) /\ Become(w, d)
  BY DEF ReadsOn
<1>2. UNCHANGED <<briefs, charges, links, lineState, passageState>>
  BY DEF ReadsOn, reviews
<1>3. Goes(w, d) /\ doing' = [v \in Processes |-> doing'[v]]
  BY <1>1 DEF ViewInv, Become, Goes
<1>4. Charged /\ Charged' /\ BriefsNumbered' /\ \A k \in DOMAIN links' : links'[k] \in Assessments
  BY <1>2 DEF ViewInv, Charged, BriefsNumbered, Numbered, BriefsApart
<1>5. Extends(charges', charges) /\ Extends(links', links)
  BY <1>2, NothingLost
<1>6. ASSUME NEW v \in Processes PROVE FlowFits(doing[v])'
  <2>1. PICK x : x = IF v = w THEN d ELSE doing[v]
    OBVIOUS
  <2>2. FlowFits(x)
    BY <1>1, <2>1 DEF ViewInv
  <2>3. FlowFits(x)'
    BY <1>2, <1>4, <1>5, <2>2, FlowKept
  <2>4. doing'[v] = x
    BY <1>3, <2>1 DEF Goes
  <2>5. QED
    BY <2>3, <2>4
<1>7. QED
  BY <1>3, <1>4, <1>6 DEF ViewInv

LEMMA CommitsStep ==
  ASSUME ViewInv, NEW w \in Processes, Commits(w)
  PROVE  ViewInv'
<1>1. UNCHANGED <<lineState, passageState>> /\ Charged /\ Charged'
      /\ Extends(charges', charges) /\ Extends(links', links)
  BY DEF Commits, reviews, ViewInv
<1>2. GoesAhead(w, Idle) /\ doing' = [v \in Processes |-> doing'[v]]
  BY DEF Commits, CommitAs, GoesAhead, Overtaken
<1>3. ASSUME NEW v \in Processes PROVE FlowFits(doing[v])'
  <2>1. FlowFits(doing[v])
    BY DEF ViewInv
  <2>2. CASE v = w
    BY <1>2, <2>2, IdleIsFit DEF GoesAhead
  <2>3. CASE v # w /\ doing[v].op = "brief"
    <3>1. PICK x : x = Overtaken(doing[v])
      OBVIOUS
    <3>2. doing[v] \in BriefFlows
      BY <2>1, <2>3 DEF FlowFits
    <3>3. FlowFits(x)'
      BY <3>1, <3>2, OvertakenBrief, BriefFits
    <3>4. doing'[v] = x
      BY <1>2, <2>3, <3>1 DEF GoesAhead
    <3>5. QED
      BY <3>3, <3>4
  <2>4. CASE v # w /\ doing[v].op # "brief"
    <3>1. PICK x : x = doing[v]
      OBVIOUS
    <3>2. FlowFits(x)'
      BY <1>1, <2>1, <3>1, FlowKept
    <3>3. doing'[v] = x
      BY <1>2, <2>4, <3>1 DEF GoesAhead
    <3>4. QED
      BY <3>2, <3>3
  <2>5. QED
    BY <2>2, <2>3, <2>4
<1>4. QED
  BY <1>2, <1>3 DEF ViewInv, Commits

LEMMA ReviewsStep ==
  ASSUME ViewInv, Reviews
  PROVE  ViewInv'
<1>1. UNCHANGED <<briefs, charges, links>>
  BY DEF Reviews
<1>2. Disturbed /\ doing' = [v \in Processes |-> doing'[v]]
  BY DEF Reviews, Disturb, Disturbed, Overtaken, Mixed
<1>3. Charged /\ Charged' /\ BriefsNumbered' /\ \A k \in DOMAIN links' : links'[k] \in Assessments
  BY <1>1 DEF ViewInv, Charged, BriefsNumbered, Numbered, BriefsApart
<1>4. Extends(charges', charges) /\ Extends(links', links)
  BY <1>1, NothingLost
<1>5. ASSUME NEW v \in Processes PROVE FlowFits(doing[v])'
  <2>1. FlowFits(doing[v])
    BY DEF ViewInv
  <2>2. PICK q : q = doing[v]
    OBVIOUS
  <2>3. CASE q.op = "brief"
    <3>1. PICK x : x = Overtaken(q)
      OBVIOUS
    <3>2. q \in BriefFlows
      BY <2>1, <2>2, <2>3 DEF FlowFits
    <3>3. FlowFits(x)'
      BY <3>1, <3>2, OvertakenBrief, BriefFits
    <3>4. doing'[v] = x
      BY <1>2, <2>2, <2>3, <3>1 DEF Disturbed
    <3>5. QED
      BY <3>3, <3>4
  <2>4. CASE q.op # "brief" /\ "fresh" \in DOMAIN q
    <3>1. PICK x : x = Mixed(q)
      OBVIOUS
    <3>2. FlowFits(q)
      BY <2>1, <2>2
    <3>3. FlowFits(x)'
      BY <1>3, <1>4, <2>4, <3>1, <3>2, FlowMixed
    <3>4. doing'[v] = x
      BY <1>2, <2>2, <2>4, <3>1 DEF Disturbed
    <3>5. QED
      BY <3>3, <3>4
  <2>5. CASE q.op # "brief" /\ "fresh" \notin DOMAIN q
    <3>1. FlowFits(q)
      BY <2>1, <2>2
    <3>2. Like(q, q)
      BY <3>1 DEF FlowFits, Like
    <3>3. FlowFits(q)'
      BY <1>3, <1>4, <2>5, <3>1, <3>2, FlowStays
    <3>4. doing'[v] = q
      BY <1>2, <2>2, <2>5 DEF Disturbed
    <3>5. QED
      BY <3>3, <3>4
  <2>6. QED
    BY <2>3, <2>4, <2>5
<1>6. QED
  BY <1>2, <1>3, <1>5 DEF ViewInv

LEMMA WorkBegins ==
  ASSUME ViewInv, NEW w \in Processes, Begin(w)
  PROVE  ReadsOn(w)
<1>1. CASE \E kind \in WorkKinds, id \in Ids : BeginAuthor(w, kind, id)
  <2>1. PICK kind \in WorkKinds, id \in Ids : BeginAuthor(w, kind, id)
    BY <1>1
  <2>2. PICK d : d = [op |-> "version", id |-> id,
                      row |-> [kind |-> kind, version |-> 1, supersedes |-> None]]
    OBVIOUS
  <2>3. FlowFits(d)
    BY <2>2 DEF FlowFits, StandingOps, ComparedOps
  <2>4. QED
    BY <2>1, <2>2, <2>3 DEF ReadsOn, BeginAuthor, tables
<1>2. CASE \E of, id \in Ids : BeginRevise(w, of, id)
  <2>1. PICK of \in Ids, id \in Ids : BeginRevise(w, of, id)
    BY <1>2
  <2>2. PICK d : d = [op |-> "version", id |-> id,
                      row |-> [kind |-> versions[of].kind, version |-> versions[of].version + 1,
                               supersedes |-> of]]
    OBVIOUS
  <2>3. FlowFits(d)
    BY <2>2 DEF FlowFits, StandingOps, ComparedOps
  <2>4. QED
    BY <2>1, <2>2, <2>3 DEF ReadsOn, BeginRevise, tables
<1>3. CASE \E id \in Ids, posture \in Postures, paragraphs \in Paragraphs :
             BeginBrief(w, id, posture, paragraphs)
  <2>1. PICK id \in Ids, posture \in Postures, paragraphs \in Paragraphs :
          BeginBrief(w, id, posture, paragraphs)
    BY <1>3
  <2>2. PICK d : d = [op |-> "brief", id |-> id, snapshot |-> "none",
                      row |-> [posture |-> posture, version |-> 0, paragraphs |-> paragraphs]]
    OBVIOUS
  <2>3. d \in BriefFlows
    BY <2>2 DEF BriefFlows, BriefRows
  <2>4. FlowFits(d)
    BY <2>3, BriefFits
  <2>5. QED
    BY <2>1, <2>2, <2>4 DEF ReadsOn, BeginBrief, tables
<1>4. CASE \E r \in ChargeRequests : BeginCharge(w, r)
  <2>1. PICK r \in ChargeRequests : BeginCharge(w, r)
    BY <1>4
  <2>2. PICK d : d = [op |-> "charge", request |-> r]
    OBVIOUS
  <2>3. FlowFits(d)
    BY <2>2 DEF FlowFits, StandingOps, ComparedOps
  <2>4. QED
    BY <2>1, <2>2, <2>3 DEF ReadsOn, BeginCharge, tables
<1>5. CASE \E element \in AllElements, p \in Propositions, a \in Assessments : BeginMap(w, element, p, a)
  <2>1. PICK element \in AllElements, p \in Propositions, a \in Assessments : BeginMap(w, element, p, a)
    BY <1>5
  <2>2. PICK d : d = [op |-> "map", pair |-> <<element, p>>, assessment |-> a]
    OBVIOUS
  <2>3. FlowFits(d)
    BY <2>2 DEF FlowFits, StandingOps, ComparedOps
  <2>4. QED
    BY <2>1, <2>2, <2>3 DEF ReadsOn, BeginMap, tables
<1>6. CASE \E audience \in {"disclosable", "work-file"} : BeginExport(w, audience)
  <2>1. PICK audience \in {"disclosable", "work-file"} : BeginExport(w, audience)
    BY <1>6
  <2>2. PICK d : d = [op |-> "export", audience |-> audience, fresh |-> TRUE]
    OBVIOUS
  <2>3. FlowFits(d)
    BY <2>2 DEF FlowFits, StandingOps, ComparedOps
  <2>4. QED
    BY <2>1, <2>2, <2>3 DEF ReadsOn, BeginExport, tables
<1>7. QED
  BY <1>1, <1>2, <1>3, <1>4, <1>5, <1>6 DEF Begin

LEMMA WorkReads ==
  ASSUME ViewInv, NEW w \in Processes,
         ReadNumber(w) \/ ReadEvidence(w) \/ CountRejected(w) \/ ReadPrivileged(w) \/ Finish(w)
  PROVE  ReadsOn(w)
<1>1. CASE ReadNumber(w)
  <2>1. doing[w] \in BriefFlows
    BY <1>1 DEF ReadNumber, ViewInv, FlowFits
  <2>2. PICK n : n = Highest(NumbersOf(doing[w].row.posture)) + 1
    OBVIOUS
  <2>3. n \in Nat
    BY <2>2, HighestOf DEF ViewInv
  <2>4. PICK d : d = [doing[w] EXCEPT !.snapshot = "current", !.row.version = n]
    OBVIOUS
  <2>5. d \in BriefFlows
    BY <2>1, <2>3, <2>4 DEF BriefFlows, BriefRows
  <2>6. FlowFits(d)
    BY <2>5, BriefFits
  <2>7. QED
    BY <1>1, <2>2, <2>4, <2>6 DEF ReadsOn, ReadNumber, tables
<1>2. CASE ReadEvidence(w)
  <2>1. PICK lines, without, n : Become(w, [op |-> "count", audience |-> doing[w].audience, fresh |-> doing[w].fresh,
                      lines |-> lines, unsupported |-> without, unreviewed |-> n])
    BY <1>2 DEF ReadEvidence
  <2>2. PICK d : d = [op |-> "count", audience |-> doing[w].audience, fresh |-> doing[w].fresh,
                      lines |-> lines, unsupported |-> without, unreviewed |-> n]
    OBVIOUS
  <2>3. FlowFits(d)
    BY <2>2 DEF FlowFits, StandingOps, ComparedOps
  <2>4. QED
    BY <1>2, <2>1, <2>2, <2>3 DEF ReadsOn, ReadEvidence, tables
<1>3. CASE CountRejected(w)
  <2>1. PICK d : d = [op |-> "privilege", audience |-> doing[w].audience, fresh |-> doing[w].fresh,
                      lines |-> doing[w].lines, unsupported |-> doing[w].unsupported,
                      unreviewed |-> doing[w].unreviewed,
                      omitted |-> Cardinality({e \in Evidence : lineState[e] = "rejected"})]
    OBVIOUS
  <2>2. FlowFits(d)
    BY <2>1 DEF FlowFits, StandingOps, ComparedOps
  <2>3. Become(w, d)
    BY <1>3, <2>1 DEF CountRejected
  <2>4. QED
    BY <1>3, <2>2, <2>3 DEF ReadsOn, CountRejected, tables
<1>4. CASE ReadPrivileged(w)
  <2>1. PICK d : d = [op |-> "exported", fresh |-> doing[w].fresh,
                      lines |-> doing[w].lines, unsupported |-> doing[w].unsupported,
                      unreviewed |-> doing[w].unreviewed, omitted |-> doing[w].omitted,
                      privileged |-> IF doing[w].audience = "work-file" THEN CurrentWork ELSE {}]
    OBVIOUS
  <2>2. FlowFits(d)
    BY <2>1 DEF FlowFits, StandingOps, ComparedOps
  <2>3. Become(w, d)
    BY <1>4, <2>1 DEF ReadPrivileged
  <2>4. QED
    BY <1>4, <2>2, <2>3 DEF ReadsOn, ReadPrivileged, tables
<1>5. CASE Finish(w)
  BY <1>5, IdleIsFit DEF Finish, ReadsOn, tables
<1>6. QED
  BY <1>1, <1>2, <1>3, <1>4, <1>5

LEMMA BriefAdded ==
  ASSUME BriefsNumbered, NEW id, id \notin DOMAIN briefs, NEW row \in BriefRows,
         row.version \notin NumbersOf(row.posture), briefs' = AddRow(briefs, id, row)
  PROVE  BriefsNumbered'
<1>1. /\ DOMAIN briefs' = DOMAIN briefs \cup {id} /\ briefs'[id] = row
      /\ \A n \in DOMAIN briefs : briefs'[n] = briefs[n]
      /\ briefs' = [n \in DOMAIN briefs' |-> briefs'[n]]
  BY DEF AddRow
<1>2. \A n \in DOMAIN briefs' : briefs'[n] \in BriefRows
  BY <1>1 DEF BriefsNumbered
<1>3. Numbered(briefs)'
  <2>1. PICK n \in Nat : \A k \in DOMAIN briefs : briefs[k].version <= n
    BY DEF BriefsNumbered, Numbered
  <2>2. row.version \in Nat /\ \A k \in DOMAIN briefs : briefs[k].version \in Nat
    BY DEF BriefsNumbered, BriefRows
  <2>3. \A k \in DOMAIN briefs' : briefs'[k].version <= n + row.version
    BY <1>1, <2>1, <2>2
  <2>4. n + row.version \in Nat
    BY <2>2
  <2>5. QED
    BY <2>3, <2>4 DEF Numbered
<1>4. BriefsApart'
  <2>1. ASSUME NEW a \in DOMAIN briefs, briefs[a].posture = row.posture
        PROVE  briefs[a].version # row.version
    BY <2>1 DEF NumbersOf
  <2>2. QED
    BY <1>1, <2>1 DEF BriefsNumbered, BriefsApart
<1>5. QED
  BY <1>1, <1>2, <1>3, <1>4 DEF BriefsNumbered

LEMMA ChargeAdded ==
  ASSUME Charged, NEW r \in ChargeRequests, r.id \notin DOMAIN charges,
         \A i \in DOMAIN r.elements : r.elements[i] \notin AllElements,
         charges' = AddRow(charges, r.id, [label |-> r.label, elements |-> r.elements]),
         UNCHANGED links
  PROVE  Charged' /\ Extends(charges', charges)
<1>1. PICK id, new : id = r.id /\ new = [label |-> r.label, elements |-> r.elements]
  OBVIOUS
<1>2. /\ DOMAIN charges' = DOMAIN charges \cup {id} /\ id \notin DOMAIN charges
      /\ charges'[id] = new /\ \A c \in DOMAIN charges : charges'[c] = charges[c]
      /\ Extends(charges', charges)
  <2>1. PICK old, later : old = charges /\ later = charges'
    OBVIOUS
  <2>2. later = AddRow(old, id, new) /\ id \notin DOMAIN old
    BY <1>1, <2>1
  <2>3. /\ DOMAIN later = DOMAIN old \cup {id} /\ later[id] = new
        /\ \A c \in DOMAIN old : c # id => later[c] = old[c]
        /\ Extends(later, old)
    BY <2>2 DEF AddRow, Extends
  <2>4. QED
    BY <2>1, <2>2, <2>3
<1>3. IsFiniteSet(DOMAIN charges')
  <2>1. IsFiniteSet(DOMAIN charges)
    BY DEF Charged, IsCharged
  <2>2. QED
    BY <1>2, <2>1, FS_AddElement
<1>4. /\ new = [label |-> new.label, elements |-> new.elements]
      /\ new.label \in DOMAIN LabelRank /\ new.elements \in Seq(ToSet(new.elements))
      /\ ToSet(new.elements) \cap AllElements = {}
  <2>1. new.label = r.label /\ new.elements = r.elements /\ new = [label |-> new.label, elements |-> new.elements]
    BY <1>1
  <2>2. r.label \in DOMAIN LabelRank /\ r.elements \in Seq(ToSet(r.elements))
    BY ViewsAssumption
  <2>3. ToSet(r.elements) \cap AllElements = {}
    BY DEF ToSet
  <2>4. QED
    BY <2>1, <2>2, <2>3
<1>5. \A c \in DOMAIN charges : ToSet(charges[c].elements) \subseteq AllElements
  BY DEF AllElements, ElementsOf, ToSet
<1>6. \A c \in DOMAIN charges' :
        /\ charges'[c] = [label |-> charges'[c].label, elements |-> charges'[c].elements]
        /\ charges'[c].label \in DOMAIN LabelRank
        /\ charges'[c].elements \in Seq(ToSet(charges'[c].elements))
  BY <1>2, <1>4 DEF Charged, IsCharged
<1>7. ASSUME NEW c \in DOMAIN charges', NEW d \in DOMAIN charges', c # d
      PROVE  ToSet(charges'[c].elements) \cap ToSet(charges'[d].elements) = {}
  <2>1. CASE c \in DOMAIN charges /\ d \in DOMAIN charges
    BY <1>2, <1>7, <2>1 DEF Charged, IsCharged
  <2>2. CASE c = id \/ d = id
    BY <1>2, <1>4, <1>5, <1>7, <2>2
  <2>3. QED
    BY <1>2, <2>1, <2>2
<1>8. links' = [k \in DOMAIN links' |-> links'[k]]
      /\ \A k \in DOMAIN links' :
           \E c \in DOMAIN charges', p \in Propositions :
             \E x \in ToSet(charges'[c].elements) : k = <<x, p>>
  BY <1>2 DEF Charged, IsCharged
<1>9. QED
  BY <1>2, <1>3, <1>6, <1>7, <1>8 DEF Charged, IsCharged

LEMMA MappingAdded ==
  ASSUME Charged, NEW x \in AllElements, NEW p \in Propositions, NEW a, <<x, p>> \notin DOMAIN links,
         links' = AddRow(links, <<x, p>>, a), UNCHANGED charges
  PROVE  Charged' /\ Extends(links', links)
<1>1. PICK k : k = <<x, p>>
  OBVIOUS
<1>2. /\ DOMAIN links' = DOMAIN links \cup {k} /\ links' = [l \in DOMAIN links' |-> links'[l]]
      /\ Extends(links', links)
  <2>1. PICK old, later : old = links /\ later = links'
    OBVIOUS
  <2>2. later = AddRow(old, k, a) /\ k \notin DOMAIN old
    BY <1>1, <2>1
  <2>3. /\ DOMAIN later = DOMAIN old \cup {k} /\ later = [l \in DOMAIN later |-> later[l]]
        /\ Extends(later, old)
    BY <2>2 DEF AddRow, Extends
  <2>4. QED
    BY <2>1, <2>2, <2>3
<1>3. \E c \in DOMAIN charges : x \in ToSet(charges[c].elements)
  BY DEF AllElements, ElementsOf, ToSet
<1>4. \A l \in DOMAIN links' :
        \E c \in DOMAIN charges, q \in Propositions : \E y \in ToSet(charges[c].elements) : l = <<y, q>>
  BY <1>1, <1>2, <1>3 DEF Charged, IsCharged
<1>5. /\ IsFiniteSet(DOMAIN charges')
      /\ \A c \in DOMAIN charges' :
           /\ charges'[c] = [label |-> charges'[c].label, elements |-> charges'[c].elements]
           /\ charges'[c].label \in DOMAIN LabelRank
           /\ charges'[c].elements \in Seq(ToSet(charges'[c].elements))
      /\ \A c, d \in DOMAIN charges' :
           c # d => ToSet(charges'[c].elements) \cap ToSet(charges'[d].elements) = {}
  BY DEF Charged, IsCharged
<1>6. \A l \in DOMAIN links' :
        \E c \in DOMAIN charges', q \in Propositions : \E y \in ToSet(charges'[c].elements) : l = <<y, q>>
  BY <1>4
<1>7. QED
  BY <1>2, <1>5, <1>6 DEF Charged, IsCharged

LEMMA WorkCommits ==
  ASSUME ViewInv, NEW w \in Processes,
         InsertVersion(w) \/ InsertBrief(w) \/ InsertCharge(w) \/ InsertMapping(w)
  PROVE  ReadsOn(w) \/ Commits(w)
<1>0. /\ FlowFits(doing[w]) /\ Charged /\ BriefsNumbered
      /\ \A k \in DOMAIN links : links[k] \in Assessments
  BY DEF ViewInv
<1>1. ASSUME Become(w, Idle), UNCHANGED <<briefs, charges, links, reviews>>
      PROVE  ReadsOn(w)
  BY <1>1, IdleIsFit DEF ReadsOn
<1>2. UNCHANGED briefs => BriefsNumbered'
  BY <1>0 DEF BriefsNumbered, Numbered, BriefsApart
<1>3. UNCHANGED <<charges, links>> => /\ Charged' /\ \A k \in DOMAIN links' : links'[k] \in Assessments
                                     /\ Extends(charges', charges) /\ Extends(links', links)
  BY <1>0, NothingLost DEF Charged
<1>4. CASE InsertVersion(w)
  <2>1. CASE Accepts(doing[w].id, doing[w].row)
    BY <1>2, <1>3, <1>4, <2>1 DEF InsertVersion, Commits, reviews
  <2>2. CASE ~ Accepts(doing[w].id, doing[w].row)
    BY <1>1, <1>4, <2>2 DEF InsertVersion
  <2>3. QED
    BY <2>1, <2>2
<1>5. CASE InsertBrief(w)
  <2>1. CASE BriefIsAccepted(doing[w])
    <3>1. PICK id, row : id = doing[w].id /\ row = doing[w].row
      OBVIOUS
    <3>2. doing[w] \in BriefFlows
      BY <1>0, <1>5 DEF InsertBrief, FlowFits
    <3>3. row \in BriefRows
      BY <3>1, <3>2 DEF BriefFlows
    <3>4. id \notin DOMAIN briefs /\ row.version \notin NumbersOf(row.posture)
      BY <2>1, <3>1 DEF BriefIsAccepted
    <3>5. briefs' = AddRow(briefs, id, row)
      BY <1>5, <2>1, <3>1 DEF InsertBrief
    <3>6. BriefsNumbered'
      BY <1>0, <3>3, <3>4, <3>5, BriefAdded
    <3>7. QED
      BY <1>3, <1>5, <2>1, <3>6 DEF InsertBrief, Commits, reviews
  <2>2. CASE ~ BriefIsAccepted(doing[w])
    BY <1>1, <1>5, <2>2 DEF InsertBrief
  <2>3. QED
    BY <2>1, <2>2
<1>6. CASE InsertCharge(w)
  <2>1. PICK r : r = doing[w].request
    OBVIOUS
  <2>2. r \in ChargeRequests
    BY <1>0, <1>6, <2>1 DEF InsertCharge, FlowFits
  <2>3. CASE r.id \notin DOMAIN charges /\ \A i \in DOMAIN r.elements : r.elements[i] \notin AllElements
    <3>1. charges' = AddRow(charges, r.id, [label |-> r.label, elements |-> r.elements]) /\ UNCHANGED links
      BY <1>6, <2>1, <2>3 DEF InsertCharge
    <3>2. Charged' /\ Extends(charges', charges)
      BY <1>0, <2>2, <2>3, <3>1, ChargeAdded
    <3>3. Extends(links', links) /\ \A k \in DOMAIN links' : links'[k] \in Assessments
      BY <1>0, <3>1 DEF Extends
    <3>4. QED
      BY <1>2, <1>6, <2>1, <2>3, <3>2, <3>3 DEF InsertCharge, Commits, reviews
  <2>4. CASE ~ (r.id \notin DOMAIN charges /\ \A i \in DOMAIN r.elements : r.elements[i] \notin AllElements)
    BY <1>1, <1>6, <2>1, <2>4 DEF InsertCharge
  <2>5. QED
    BY <2>3, <2>4
<1>7. CASE InsertMapping(w)
  <2>1. PICK x \in AllElements, p \in Propositions : doing[w].pair = <<x, p>>
    BY <1>0, <1>7 DEF InsertMapping, FlowFits
  <2>2. PICK a \in Assessments : a = doing[w].assessment
    BY <1>0, <1>7 DEF InsertMapping, FlowFits
  <2>3. CASE <<x, p>> \notin DOMAIN links
    <3>1. links' = AddRow(links, <<x, p>>, a) /\ UNCHANGED charges
      BY <1>7, <2>1, <2>2, <2>3 DEF InsertMapping
    <3>2. Charged' /\ Extends(links', links)
      BY <1>0, <2>3, <3>1, MappingAdded
    <3>3. \A k \in DOMAIN links' : links'[k] \in Assessments
      BY <1>0, <3>1 DEF AddRow
    <3>4. Extends(charges', charges)
      BY <3>1 DEF Extends
    <3>5. QED
      BY <1>2, <1>7, <2>1, <2>3, <3>2, <3>3, <3>4 DEF InsertMapping, Commits, reviews
  <2>4. CASE <<x, p>> \in DOMAIN links
    BY <1>1, <1>7, <2>1, <2>4 DEF InsertMapping
  <2>5. QED
    BY <2>3, <2>4
<1>8. QED
  BY <1>4, <1>5, <1>6, <1>7

----------------------------------------------------------------------------
(* A view begins.                                                           *)

\* An entry holds elements of its own charge only.
Own(e) == \A m \in DOMAIN e : ToSet(e[m].elements) \subseteq ElementsOf(e[m].charge)

LEMMA OwnGrows ==
  ASSUME NEW e \in Seq(Entries), NEW f \in Seq(Entries), NEW c, NEW x \in ElementsOf(c), Own(e),
         Lengthens(f, e, c, x) \/ Begins(f, e, c, x)
  PROVE  Own(f)
<1>1. PICK n \in Nat : n = Len(e) /\ DOMAIN e = 1 .. n
  OBVIOUS
<1>2. \A m \in 1 .. n : ToSet(e[m].elements) \subseteq ElementsOf(e[m].charge)
  BY <1>1 DEF Own
<1>3. CASE Lengthens(f, e, c, x)
  <2>1. n \in 1 .. n /\ DOMAIN f = 1 .. n /\ e[n].charge = c
    BY <1>1, <1>3 DEF Lengthens
  <2>2. PICK s \in Seq(AllElements) : s = e[n].elements
    <3>1. e[n] \in Entries
      BY <1>1, <2>1
    <3>2. QED
      BY <3>1 DEF Entries
  <2>3. PICK t : t = Append(s, x)
    OBVIOUS
  <2>4. f[n] = [charge |-> c, elements |-> t] /\ \A m \in 1 .. n : m # n => f[m] = e[m]
    BY <1>1, <1>3, <2>2, <2>3 DEF Lengthens
  <2>5. ToSet(t) = ToSet(s) \cup {x}
    BY <2>2, <2>3, Appended
  <2>6. ToSet(f[n].elements) \subseteq ElementsOf(f[n].charge)
    BY <1>2, <2>1, <2>2, <2>4, <2>5
  <2>7. ASSUME NEW m \in 1 .. n PROVE ToSet(f[m].elements) \subseteq ElementsOf(f[m].charge)
    BY <1>2, <2>4, <2>6
  <2>8. QED
    BY <2>1, <2>7 DEF Own
<1>4. CASE Begins(f, e, c, x)
  <2>1. DOMAIN f = 1 .. n + 1
    BY <1>1, <1>4 DEF Begins
  <2>2. f[n + 1] = [charge |-> c, elements |-> <<x>>] /\ \A m \in 1 .. n : f[m] = e[m]
    BY <1>1, <1>4 DEF Begins
  <2>3. ToSet(f[n + 1].elements) = {x}
    BY <2>2 DEF ToSet
  <2>4. ASSUME NEW m \in 1 .. n + 1 PROVE ToSet(f[m].elements) \subseteq ElementsOf(f[m].charge)
    <3>1. CASE m = n + 1
      BY <2>2, <2>3, <3>1
    <3>2. CASE m \in 1 .. n
      BY <1>2, <2>2, <3>2
    <3>3. QED
      BY <1>1, <3>1, <3>2
  <2>5. QED
    BY <2>1, <2>4 DEF Own
<1>5. QED
  BY <1>3, <1>4

LEMMA OwnElements ==
  ASSUME Charged
  PROVE  Own(ChargesStanding)
<1>1. PICK n \in Nat : IsListing(StandingRows, n)
  BY RowsAreListed
<1>2. PICK g : IsGrouping(g, StandingRows, n)
  BY <1>1, GroupingExists
<1> DEFINE Good == {k \in 0 .. n : Own(g[k])}
<1>3. 0 \in Good
  <2>1. g[0] = << >> /\ 0 \in 0 .. n
    BY <1>2 DEF IsGrouping
  <2>2. QED
    BY <2>1 DEF Own
<1>4. ASSUME NEW k \in Nat, k < n /\ k \in Good PROVE k + 1 \in Good
  <2>1. g[k] \in Seq(Entries) /\ g[k + 1] \in Seq(Entries) /\ Own(g[k])
    BY <1>1, <1>2, <1>4, RowFollows
  <2>2. PICK c \in DOMAIN charges, i \in Nat :
              /\ StandingRows[k + 1] = <<c, i>> /\ i \in 1 .. Len(charges[c].elements)
              /\ charges[c].elements[i] = Element(StandingRows[k + 1])
              /\ \/ Lengthens(g[k + 1], g[k], c, Element(StandingRows[k + 1]))
                 \/ Begins(g[k + 1], g[k], c, Element(StandingRows[k + 1]))
    BY <1>1, <1>2, <1>4, RowFollows
  <2>3. PICK x \in ElementsOf(c) : x = Element(StandingRows[k + 1])
    <3>1. i \in DOMAIN charges[c].elements
      BY <2>2, ChargeRow
    <3>2. QED
      BY <2>2, <3>1 DEF ElementsOf
  <2>4. Own(g[k + 1])
    BY <2>1, <2>2, <2>3, OwnGrows
  <2>5. k + 1 \in 0 .. n
    BY <1>4
  <2>6. QED
    BY <2>4, <2>5
<1> HIDE DEF Good
<1>5. n \in 0 .. n /\ 0 .. n \subseteq Good
  <2>1. 0 .. n \subseteq Good
    BY <1>3, <1>4, CountingUp
  <2>2. QED
    BY <2>1
<1>6. Own(g[n])
  BY <1>5 DEF Good
<1>7. QED
  BY <1>2, <1>6 DEF IsGrouping

LEMMA ListedOnce ==
  ASSUME Charged
  PROVE  StandsOnce(ChargesStanding)
<1>1. PICK e \in Seq(Entries) : e = ChargesStanding /\ Listed(e) = AllElements
  BY EveryElementIsListed
<1>2. SUFFICES ASSUME \A c, d \in ChargesListed(e) : c # d => charges[c].label # charges[d].label
               PROVE  /\ Len(e) = Cardinality(ChargesListed(e))
                      /\ \A i \in DOMAIN e : e[i].elements = charges[e[i].charge].elements
  BY <1>1 DEF StandsOnce
<1>3. \A i \in DOMAIN e : e[i] \in Entries
  OBVIOUS
<1>4. ASSUME NEW c \in DOMAIN charges, ElementsOf(c) # {} PROVE c \in ChargesListed(e)
  <2>1. PICK x \in ElementsOf(c) : TRUE
    BY <1>4
  <2>2. x \in Listed(e)
    BY <1>1, <2>1 DEF AllElements
  <2>3. PICK i \in DOMAIN e : x \in ToSet(e[i].elements)
    BY <2>2 DEF Listed
  <2>4. PICK d \in DOMAIN charges : d = e[i].charge
    BY <1>3 DEF Entries
  <2>5. x \in ElementsOf(d)
    BY <1>1, <2>3, <2>4, OwnElements DEF Own
  <2>6. QED
    BY <2>1, <2>3, <2>4, <2>5, OneCharge DEF ChargesListed
<1>5. Distinct
  BY <1>2, <1>4 DEF Distinct
<1>6. /\ \A i \in DOMAIN e : e[i].elements = charges[e[i].charge].elements
      /\ \A i, j \in DOMAIN e : e[i].charge = e[j].charge => i = j
  BY <1>1, <1>5, ChargesStandOnce
<1>7. Len(e) = Cardinality(ChargesListed(e))
  <2>1. PICK n \in Nat : n = Len(e) /\ DOMAIN e = 1 .. n
    OBVIOUS
  <2> DEFINE f == [i \in 1 .. n |-> e[i].charge]
  <2>2. f = [i \in 1 .. n |-> f[i]] /\ \A i, j \in 1 .. n : f[i] = f[j] => i = j
    BY <1>6, <2>1
  <2>3. ChargesListed(e) = {f[i] : i \in 1 .. n}
    BY <2>1 DEF ChargesListed
  <2> HIDE DEF f
  <2>4. Cardinality({f[i] : i \in 1 .. n}) = n
    BY <2>2, Counted
  <2>5. QED
    BY <2>1, <2>3, <2>4
<1>8. QED
  BY <1>6, <1>7

\* What is mapped is mapped to an element that is listed.
LEMMA MappedIsListed ==
  ASSUME Charged, NEW k \in DOMAIN links
  PROVE  \E c \in DOMAIN charges, p \in Propositions :
           \E x \in ElementsOf(c) : k = <<x, p>> /\ k[1] = x /\ x \in AllElements
<1>1. PICK c \in DOMAIN charges, p \in Propositions :
        \E x \in ToSet(charges[c].elements) : k = <<x, p>>
  BY DEF Charged, IsCharged
<1>2. PICK x \in ToSet(charges[c].elements) : k = <<x, p>>
  BY <1>1
<1>3. x \in ElementsOf(c)
  BY <1>2 DEF ElementsOf, ToSet
<1>4. QED
  BY <1>2, <1>3 DEF AllElements

LEMMA ViewBegins ==
  ASSUME ViewInv, NEW w \in Processes, BeginView(w)
  PROVE  ReadsOn(w)
<1>0. Charged /\ Extends(links, links)
  BY DEF ViewInv, Extends
<1>1. CASE BeginStanding(w)
  <2>1. PICK e \in Seq(Entries) : e = ChargesStanding /\ Listed(e) = AllElements /\ StandsOnce(e)
    BY <1>0, EveryElementIsListed, ListedOnce
  <2>2. PICK d : d = [op |-> "standing", fresh |-> TRUE, links |-> links, entries |-> e]
    OBVIOUS
  <2>3. \A k \in DOMAIN links : k[1] \in Listed(e)
    BY <1>0, <2>1, MappedIsListed
  <2>4. /\ d.op = "standing" /\ d.links = links /\ d.entries = e
        /\ DOMAIN d = {"op", "fresh", "links", "entries"} /\ d = [k \in DOMAIN d |-> d[k]]
    BY <2>2
  <2>5. StandingFits(d)
    BY <1>0, <2>1, <2>3, <2>4 DEF StandingFits
  <2>6. FlowFits(d)
    BY <2>4, <2>5 DEF FlowFits, ComparedOps
  <2>7. Become(w, d)
    BY <1>1, <2>1, <2>2 DEF BeginStanding, Look
  <2>8. QED
    BY <1>1, <2>6, <2>7 DEF BeginStanding, Look, ReadsOn, tables
<1>2. CASE BeginComparison(w)
  <2>1. PICK s \in Seq(DOMAIN charges) :
          s = Sorted(DOMAIN charges, ComesFirst) /\ IsInjective(s) /\ ToSet(s) = DOMAIN charges
    BY <1>0, ChargesAreListed
  <2>2. PICK d : d = [op |-> "comparison", links |-> links, listed |-> s]
    OBVIOUS
  <2>3. ASSUME NEW k \in DOMAIN links PROVE \E i \in DOMAIN s : k[1] \in ElementsOf(s[i])
    <3>1. PICK c \in DOMAIN charges : k[1] \in ElementsOf(c)
      BY <1>0, MappedIsListed
    <3>2. PICK i \in DOMAIN s : s[i] = c
      BY <2>1 DEF ToSet
    <3>3. QED
      BY <3>1, <3>2
  <2>4. /\ d.op = "comparison" /\ d.links = links /\ d.listed = s
        /\ DOMAIN d = {"op", "links", "listed"} /\ d = [k \in DOMAIN d |-> d[k]]
    BY <2>2
  <2>5. ComparisonFits(d)
    BY <1>0, <2>1, <2>3, <2>4 DEF ComparisonFits
  <2>6. FlowFits(d)
    BY <2>4, <2>5 DEF FlowFits, StandingOps
  <2>7. Become(w, d)
    BY <1>2, <2>1, <2>2 DEF BeginComparison, Look
  <2>8. QED
    BY <1>2, <2>6, <2>7 DEF BeginComparison, Look, ReadsOn, tables
<1>3. CASE BeginWorkspaces(w)
  <2>1. PICK d : d = [op |-> "workspaces", issues |-> Current("legal_issue"), tasks |-> EmptyTable]
    OBVIOUS
  <2>2. FlowFits(d)
    BY <2>1 DEF FlowFits, StandingOps, ComparedOps
  <2>3. Become(w, d)
    BY <1>3, <2>1 DEF BeginWorkspaces, Look
  <2>4. QED
    BY <1>3, <2>2, <2>3 DEF BeginWorkspaces, Look, ReadsOn, tables
<1>4. CASE BeginSearch(w, Passages)
  <2>1. PICK d : d = [op |-> "search", fresh |-> TRUE, hits |-> Passages]
    OBVIOUS
  <2>2. FlowFits(d)
    BY <2>1 DEF FlowFits, SearchFits, StandingOps, ComparedOps
  <2>3. Become(w, d)
    BY <1>4, <2>1 DEF BeginSearch, Look
  <2>4. QED
    BY <1>4, <2>2, <2>3 DEF BeginSearch, Look, ReadsOn, tables
<1>5. CASE BeginDossier(w, Passages)
  <2>1. PICK d : d = [op |-> "dossier", statements |-> Passages, credibility |-> EmptyTable]
    OBVIOUS
  <2>2. FlowFits(d)
    BY <2>1 DEF FlowFits, StandingOps, ComparedOps
  <2>3. Become(w, d)
    BY <1>5, <2>1 DEF BeginDossier, Look
  <2>4. QED
    BY <1>5, <2>2, <2>3 DEF BeginDossier, Look, ReadsOn, tables
<1>6. QED
  BY <1>1, <1>2, <1>3, <1>4, <1>5 DEF BeginView

----------------------------------------------------------------------------
(* A view goes on with its next statement.                                  *)

\* What a later statement of the standing leaves as it was.
WentOn(r, q) ==
  /\ r = [k \in DOMAIN r |-> r[k]] /\ r.links = q.links /\ r.entries = q.entries
  /\ Quiet(r) <=> Quiet(q)
  /\ {"op", "fresh", "links", "entries"} \subseteq DOMAIN r
  /\ r.entries \in Seq(Entries) /\ StandsOnce(r.entries) /\ Extends(links, r.links)
  /\ \A k \in DOMAIN r.links : k[1] \in Listed(r.entries)

LEMMA StandingGoesOn ==
  ASSUME NEW q, StandingFits(q), NEW reading, "op" \in DOMAIN reading,
         "fresh" \notin DOMAIN reading, "links" \notin DOMAIN reading, "entries" \notin DOMAIN reading,
         NEW r, r = Noted(q, reading)
  PROVE  WentOn(r, q)
<1>1. /\ DOMAIN r = DOMAIN reading \cup DOMAIN q /\ r = [k \in DOMAIN r |-> r[k]]
      /\ \A k \in DOMAIN reading : r[k] = reading[k]
      /\ \A k \in DOMAIN q : k \notin DOMAIN reading => r[k] = q[k]
  BY DEF Noted
<1>2. {"fresh", "links", "entries"} \subseteq DOMAIN q
  BY DEF StandingFits
<1>3. r.op = reading.op /\ r.fresh = q.fresh /\ r.links = q.links /\ r.entries = q.entries
  BY <1>1, <1>2
<1>4. {"op", "fresh", "links", "entries"} \subseteq DOMAIN r
  BY <1>1, <1>2
<1>5. Quiet(r) <=> Quiet(q)
  BY <1>3 DEF Quiet
<1>6. /\ q.entries \in Seq(Entries) /\ StandsOnce(q.entries) /\ Extends(links, q.links)
      /\ \A k \in DOMAIN q.links : k[1] \in Listed(q.entries)
  BY DEF StandingFits
<1>7. QED
  BY <1>1, <1>3, <1>4, <1>5, <1>6 DEF WentOn

\* Earlier statements keep what they read.
LEMMA ReadBefore ==
  ASSUME NEW q, NEW r, r.links = q.links, r.entries = q.entries, Quiet(r) <=> Quiet(q),
         DOMAIN q \subseteq DOMAIN r
  PROVE  /\ ReadMapped(q) /\ r.facts = q.facts /\ r.bearsOn = q.bearsOn => ReadMapped(r)
         /\ ReadSourced(q) /\ r.sources = q.sources => ReadSourced(r)
         /\ ReadDisputed(q) /\ r.disputes = q.disputes => ReadDisputed(r)
         /\ ReadGaps(q) /\ r.unsupported = q.unsupported => ReadGaps(r)
<1>1. ReadMapped(q) /\ r.facts = q.facts /\ r.bearsOn = q.bearsOn => ReadMapped(r)
  BY DEF ReadMapped
<1>2. ReadSourced(q) /\ r.sources = q.sources => ReadSourced(r)
  BY DEF ReadSourced
<1>3. ReadDisputed(q) /\ r.disputes = q.disputes => ReadDisputed(r)
  BY DEF ReadDisputed
<1>4. ReadGaps(q) /\ r.unsupported = q.unsupported => ReadGaps(r)
  BY DEF ReadGaps
<1>5. QED
  BY <1>1, <1>2, <1>3, <1>4

LEMMA MappingsFit ==
  ASSUME NEW w \in Processes, FlowFits(doing[w]), ReadMappings(w)
  PROVE  \E d : FlowFits(d) /\ Become(w, d)
<1>1. PICK q : q = doing[w] /\ q.op = "standing" /\ StandingFits(q)
  BY DEF FlowFits, StandingOps, ReadMappings, Turn
<1>2. PICK facts : facts = [x \in Listed(q.entries) |->
                              [supporting |-> MappedTo(x, "supports"),
                               unchecked |-> UncheckedSupport(x), unbacked |-> Unbacked(x)]]
  OBVIOUS
<1>3. PICK bearsOn : bearsOn = [p \in Propositions |->
                                  {x \in Listed(q.entries) : <<x, p>> \in DOMAIN links}]
  OBVIOUS
<1>4. PICK reading : reading = [op |-> "mapped", facts |-> facts, bearsOn |-> bearsOn]
  OBVIOUS
<1>5. DOMAIN reading = {"op", "facts", "bearsOn"} /\ reading.op = "mapped"
      /\ reading.facts = facts /\ reading.bearsOn = bearsOn
  BY <1>4
<1>6. PICK r : r = Noted(q, reading)
  OBVIOUS
<1>7. WentOn(r, q) /\ r.op = "mapped" /\ DOMAIN r = DOMAIN reading \cup DOMAIN q
  <2>1. /\ "op" \in DOMAIN reading /\ "fresh" \notin DOMAIN reading
        /\ "links" \notin DOMAIN reading /\ "entries" \notin DOMAIN reading
    BY <1>5
  <2>2. WentOn(r, q)
    BY <1>1, <2>1, <1>6, StandingGoesOn
  <2>3. QED
    BY <1>5, <1>6, <2>1, <2>2 DEF Noted
<1>8. r.facts = facts /\ r.bearsOn = bearsOn
  BY <1>5, <1>6 DEF Noted
<1>9. ReadMapped(r)
  BY <1>2, <1>3, <1>5, <1>7, <1>8 DEF ReadMapped, WentOn
<1>10. StandingFits(r)
  BY <1>7, <1>9 DEF StandingFits, WentOn
<1>11. FlowFits(r)
  BY <1>7, <1>10 DEF FlowFits, ComparedOps, WentOn
<1>12. Become(w, r)
  BY <1>1, <1>2, <1>3, <1>4, <1>6 DEF ReadMappings, Turn
<1>13. QED
  BY <1>11, <1>12

LEMMA SourcesFit ==
  ASSUME NEW w \in Processes, FlowFits(doing[w]), ReadSources(w)
  PROVE  \E d : FlowFits(d) /\ Become(w, d)
<1>1. PICK q : q = doing[w] /\ q.op = "mapped" /\ StandingFits(q)
  BY DEF FlowFits, StandingOps, ReadSources, Turn
<1>2. PICK sources : sources = [x \in Listed(q.entries) |-> SourcesBehindSupport(x)]
  OBVIOUS
<1>3. PICK reading : reading = [op |-> "sourced", sources |-> sources]
  OBVIOUS
<1>4. DOMAIN reading = {"op", "sources"} /\ reading.op = "sourced" /\ reading.sources = sources
  BY <1>3
<1>5. PICK r : r = Noted(q, reading)
  OBVIOUS
<1>6. WentOn(r, q) /\ r.op = "sourced" /\ DOMAIN r = DOMAIN reading \cup DOMAIN q
  <2>1. /\ "op" \in DOMAIN reading /\ "fresh" \notin DOMAIN reading
        /\ "links" \notin DOMAIN reading /\ "entries" \notin DOMAIN reading
    BY <1>4
  <2>2. WentOn(r, q)
    BY <1>1, <2>1, <1>5, StandingGoesOn
  <2>3. QED
    BY <1>4, <1>5, <2>1, <2>2 DEF Noted
<1>7. ReadMapped(q) /\ {"facts", "bearsOn"} \subseteq DOMAIN q
  BY <1>1 DEF StandingFits, StandingOps, ReadMapped
<1>8. r.sources = sources /\ r.facts = q.facts /\ r.bearsOn = q.bearsOn
  BY <1>4, <1>5, <1>7 DEF Noted
<1>9. ReadMapped(r)
  BY <1>6, <1>7, <1>8, ReadBefore DEF WentOn
<1>10. ReadSourced(r)
  BY <1>2, <1>4, <1>6, <1>8 DEF ReadSourced, WentOn
<1>11. StandingFits(r)
  BY <1>6, <1>9, <1>10 DEF StandingFits, WentOn
<1>12. FlowFits(r)
  BY <1>6, <1>11 DEF FlowFits, ComparedOps, WentOn
<1>13. Become(w, r)
  BY <1>1, <1>2, <1>3, <1>5 DEF ReadSources, Turn
<1>14. QED
  BY <1>12, <1>13

LEMMA DisputesFit ==
  ASSUME NEW w \in Processes, FlowFits(doing[w]), ReadDisputes(w)
  PROVE  \E d : FlowFits(d) /\ Become(w, d)
<1>1. PICK q : q = doing[w] /\ q.op = "sourced" /\ StandingFits(q)
  BY DEF FlowFits, StandingOps, ReadDisputes, Turn
<1>2. PICK disputes : disputes = {p \in Propositions : Disputed(p)}
  OBVIOUS
<1>3. PICK reading : reading = [op |-> "disputed", disputes |-> disputes]
  OBVIOUS
<1>4. DOMAIN reading = {"op", "disputes"} /\ reading.op = "disputed" /\ reading.disputes = disputes
  BY <1>3
<1>5. PICK r : r = Noted(q, reading)
  OBVIOUS
<1>6. WentOn(r, q) /\ r.op = "disputed" /\ DOMAIN r = DOMAIN reading \cup DOMAIN q
  <2>1. /\ "op" \in DOMAIN reading /\ "fresh" \notin DOMAIN reading
        /\ "links" \notin DOMAIN reading /\ "entries" \notin DOMAIN reading
    BY <1>4
  <2>2. WentOn(r, q)
    BY <1>1, <2>1, <1>5, StandingGoesOn
  <2>3. QED
    BY <1>4, <1>5, <2>1, <2>2 DEF Noted
<1>7. /\ ReadMapped(q) /\ {"facts", "bearsOn"} \subseteq DOMAIN q
      /\ ReadSourced(q) /\ "sources" \in DOMAIN q
  BY <1>1 DEF StandingFits, StandingOps, ReadMapped, ReadSourced
<1>8. r.disputes = disputes /\ r.facts = q.facts /\ r.bearsOn = q.bearsOn /\ r.sources = q.sources
  BY <1>4, <1>5, <1>7 DEF Noted
<1>9. ReadMapped(r) /\ ReadSourced(r)
  BY <1>6, <1>7, <1>8, ReadBefore DEF WentOn
<1>10. ReadDisputed(r)
  BY <1>2, <1>4, <1>6, <1>8 DEF ReadDisputed, WentOn
<1>11. StandingFits(r)
  BY <1>6, <1>9, <1>10 DEF StandingFits, WentOn
<1>12. FlowFits(r)
  BY <1>6, <1>11 DEF FlowFits, ComparedOps, WentOn
<1>13. Become(w, r)
  BY <1>1, <1>2, <1>3, <1>5 DEF ReadDisputes, Turn
<1>14. QED
  BY <1>12, <1>13

LEMMA UnsupportedFit ==
  ASSUME NEW w \in Processes, FlowFits(doing[w]), ReadUnsupported(w)
  PROVE  \E d : FlowFits(d) /\ Become(w, d)
<1>1. PICK q : q = doing[w] /\ q.op = "disputed" /\ StandingFits(q)
  BY DEF FlowFits, StandingOps, ReadUnsupported, Turn
<1>2. PICK unsupported : unsupported = {p \in Propositions : LinesOn(p) = {}}
  OBVIOUS
<1>3. PICK reading : reading = [op |-> "unsupported", unsupported |-> unsupported]
  OBVIOUS
<1>4. DOMAIN reading = {"op", "unsupported"} /\ reading.op = "unsupported"
      /\ reading.unsupported = unsupported
  BY <1>3
<1>5. PICK r : r = Noted(q, reading)
  OBVIOUS
<1>6. WentOn(r, q) /\ r.op = "unsupported" /\ DOMAIN r = DOMAIN reading \cup DOMAIN q
  <2>1. /\ "op" \in DOMAIN reading /\ "fresh" \notin DOMAIN reading
        /\ "links" \notin DOMAIN reading /\ "entries" \notin DOMAIN reading
    BY <1>4
  <2>2. WentOn(r, q)
    BY <1>1, <2>1, <1>5, StandingGoesOn
  <2>3. QED
    BY <1>4, <1>5, <2>1, <2>2 DEF Noted
<1>7. /\ ReadMapped(q) /\ {"facts", "bearsOn"} \subseteq DOMAIN q
      /\ ReadSourced(q) /\ "sources" \in DOMAIN q
      /\ ReadDisputed(q) /\ "disputes" \in DOMAIN q
  BY <1>1 DEF StandingFits, StandingOps, ReadMapped, ReadSourced, ReadDisputed
<1>8. /\ r.unsupported = unsupported /\ r.facts = q.facts /\ r.bearsOn = q.bearsOn
      /\ r.sources = q.sources /\ r.disputes = q.disputes
  BY <1>4, <1>5, <1>7 DEF Noted
<1>9. ReadMapped(r) /\ ReadSourced(r) /\ ReadDisputed(r)
  BY <1>6, <1>7, <1>8, ReadBefore DEF WentOn
<1>10. ReadGaps(r)
  BY <1>2, <1>4, <1>6, <1>8 DEF ReadGaps, WentOn
<1>11. StandingFits(r)
  BY <1>6, <1>9, <1>10 DEF StandingFits, WentOn
<1>12. FlowFits(r)
  BY <1>6, <1>11 DEF FlowFits, ComparedOps, WentOn
<1>13. Become(w, r)
  BY <1>1, <1>2, <1>3, <1>5 DEF ReadUnsupported, Turn
<1>14. QED
  BY <1>12, <1>13

\* Every element a proposition is mapped to was listed, if nothing was mapped
\* since: so what bears on no listed element is mapped to none.
LEMMA UnmappedFit ==
  ASSUME NEW w \in Processes, FlowFits(doing[w]), ReadUnmapped(w)
  PROVE  \E d : FlowFits(d) /\ Become(w, d)
<1>1. PICK q : q = doing[w] /\ q.op = "unsupported" /\ StandingFits(q)
  BY DEF FlowFits, StandingOps, ReadUnmapped, Turn
<1>2. PICK unmapped : unmapped = {p \in Propositions :
         LinesOn(p) # {} /\ \A x \in AllElements : <<x, p>> \notin DOMAIN links}
  OBVIOUS
<1>3. PICK reading : reading = [op |-> "stood", unmapped |-> unmapped]
  OBVIOUS
<1>4. DOMAIN reading = {"op", "unmapped"} /\ reading.op = "stood" /\ reading.unmapped = unmapped
  BY <1>3
<1>5. PICK r : r = Noted(q, reading)
  OBVIOUS
<1>6. WentOn(r, q) /\ r.op = "stood" /\ DOMAIN r = DOMAIN reading \cup DOMAIN q
  <2>1. /\ "op" \in DOMAIN reading /\ "fresh" \notin DOMAIN reading
        /\ "links" \notin DOMAIN reading /\ "entries" \notin DOMAIN reading
    BY <1>4
  <2>2. WentOn(r, q)
    BY <1>1, <2>1, <1>5, StandingGoesOn
  <2>3. QED
    BY <1>4, <1>5, <2>1, <2>2 DEF Noted
<1>7. /\ ReadMapped(q) /\ {"facts", "bearsOn"} \subseteq DOMAIN q
      /\ ReadSourced(q) /\ "sources" \in DOMAIN q
      /\ ReadDisputed(q) /\ "disputes" \in DOMAIN q
      /\ ReadGaps(q) /\ "unsupported" \in DOMAIN q
  BY <1>1 DEF StandingFits, StandingOps, ReadMapped, ReadSourced, ReadDisputed, ReadGaps
<1>8. /\ r.unmapped = unmapped /\ r.facts = q.facts /\ r.bearsOn = q.bearsOn
      /\ r.sources = q.sources /\ r.disputes = q.disputes /\ r.unsupported = q.unsupported
  BY <1>4, <1>5, <1>7 DEF Noted
<1>9. ReadMapped(r) /\ ReadSourced(r) /\ ReadDisputed(r) /\ ReadGaps(r)
  BY <1>6, <1>7, <1>8, ReadBefore DEF WentOn
<1>10. Listed(r.entries) \subseteq AllElements
  <2>1. PICK e \in Seq(Entries) : e = r.entries
    BY <1>6 DEF WentOn
  <2>2. ASSUME NEW i \in DOMAIN e PROVE ToSet(e[i].elements) \subseteq AllElements
    <3>1. PICK s \in Seq(AllElements) : s = e[i].elements
      <4>1. e[i] \in Entries
        OBVIOUS
      <4>2. QED
        BY <4>1 DEF Entries
    <3>2. ToSet(s) \subseteq AllElements
      BY DEF ToSet
    <3>3. QED
      BY <3>1, <3>2
  <2>3. QED
    BY <2>1, <2>2 DEF Listed
<1>11. ASSUME Quiet(r), NEW p \in Propositions
       PROVE  (\A x \in AllElements : <<x, p>> \notin DOMAIN links) <=> r.bearsOn[p] = {}
  <2>1. r.bearsOn[p] = {x \in Listed(r.entries) : <<x, p>> \in DOMAIN links} /\ r.links = links
    BY <1>9, <1>11 DEF ReadMapped, Quiet
  <2>2. ASSUME NEW x, <<x, p>> \in DOMAIN links PROVE x \in Listed(r.entries)
    <3>1. PICK k \in DOMAIN r.links : k = <<x, p>>
      BY <2>1, <2>2
    <3>2. k[1] = x
      BY <3>1
    <3>3. QED
      BY <1>6, <3>1, <3>2 DEF WentOn
  <2>3. QED
    BY <1>10, <2>1, <2>2
<1>12. ASSUME Quiet(r) PROVE r.unmapped = {p \in Propositions : LinesOn(p) # {} /\ r.bearsOn[p] = {}}
  BY <1>2, <1>8, <1>11, <1>12
<1>13. ReadStood(r)
  BY <1>4, <1>6, <1>12 DEF ReadStood, WentOn
<1>14. StandingFits(r)
  BY <1>6, <1>9, <1>13 DEF StandingFits, WentOn
<1>15. FlowFits(r)
  BY <1>6, <1>14 DEF FlowFits, ComparedOps, WentOn
<1>16. Become(w, r)
  BY <1>1, <1>2, <1>3, <1>5 DEF ReadUnmapped, Turn
<1>17. QED
  BY <1>15, <1>16

\* A later statement of the comparison knows what the first one listed.
StillListed(r, q) ==
  /\ r = [k \in DOMAIN r |-> r[k]] /\ {"op", "links", "listed"} \subseteq DOMAIN r
  /\ r.links = q.links /\ r.listed = q.listed
  /\ r.listed \in Seq(DOMAIN charges) /\ IsInjective(r.listed) /\ Extends(links, r.links)
  /\ \A k \in DOMAIN r.links : \E i \in DOMAIN r.listed : k[1] \in ElementsOf(r.listed[i])

LEMMA ComparisonGoesOn ==
  ASSUME NEW q, ComparisonFits(q), NEW reading, "op" \in DOMAIN reading,
         "links" \notin DOMAIN reading, "listed" \notin DOMAIN reading,
         NEW r, r = Noted(q, reading)
  PROVE  StillListed(r, q)
<1>1. /\ DOMAIN r = DOMAIN reading \cup DOMAIN q /\ r = [k \in DOMAIN r |-> r[k]]
      /\ \A k \in DOMAIN q : k \notin DOMAIN reading => r[k] = q[k]
  BY DEF Noted
<1>2. {"links", "listed"} \subseteq DOMAIN q
  BY DEF ComparisonFits
<1>3. r.links = q.links /\ r.listed = q.listed /\ {"op", "links", "listed"} \subseteq DOMAIN r
  BY <1>1, <1>2
<1>4. /\ q.listed \in Seq(DOMAIN charges) /\ IsInjective(q.listed) /\ Extends(links, q.links)
      /\ \A k \in DOMAIN q.links : \E i \in DOMAIN q.listed : k[1] \in ElementsOf(q.listed[i])
  BY DEF ComparisonFits
<1>5. QED
  BY <1>1, <1>3, <1>4 DEF StillListed

LEMMA ElementsFit ==
  ASSUME NEW w \in Processes, FlowFits(doing[w]), ReadElements(w)
  PROVE  \E d : FlowFits(d) /\ Become(w, d)
<1>1. PICK q : q = doing[w] /\ q.op = "comparison" /\ ComparisonFits(q)
  BY DEF FlowFits, ComparedOps, ReadElements, Turn
<1>2. PICK elements : elements = [c \in DOMAIN charges |-> charges[c].elements]
  OBVIOUS
<1>3. PICK reading : reading = [op |-> "elements", elements |-> elements]
  OBVIOUS
<1>4. DOMAIN reading = {"op", "elements"} /\ reading.op = "elements" /\ reading.elements = elements
  BY <1>3
<1>5. PICK r : r = Noted(q, reading)
  OBVIOUS
<1>6. StillListed(r, q)
  <2>1. "op" \in DOMAIN reading /\ "links" \notin DOMAIN reading /\ "listed" \notin DOMAIN reading
    BY <1>4
  <2>2. QED
    BY <1>1, <1>5, <2>1, ComparisonGoesOn
<1>7. r.op = "elements" /\ r.elements = elements /\ "elements" \in DOMAIN r
  BY <1>4, <1>5 DEF Noted
<1>8. \A i \in DOMAIN r.listed : r.elements[r.listed[i]] = charges[r.listed[i]].elements
  <2>1. ASSUME NEW i \in DOMAIN r.listed PROVE r.listed[i] \in DOMAIN charges
    BY <1>6 DEF StillListed
  <2>2. QED
    BY <1>2, <1>7, <2>1
<1>9. ComparisonFits(r)
  BY <1>6, <1>7, <1>8 DEF ComparisonFits, StillListed
<1>10. FlowFits(r)
  BY <1>6, <1>7, <1>9 DEF FlowFits, StandingOps, StillListed
<1>11. Become(w, r)
  BY <1>1, <1>2, <1>3, <1>5 DEF ReadElements, Turn
<1>12. QED
  BY <1>10, <1>11

LEMMA AssessmentsFit ==
  ASSUME NEW w \in Processes, FlowFits(doing[w]), ReadAssessments(w)
  PROVE  \E d : FlowFits(d) /\ Become(w, d)
<1>1. PICK q : q = doing[w] /\ q.op = "elements" /\ ComparisonFits(q)
  BY DEF FlowFits, ComparedOps, ReadAssessments, Turn
<1> DEFINE Assessed(x) == [element |-> x, supporting |-> MappedTo(x, "supports"),
                           opposing |-> MappedTo(x, "opposes")]
           Compared(c) == [charge |-> c,
                           elements |-> [i \in DOMAIN q.elements[c] |-> Assessed(q.elements[c][i])]]
<1>2. PICK rows : rows = [i \in DOMAIN q.listed |-> Compared(q.listed[i])]
  OBVIOUS
<1>3. PICK reading : reading = [op |-> "compared", rows |-> rows]
  OBVIOUS
<1>4. DOMAIN reading = {"op", "rows"} /\ reading.op = "compared" /\ reading.rows = rows
  BY <1>3
<1>5. PICK r : r = Noted(q, reading)
  OBVIOUS
<1>6. Become(w, r)
  BY <1>1, <1>2, <1>3, <1>5 DEF ReadAssessments, Turn
<1>7. StillListed(r, q)
  <2>1. "op" \in DOMAIN reading /\ "links" \notin DOMAIN reading /\ "listed" \notin DOMAIN reading
    BY <1>4
  <2>2. QED
    BY <1>1, <1>5, <2>1, ComparisonGoesOn
<1>8. "elements" \in DOMAIN q /\ \A i \in DOMAIN q.listed : q.elements[q.listed[i]] = charges[q.listed[i]].elements
  BY <1>1 DEF ComparisonFits
<1>9. r.op = "compared" /\ r.rows = rows /\ r.elements = q.elements /\ {"rows", "elements"} \subseteq DOMAIN r
  BY <1>4, <1>5, <1>8 DEF Noted
<1>10. ASSUME NEW x PROVE LineFits(Assessed(x), x, q.links)
  <2>1. Extends(links, q.links)
    BY <1>1 DEF ComparisonFits
  <2>2. MappedIn(q.links, x, "supports") \subseteq MappedTo(x, "supports")
    BY <2>1 DEF MappedIn, MappedTo, Extends
  <2>3. MappedIn(q.links, x, "opposes") \subseteq MappedTo(x, "opposes")
    BY <2>1 DEF MappedIn, MappedTo, Extends
  <2>4. QED
    BY <2>2, <2>3 DEF LineFits
<1>11. ASSUME NEW i \in DOMAIN q.listed PROVE RowFits(r, i)
  <2>1. PICK c : c = q.listed[i] /\ q.elements[c] = charges[c].elements
    BY <1>8
  <2>2. rows[i] = Compared(c)
    BY <1>2, <2>1
  <2> HIDE DEF Assessed
  <2>3. /\ rows[i].charge = c /\ DOMAIN rows[i].elements = DOMAIN charges[c].elements
        /\ \A j \in DOMAIN charges[c].elements : rows[i].elements[j] = Assessed(charges[c].elements[j])
    <3>1. PICK s : s = charges[c].elements /\ rows[i] = [charge |-> c, elements |-> [j \in DOMAIN s |-> Assessed(s[j])]]
      BY <2>1, <2>2
    <3>2. rows[i].charge = c /\ rows[i].elements = [j \in DOMAIN s |-> Assessed(s[j])]
      BY <3>1
    <3>3. QED
      BY <3>1, <3>2
  <2> HIDE DEF Compared
  <2>4. \A j \in DOMAIN rows[i].elements : LineFits(rows[i].elements[j], charges[c].elements[j], q.links)
    BY <1>10, <2>3
  <2>5. r.rows[i] = rows[i] /\ r.listed[i] = c /\ r.links = q.links
    BY <1>7, <1>9, <2>1 DEF StillListed
  <2>6. QED
    BY <2>3, <2>4, <2>5 DEF RowFits
<1> HIDE DEF Assessed, Compared
<1>12. DOMAIN rows = DOMAIN q.listed
  BY <1>2
<1>13. ComparisonFits(r)
  BY <1>7, <1>8, <1>9, <1>11, <1>12 DEF ComparisonFits, StillListed
<1>14. FlowFits(r)
  BY <1>7, <1>9, <1>13 DEF FlowFits, StandingOps, StillListed
<1>15. QED
  BY <1>6, <1>14

LEMMA BearingFits ==
  ASSUME NEW w \in Processes, FlowFits(doing[w]), ReadBearing(w)
  PROVE  \E d : FlowFits(d) /\ Become(w, d)
<1>1. PICK q : q = doing[w] /\ q.op = "search" /\ SearchFits(q)
  BY DEF FlowFits, ReadBearing, Turn
<1>2. PICK bears : bears = {e \in ExportedEvidence : Bears[e].passage \in q.hits}
  OBVIOUS
<1>3. PICK reading : reading = [op |-> "found", bears |-> bears]
  OBVIOUS
<1>4. DOMAIN reading = {"op", "bears"} /\ reading.op = "found" /\ reading.bears = bears
  BY <1>3
<1>5. PICK r : r = Noted(q, reading)
  OBVIOUS
<1>6. {"fresh", "hits"} \subseteq DOMAIN q
  BY <1>1 DEF SearchFits
<1>7. r.op = "found" /\ r.bears = bears /\ r.hits = q.hits /\ {"op", "fresh", "hits", "bears"} \subseteq DOMAIN r
  BY <1>4, <1>5, <1>6 DEF Noted
<1>8. r = [k \in DOMAIN r |-> r[k]]
  BY <1>5 DEF Noted
<1>9. SearchFits(r)
  BY <1>2, <1>7 DEF SearchFits
<1>10. FlowFits(r)
  BY <1>7, <1>8, <1>9 DEF FlowFits, StandingOps, ComparedOps
<1>11. Become(w, r)
  BY <1>1, <1>2, <1>3, <1>5 DEF ReadBearing, Turn
<1>12. QED
  BY <1>10, <1>11

\* The workspaces and the dossier: what they read is not what the views agree on.
LEMMA OtherReadingsFit ==
  ASSUME NEW w \in Processes, FlowFits(doing[w]), ReadFollowUps(w) \/ ReadCredibility(w)
  PROVE  \E d : FlowFits(d) /\ Become(w, d)
<1>1. CASE ReadFollowUps(w)
  <2>1. PICK tasks : Become(w, Noted(doing[w], [tasks |-> tasks]))
    BY <1>1 DEF ReadFollowUps, Turn
  <2>2. PICK r : r = Noted(doing[w], [tasks |-> tasks])
    OBVIOUS
  <2>3. doing[w].op = "workspaces" /\ "op" \in DOMAIN doing[w]
    BY <1>1 DEF ReadFollowUps, FlowFits
  <2>4. r = [k \in DOMAIN r |-> r[k]] /\ "op" \in DOMAIN r /\ r.op = "workspaces"
    BY <2>2, <2>3 DEF Noted
  <2>5. FlowFits(r)
    BY <2>4 DEF FlowFits, StandingOps, ComparedOps
  <2>6. QED
    BY <2>1, <2>2, <2>5
<1>2. CASE ReadCredibility(w)
  <2>1. PICK credibility : Become(w, Noted(doing[w], [credibility |-> credibility]))
    BY <1>2 DEF ReadCredibility, Turn
  <2>2. PICK r : r = Noted(doing[w], [credibility |-> credibility])
    OBVIOUS
  <2>3. doing[w].op = "dossier" /\ "op" \in DOMAIN doing[w]
    BY <1>2 DEF ReadCredibility, FlowFits
  <2>4. r = [k \in DOMAIN r |-> r[k]] /\ "op" \in DOMAIN r /\ r.op = "dossier"
    BY <2>2, <2>3 DEF Noted
  <2>5. FlowFits(r)
    BY <2>4 DEF FlowFits, StandingOps, ComparedOps
  <2>6. QED
    BY <2>1, <2>2, <2>5
<1>3. QED
  BY <1>1, <1>2

LEMMA ViewReads ==
  ASSUME ViewInv, NEW w \in Processes, ViewStep(w)
  PROVE  ReadsOn(w)
<1>1. FlowFits(doing[w])
  BY DEF ViewInv
<1>2. UNCHANGED <<briefs, charges, links, reviews>>
  BY DEF ViewStep, ReadMappings, ReadSources, ReadDisputes, ReadUnsupported, ReadUnmapped,
         ReadElements, ReadAssessments, ReadFollowUps, ReadBearing, ReadCredibility, Turn, tables
<1>3. \E d : FlowFits(d) /\ Become(w, d)
  BY <1>1, MappingsFit, SourcesFit, DisputesFit, UnsupportedFit, UnmappedFit,
     ElementsFit, AssessmentsFit, BearingFits, OtherReadingsFit DEF ViewStep
<1>4. QED
  BY <1>2, <1>3 DEF ReadsOn

LEMMA ViewsBegin == ViewInit => ViewInv
<1> SUFFICES ASSUME ViewInit PROVE ViewInv
  OBVIOUS
<1>1. PICK h \in Histories : charges = h.charges /\ links = h.links
  BY DEF ViewInit, Init
<1>2. Charged
  BY <1>1, ViewsAssumption DEF Charged
<1>3. \A k \in DOMAIN links : links[k] \in Assessments
  BY <1>1, ConstantsAssumption
<1>4. BriefsNumbered
  <2>1. DOMAIN briefs = {} /\ briefs = [b \in DOMAIN briefs |-> briefs[b]]
    BY DEF ViewInit, Init, EmptyTable
  <2>2. QED
    BY <2>1 DEF BriefsNumbered, Numbered, BriefsApart
<1>5. doing = [w \in Processes |-> doing[w]] /\ \A w \in Processes : FlowFits(doing[w])
  BY IdleIsFit DEF ViewInit, Init
<1>6. QED
  BY <1>2, <1>3, <1>4, <1>5 DEF ViewInv

LEMMA NothingRead ==
  ASSUME ViewInv, UNCHANGED <<briefs, charges, links, reviews, doing>>
  PROVE  ViewInv'
<1>1. UNCHANGED <<lineState, passageState>>
  BY DEF reviews
<1>2. Charged /\ Charged' /\ BriefsNumbered' /\ \A k \in DOMAIN links' : links'[k] \in Assessments
  BY DEF ViewInv, Charged, BriefsNumbered, Numbered, BriefsApart
<1>3. Extends(charges', charges) /\ Extends(links', links)
  BY NothingLost
<1>4. ASSUME NEW v \in Processes PROVE FlowFits(doing[v])'
  <2>1. PICK x : x = doing[v]
    OBVIOUS
  <2>2. FlowFits(x)
    BY <2>1 DEF ViewInv
  <2>3. FlowFits(x)'
    BY <1>1, <1>2, <1>3, <2>2, FlowKept
  <2>4. doing'[v] = x
    BY <2>1
  <2>5. QED
    BY <2>3, <2>4
<1>5. QED
  BY <1>2, <1>4 DEF ViewInv

LEMMA ViewsGoOn == ViewInv /\ [ViewNext]_viewVars => ViewInv'
<1> SUFFICES ASSUME ViewInv, [ViewNext]_viewVars PROVE ViewInv'
  OBVIOUS
<1>1. ASSUME NEW w \in Processes, Begin(w) \/ Step(w) \/ Finish(w) PROVE ViewInv'
  BY <1>1, WorkBegins, WorkReads, WorkCommits, ReadsOnStep, CommitsStep DEF Step
<1>2. ASSUME NEW e \in Evidence, NEW state, DecideLine(e, state) PROVE ViewInv'
  <2>1. Reviews
    BY <1>2 DEF DecideLine, Reviews, tables
  <2>2. QED
    BY <2>1, ReviewsStep
<1>3. ASSUME NEW c \in Passages, NEW state, DecidePassage(c, state) PROVE ViewInv'
  <2>1. Reviews
    BY <1>3 DEF DecidePassage, Reviews, tables
  <2>2. QED
    BY <2>1, ReviewsStep
<1>4. ASSUME NEW w \in Processes, BeginView(w) \/ ViewStep(w) PROVE ViewInv'
  BY <1>4, ViewBegins, ViewReads, ReadsOnStep
<1>5. ASSUME NEW w, NEW issue, NEW task, LinkFollowUp(w, issue, task) PROVE ViewInv'
  <2>1. UNCHANGED <<briefs, charges, links, reviews, doing>>
    BY <1>5 DEF LinkFollowUp, tables
  <2>2. QED
    BY <2>1, NothingRead
<1>6. CASE UNCHANGED viewVars
  <2>1. UNCHANGED <<briefs, charges, links, reviews, doing>>
    BY <1>6 DEF viewVars, vars, reviews
  <2>2. QED
    BY <2>1, NothingRead
<1>7. QED
  BY <1>1, <1>2, <1>3, <1>4, <1>5, <1>6 DEF ViewNext, Work, Next

\* case_standing, offense_comparison, search, collation_index: what the several
\* statements of a view read is one view, whoever writes the case or decides
\* about it between them, and the index of times and places loses no passage
\* that is in force.
THEOREM ViewsAgreeHolds == ViewSpec => []ViewsAgree
<1>1. ViewInit => ViewInv
  BY ViewsBegin
<1>2. ViewInv /\ [ViewNext]_viewVars => ViewInv'
  BY ViewsGoOn
<1>3. ViewInv => ViewsAgree
  BY InvariantTells
<1>4. QED
  BY <1>1, <1>2, <1>3, PTL DEF ViewSpec


----------------------------------------------------------------------------
(* The digest.  The two folds it is made of: a sequence is gone through and  *)
(* some of it kept, and sentences are added for what nothing was told of.   *)

Keep(kept, x, S) == IF x \in S THEN Append(kept, x) ELSE kept
KeptUp(f, s, S) ==
  f = [I \in SUBSET DOMAIN s |-> IF I = {} THEN << >> ELSE Keep(f[I \ {Max(I)}], s[Max(I)], S)]

\* What Only keeps is what there is of a sequence in a set.
LEMMA OnlyKeeps ==
  ASSUME NEW X, NEW s \in Seq(X), NEW S
  PROVE  Only(s, S) \in Seq(X) /\ ToSet(Only(s, S)) = ToSet(s) \cap S
<1> DEFINE V == Seq(X)
           n == Len(s)
           step == [p \in (1 .. n) \X V |-> Keep(p[2], s[p[1]], S)]
           c == CHOOSE f : KeptUp(f, s, S)
<1>1. n \in Nat /\ DOMAIN s = 1 .. n /\ \A i \in 1 .. n : s[i] \in X
  OBVIOUS
<1>2. Only(s, S) = c[1 .. n]
  BY <1>1 DEF Only, FoldLeft, MapThenFoldSet, KeptUp, Keep
<1>3. << >> \in V
  OBVIOUS
<1>4. \A v \in V, i \in 1 .. n : Keep(v, s[i], S) \in V
  BY <1>1 DEF Keep
<1>5. step \in [(1 .. n) \X V -> V]
  <2>1. ASSUME NEW p \in (1 .. n) \X V PROVE Keep(p[2], s[p[1]], S) \in V
    BY <1>4
  <2>2. QED
    BY <2>1
<1>6. \A k \in 1 .. n, v \in V : step[<<k, v>>] = Keep(v, s[k], S)
  OBVIOUS
<1> HIDE DEF V, n, step, c
<1>7. PICK f \in [SUBSET (1 .. n) -> V] : Folded(f, n, << >>, step)
  BY <1>1, <1>3, <1>5, FoldExists
<1>8. ASSUME NEW I \in SUBSET (1 .. n), I # {}
      PROVE  Max(I) \in 1 .. n /\ I \ {Max(I)} \in SUBSET (1 .. n)
  BY <1>1, <1>8, MaxIsIn
<1>9. KeptUp(f, s, S)
  <2>1. \A I \in SUBSET (1 .. n) :
          f[I] = IF I = {} THEN << >> ELSE Keep(f[I \ {Max(I)}], s[Max(I)], S)
    BY <1>6, <1>7, <1>8 DEF Folded
  <2>2. QED
    BY <1>1, <2>1 DEF KeptUp
<1>10. KeptUp(c, s, S)
  BY <1>9 DEF c
<1>11. \A I \in SUBSET (1 .. n) :
         c[I] = IF I = {} THEN << >> ELSE Keep(c[I \ {Max(I)}], s[Max(I)], S)
  BY <1>1, <1>10 DEF KeptUp
<1> DEFINE First(k) == {s[i] : i \in 1 .. k}
           Good == {k \in 0 .. n : c[1 .. k] \in V /\ ToSet(c[1 .. k]) = First(k) \cap S}
<1>12. 0 \in Good
  <2>1. 1 .. 0 = {} /\ 0 \in 0 .. n /\ First(0) = {}
    BY <1>1
  <2>2. c[1 .. 0] = << >>
    BY <1>11, <2>1
  <2>3. ToSet(<< >>) = {}
    BY DEF ToSet
  <2>4. QED
    BY <1>3, <2>1, <2>2, <2>3
<1>13. ASSUME NEW k \in Nat, k < n, k \in Good PROVE k + 1 \in Good
  <2>1. k + 1 \in 1 .. n /\ k + 1 \in 0 .. n /\ k + 1 \in Nat /\ k + 1 # 0 /\ (k + 1) - 1 = k
    BY <1>1, <1>13
  <2>2. 1 .. (k + 1) \in SUBSET (1 .. n) /\ 1 .. (k + 1) # {}
    BY <1>1, <2>1, Initial
  <2>3. Max(1 .. (k + 1)) = k + 1 /\ (1 .. (k + 1)) \ {k + 1} = 1 .. k
    BY <2>1, UptoMax
  <2>4. c[1 .. (k + 1)] = Keep(c[1 .. k], s[k + 1], S)
    BY <1>11, <2>2, <2>3
  <2>5. First(k + 1) = First(k) \cup {s[k + 1]}
    <3>1. 1 .. (k + 1) = (1 .. k) \cup {k + 1}
      BY <1>13
    <3>2. QED
      BY <3>1
  <2>6. c[1 .. k] \in V /\ ToSet(c[1 .. k]) = First(k) \cap S
    BY <1>13
  <2> HIDE DEF First, Good
  <2>7. PICK v \in V : v = c[1 .. k]
    BY <2>6
  <2>8. Append(v, s[k + 1]) \in Seq(X) /\ ToSet(Append(v, s[k + 1])) = ToSet(v) \cup {s[k + 1]}
    <3>1. v \in Seq(X) /\ s[k + 1] \in X
      BY <1>1, <2>1 DEF V
    <3>2. QED
      BY <3>1, Appended
  <2>9. CASE s[k + 1] \in S
    <3>1. c[1 .. (k + 1)] = Append(v, s[k + 1])
      BY <2>4, <2>7, <2>9 DEF Keep
    <3>2. QED
      BY <2>1, <2>5, <2>6, <2>7, <2>8, <2>9, <3>1 DEF Good, V
  <2>10. CASE s[k + 1] \notin S
    <3>1. c[1 .. (k + 1)] = v
      BY <2>4, <2>7, <2>10 DEF Keep
    <3>2. QED
      BY <2>1, <2>5, <2>6, <2>7, <2>10, <3>1 DEF Good, V
  <2>11. QED
    BY <2>9, <2>10
<1> HIDE DEF Good
<1>14. 0 .. n \subseteq Good
  BY <1>1, <1>12, <1>13, CountingUp
<1>15. c[1 .. n] \in V /\ ToSet(c[1 .. n]) = First(n) \cap S
  <2>1. n \in 0 .. n
    BY <1>1
  <2>2. QED
    BY <1>14, <2>1 DEF Good
<1>16. First(n) = ToSet(s)
  BY <1>1 DEF ToSet
<1>17. QED
  BY <1>2, <1>15, <1>16 DEF V

Sentences == [passage : Passages, line : Evidence]
Spoken(told) == {told[i].passage : i \in DOMAIN told}
ToldUp(f, told, s) ==
  f = [I \in SUBSET DOMAIN s |-> IF I = {} THEN told ELSE Tell(f[I \ {Max(I)}], s[Max(I)])]

\* A sentence is added for a passage nothing was told of yet.
LEMMA TellAdds ==
  ASSUME NEW told \in Seq(Sentences), NEW x, x.passage \in Passages, x.line \in Evidence
  PROVE  Tell(told, x) \in Seq(Sentences) /\ Spoken(Tell(told, x)) = Spoken(told) \cup {x.passage}
<1>1. CASE \E i \in DOMAIN told : told[i].passage = x.passage
  BY <1>1 DEF Tell, Spoken
<1>2. CASE ~ \E i \in DOMAIN told : told[i].passage = x.passage
  <2> DEFINE y == [passage |-> x.passage, line |-> x.line]
  <2>1. y \in Sentences /\ y.passage = x.passage
    BY DEF Sentences
  <2>2. Tell(told, x) = Append(told, y)
    BY <1>2 DEF Tell
  <2> HIDE DEF y
  <2>3. PICK k \in Nat : k = Len(told) /\ DOMAIN told = 1 .. k /\ DOMAIN Append(told, y) = 1 .. k + 1
    BY <2>1
  <2>4. Append(told, y)[k + 1] = y /\ \A j \in 1 .. k : Append(told, y)[j] = told[j]
    BY <2>1, <2>3
  <2>5. \A j \in 1 .. k + 1 : j = k + 1 \/ j \in 1 .. k
    BY <2>3
  <2>6. k + 1 \in 1 .. k + 1 /\ \A j \in 1 .. k : j \in 1 .. k + 1
    BY <2>3
  <2>7. Spoken(Append(told, y)) = Spoken(told) \cup {y.passage}
    BY <2>3, <2>4, <2>5, <2>6 DEF Spoken
  <2>8. QED
    BY <2>1, <2>2, <2>7
<1>3. QED
  BY <1>1, <1>2

\* A passage is told of if it was or if an item is about it.
LEMMA AllAreTold ==
  ASSUME NEW told \in Seq(Sentences), NEW X, NEW s \in Seq(X),
         \A x \in X : x.passage \in Passages /\ x.line \in Evidence
  PROVE  /\ FoldLeft(Tell, told, s) \in Seq(Sentences)
         /\ Spoken(FoldLeft(Tell, told, s)) = Spoken(told) \cup {x.passage : x \in ToSet(s)}
<1> DEFINE V == Seq(Sentences)
           n == Len(s)
           step == [p \in (1 .. n) \X V |-> Tell(p[2], s[p[1]])]
           c == CHOOSE f : ToldUp(f, told, s)
<1>1. n \in Nat /\ DOMAIN s = 1 .. n /\ \A i \in 1 .. n : s[i] \in X
  OBVIOUS
<1>2. FoldLeft(Tell, told, s) = c[1 .. n]
  BY <1>1 DEF FoldLeft, MapThenFoldSet, ToldUp
<1>3. told \in V
  OBVIOUS
<1>4. \A v \in V, i \in 1 .. n :
        Tell(v, s[i]) \in V /\ Spoken(Tell(v, s[i])) = Spoken(v) \cup {s[i].passage}
  <2> SUFFICES ASSUME NEW v \in V, NEW i \in 1 .. n
               PROVE  Tell(v, s[i]) \in V /\ Spoken(Tell(v, s[i])) = Spoken(v) \cup {s[i].passage}
    OBVIOUS
  <2>1. PICK x \in X : x = s[i] /\ x.passage \in Passages /\ x.line \in Evidence
    BY <1>1
  <2>2. Tell(v, x) \in V /\ Spoken(Tell(v, x)) = Spoken(v) \cup {x.passage}
    BY <2>1, TellAdds
  <2>3. QED
    BY <2>1, <2>2
<1>5. step \in [(1 .. n) \X V -> V]
  <2>1. ASSUME NEW p \in (1 .. n) \X V PROVE Tell(p[2], s[p[1]]) \in V
    BY <1>4
  <2>2. QED
    BY <2>1
<1>6. \A k \in 1 .. n, v \in V : step[<<k, v>>] = Tell(v, s[k])
  OBVIOUS
<1> HIDE DEF V, n, step, c
<1>7. PICK f \in [SUBSET (1 .. n) -> V] : Folded(f, n, told, step)
  BY <1>1, <1>3, <1>5, FoldExists
<1>8. ASSUME NEW I \in SUBSET (1 .. n), I # {}
      PROVE  Max(I) \in 1 .. n /\ I \ {Max(I)} \in SUBSET (1 .. n)
  BY <1>1, <1>8, MaxIsIn
<1>9. ToldUp(f, told, s)
  <2>1. \A I \in SUBSET (1 .. n) :
          f[I] = IF I = {} THEN told ELSE Tell(f[I \ {Max(I)}], s[Max(I)])
    BY <1>6, <1>7, <1>8 DEF Folded
  <2>2. QED
    BY <1>1, <2>1 DEF ToldUp
<1>10. ToldUp(c, told, s)
  BY <1>9 DEF c
<1>11. \A I \in SUBSET (1 .. n) :
         c[I] = IF I = {} THEN told ELSE Tell(c[I \ {Max(I)}], s[Max(I)])
  BY <1>1, <1>10 DEF ToldUp
<1> DEFINE First(k) == {s[i].passage : i \in 1 .. k}
           Good == {k \in 0 .. n : c[1 .. k] \in V /\ Spoken(c[1 .. k]) = Spoken(told) \cup First(k)}
<1>12. 0 \in Good
  <2>1. 1 .. 0 = {} /\ 0 \in 0 .. n /\ First(0) = {}
    BY <1>1
  <2>2. c[1 .. 0] = told
    BY <1>11, <2>1
  <2>3. QED
    BY <1>3, <2>1, <2>2
<1>13. ASSUME NEW k \in Nat, k < n, k \in Good PROVE k + 1 \in Good
  <2>1. k + 1 \in 1 .. n /\ k + 1 \in 0 .. n /\ k + 1 \in Nat /\ k + 1 # 0 /\ (k + 1) - 1 = k
    BY <1>1, <1>13
  <2>2. 1 .. (k + 1) \in SUBSET (1 .. n) /\ 1 .. (k + 1) # {}
    BY <1>1, <2>1, Initial
  <2>3. Max(1 .. (k + 1)) = k + 1 /\ (1 .. (k + 1)) \ {k + 1} = 1 .. k
    BY <2>1, UptoMax
  <2>4. c[1 .. (k + 1)] = Tell(c[1 .. k], s[k + 1])
    BY <1>11, <2>2, <2>3
  <2>5. First(k + 1) = First(k) \cup {s[k + 1].passage}
    <3>1. 1 .. (k + 1) = (1 .. k) \cup {k + 1}
      BY <1>13
    <3>2. QED
      BY <3>1
  <2>6. c[1 .. k] \in V /\ Spoken(c[1 .. k]) = Spoken(told) \cup First(k)
    BY <1>13
  <2> HIDE DEF First, Good
  <2>7. QED
    BY <1>4, <2>1, <2>4, <2>5, <2>6 DEF Good
<1> HIDE DEF Good
<1>14. 0 .. n \subseteq Good
  BY <1>1, <1>12, <1>13, CountingUp
<1>15. c[1 .. n] \in V /\ Spoken(c[1 .. n]) = Spoken(told) \cup First(n)
  <2>1. n \in 0 .. n
    BY <1>1
  <2>2. QED
    BY <1>14, <2>1 DEF Good
<1>16. First(n) = {x.passage : x \in ToSet(s)}
  BY <1>1 DEF ToSet
<1>17. QED
  BY <1>2, <1>15, <1>16 DEF V

----------------------------------------------------------------------------
(* What a digest holds between its statements.  Of the passages nobody has   *)
(* written about since it began (all but T), it is what the file holds now.  *)

CurrentItem(e) ==
  ItemOf(RowOf(e), meaning[Bears[e].passage], profile[Original[Bears[e].passage]])

ItemKeys ==
  {"passage", "line", "filed", "stance", "form", "named", "alleged", "date", "place", "rests"}
Alike(x, y) == \A k \in ItemKeys \ {"rests"} : x[k] = y[k]

\* What was read of one relationship to the proposition p.
RowIsSound(r, T, p) ==
  /\ r.line \in Evidence /\ r.passage = Bears[r.line].passage
  /\ r.passage \notin T => r.line \in LinesOn(p) /\ r = RowOf(r.line)
ItemIsSound(x, T, p) ==
  /\ DOMAIN x = ItemKeys /\ x.line \in Evidence /\ x.passage = Bears[x.line].passage
  /\ x.passage \notin T =>
       /\ x.line \in LinesOn(p) /\ Alike(x, CurrentItem(x.line))
       /\ rests[x.passage] = "reviewed" => x.rests \in {None, TRUE}

\* The packet in hand: its items so far and the rows that are to become items.
PacketFits(q, T) ==
  LET p == Head(q.todo)
  IN /\ q.items \in Seq(ToSet(q.items)) /\ q.rows \in Seq(ToSet(q.rows))
     /\ \A x \in ToSet(q.items) : ItemIsSound(x, T, p)
     /\ \A r \in ToSet(q.rows) : RowIsSound(r, T, p)
     /\ \A e \in LinesOn(p) :
          Bears[e].passage \notin T =>
            \/ \E x \in ToSet(q.items) : x.line = e
            \/ \E r \in ToSet(q.rows) : r.line = e

\* Where a relationship to a proposition in D puts its passage.
Belongs(c, s, D) ==
  \E e \in InForce(c) : Bears[e].proposition \in D /\ BelongsTo(s, CurrentItem(e), {})
AtOdds(c, d, D) ==
  \E e \in InForce(c), f \in InForce(d) :
    /\ Bears[e].proposition = Bears[f].proposition /\ Bears[e].proposition \in D
    /\ CurrentItem(e).filed /\ CurrentItem(f).filed
    /\ InConflict({CurrentItem(e), CurrentItem(f)})

Resting(c, D) ==
  /\ rests[c] = "reviewed"
  /\ \E e \in InForce(c) : Bears[e].proposition \in D /\ CurrentItem(e).filed

\* The packets of the propositions in D were told.
TellsOf(told, T, D) ==
  /\ \A s \in Sections : told[s] \in Seq(Sentences)
  /\ \A c \in Passages \ T, s \in Sections \ {"dependencies"} :
       c \in Spoken(told[s]) <=> Belongs(c, s, D)
  /\ \A c, d \in Passages \ T :
       AtOdds(c, d, D) => c \in Spoken(told["dependencies"]) /\ d \in Spoken(told["dependencies"])
  /\ \A c \in Passages \ T : Resting(c, D) => c \in Spoken(told["dependencies"])

PacketOps == {"packet", "read", "lineage"}
DigestOps == {"digest"} \cup PacketOps
DigestFits(q, T) ==
  /\ q.op \in DigestOps \cup {"idle", "digested"} /\ "fresh" \notin DOMAIN q
  /\ q.op \in DigestOps =>
       /\ {"op", "todo", "told"} \subseteq DOMAIN q
       /\ q.todo \in Seq(ToSet(Contested))
       /\ \E D : D \cup ToSet(q.todo) = ToSet(Contested) /\ TellsOf(q.told, T, D)
  /\ q.op \in PacketOps => {"items", "rows"} \subseteq DOMAIN q /\ q.todo # << >> /\ PacketFits(q, T)
  /\ q.op = "read" =>
       /\ "reading" \in DOMAIN q /\ q.rows # << >>
       /\ Head(q.rows).passage \notin T => q.reading = meaning[Head(q.rows).passage]
  /\ q.op = "lineage" => q.items # << >>
  /\ q.op = "digested" => "told" \in DOMAIN q /\ TellsOf(q.told, T, ToSet(Contested))

CaseTyped ==
  /\ lineState = [e \in Evidence |-> lineState[e]]
  /\ passageState = [c \in Passages |-> passageState[c]]
  /\ meaning = [c \in Passages |-> meaning[c]]
  /\ profile = [o \in {Original[c] : c \in Passages} |-> profile[o]]
  /\ rests = [c \in Passages |-> rests[c]]

DigestInv ==
  /\ CaseTyped
  /\ doing = [w \in Processes |-> doing[w]]
  /\ touched = [w \in Processes |-> touched[w]]
  /\ \A w \in Processes : DigestFits(doing[w], touched[w])

----------------------------------------------------------------------------
(* What an invariant digest tells.                                          *)

\* More items are in conflict if fewer are.
LEMMA ConflictGrows ==
  ASSUME NEW X, IsFiniteSet(X), NEW Y, \A y \in Y : \E x \in X : Alike(x, y), InConflict(Y)
  PROVE  InConflict(X)
<1>1. \A x, y : Alike(x, y) =>
        /\ x.filed = y.filed /\ x.date = y.date /\ x.alleged = y.alleged /\ x.place = y.place
  BY DEF Alike, ItemKeys
<1>2. TimesOf(Y) \subseteq TimesOf(X)
  BY <1>1 DEF TimesOf
<1>3. PlacesOf(Y) \subseteq PlacesOf(X)
  BY <1>1 DEF PlacesOf
<1> DEFINE F == {y \in X : y.filed}
<1>4. IsFiniteSet(F)
  BY FS_Subset
<1> HIDE DEF F
<1>5. IsFiniteSet({IF x.date # None THEN x.date ELSE x.alleged : x \in F})
  <2> DEFINE f == [x \in F |-> IF x.date # None THEN x.date ELSE x.alleged]
  <2>1. IsFiniteSet(DOMAIN f) /\ f = [x \in DOMAIN f |-> f[x]]
    BY <1>4
  <2>2. {f[x] : x \in DOMAIN f} = {IF x.date # None THEN x.date ELSE x.alleged : x \in F}
    OBVIOUS
  <2> HIDE DEF f
  <2>3. IsFiniteSet({f[x] : x \in DOMAIN f})
    BY <2>1, ImageIsFinite
  <2>4. QED
    BY <2>2, <2>3
<1>6. IsFiniteSet({x.place : x \in F})
  <2> DEFINE f == [x \in F |-> x.place]
  <2>1. IsFiniteSet(DOMAIN f) /\ f = [x \in DOMAIN f |-> f[x]]
    BY <1>4
  <2>2. {f[x] : x \in DOMAIN f} = {x.place : x \in F}
    OBVIOUS
  <2> HIDE DEF f
  <2>3. IsFiniteSet({f[x] : x \in DOMAIN f})
    BY <2>1, ImageIsFinite
  <2>4. QED
    BY <2>2, <2>3
<1> USE DEF F
<1>7. IsFiniteSet(TimesOf(X)) /\ IsFiniteSet(PlacesOf(X))
  BY <1>5, <1>6, FS_Subset DEF TimesOf, PlacesOf
<1>8. \A S, U : IsFiniteSet(S) /\ U \subseteq S =>
        Cardinality(U) \in Nat /\ Cardinality(S) \in Nat /\ Cardinality(U) <= Cardinality(S)
  BY FS_Subset, FS_CardinalityType
<1>9. QED
  BY <1>2, <1>3, <1>7, <1>8 DEF InConflict

\* The items of a packet go where the relationships they are of would.
LEMMA BelongsAlike ==
  ASSUME NEW x, NEW y, Alike(x, y), NEW s \in Sections \ {"dependencies"}, NEW X, NEW Y
  PROVE  BelongsTo(s, x, X) <=> BelongsTo(s, y, Y)
<1>1. /\ x.filed = y.filed /\ x.date = y.date /\ x.alleged = y.alleged /\ x.passage = y.passage
      /\ x.stance = y.stance /\ x.form = y.form /\ x.named = y.named
  BY DEF Alike, ItemKeys
<1>2. LayerOf(x) = LayerOf(y) /\ Unsettled(x) = Unsettled(y)
  BY <1>1 DEF LayerOf, Unsettled
<1>3. s # "dependencies"
  OBVIOUS
<1>4. QED
  BY <1>1, <1>2, <1>3 DEF BelongsTo

\* An item is filed if somebody checked the relationship and may be spoken from,
\* and the place of a passage in the narrative does not depend on the relationship.
LEMMA ItemTells ==
  ASSUME NEW c \in Passages, NEW e \in InForce(c)
  PROVE  /\ CurrentItem(e).filed <=> e \in Checked(c)
         /\ \A f \in InForce(c) : LayerOf(CurrentItem(e)) = LayerOf(CurrentItem(f))
         /\ LayerOf(CurrentItem(e)) \in Layers \cup {"missing"}
<1>1. \A f \in InForce(c) : f \in Evidence /\ Bears[f].passage = c
  BY DEF InForce
<1>2. CurrentItem(e).filed <=> e \in Checked(c)
  BY <1>1 DEF CurrentItem, ItemOf, RowOf, Checked, MaySpeak
<1>3. ASSUME NEW f \in InForce(c) PROVE LayerOf(CurrentItem(e)) = LayerOf(CurrentItem(f))
  <2>1. CurrentItem(e).stance = CurrentItem(f).stance /\ CurrentItem(e).form = CurrentItem(f).form
    BY <1>1 DEF CurrentItem, ItemOf, RowOf
  <2>2. QED
    BY <2>1 DEF LayerOf
<1>4. LayerOf(CurrentItem(e)) \in Layers \cup {"missing"}
  BY DEF LayerOf, Layers
<1>5. QED
  BY <1>2, <1>3, <1>4

\* What there is in force of a passage for contested propositions.
Contesting(c) == {e \in InForce(c) : Bears[e].proposition \in ToSet(Contested)}

LEMMA DigestTells ==
  ASSUME DigestInv, NEW w \in Processes, doing[w].op = "digested",
         NEW c \in Passages \ touched[w], NEW Places, Places = {s \in Layers : c \in Told(w, s)}
  PROVE  /\ Cardinality(Places) <= 1
         /\ Places # {} => Checked(c) \cap Contesting(c) # {}
         /\ Contesting(c) # {} <=> Places # {} \/ c \in Told(w, "missing")
         /\ Contesting(c) \ Checked(c) # {} => c \in Told(w, "missing")
         /\ c \in Told(w, "links") <=> Checked(c) \cap Contesting(c) # {}
         /\ rests[c] = "reviewed" /\ Checked(c) \cap Contesting(c) # {}
              => c \in Told(w, "dependencies")
<1> DEFINE At(e) == LayerOf(CurrentItem(e))
           D == ToSet(Contested)
<1>1. \A s \in Sections \ {"dependencies"} : c \in Told(w, s) <=> Belongs(c, s, D)
  <2>1. TellsOf(doing[w].told, touched[w], D)
    BY DEF DigestInv, DigestFits
  <2>2. \A s : Told(w, s) = Spoken(doing[w].told[s])
    BY DEF Told, Spoken
  <2>3. QED
    BY <2>1, <2>2 DEF TellsOf
<1>2. Contesting(c) \subseteq InForce(c) /\ \A e \in InForce(c) : e \in Contesting(c) <=> Bears[e].proposition \in D
  BY DEF Contesting
<1>3. \A s : Belongs(c, s, D) <=> \E e \in Contesting(c) : BelongsTo(s, CurrentItem(e), {})
  BY <1>2 DEF Belongs
<1>4. \A e \in Contesting(c) : CurrentItem(e).filed <=> e \in Checked(c)
  BY <1>2, ItemTells
<1>5. \A e, f \in Contesting(c) : At(e) = At(f)
  BY <1>2, ItemTells
<1>6. \A e \in Contesting(c) : At(e) \in Layers \cup {"missing"}
  BY <1>2, ItemTells
<1>7. Layers \subseteq Sections \ {"dependencies"} /\ "missing" \in Sections \ {"dependencies"}
      /\ "links" \in Sections \ {"dependencies"} /\ "missing" \notin Layers
  BY DEF Sections, Layers
<1>8. \A s \in Layers : c \in Told(w, s) <=> \E e \in Contesting(c) : e \in Checked(c) /\ At(e) = s
  <2> SUFFICES ASSUME NEW s \in Layers
               PROVE  c \in Told(w, s) <=> \E e \in Contesting(c) : e \in Checked(c) /\ At(e) = s
    OBVIOUS
  <2>1. \A e : BelongsTo(s, CurrentItem(e), {}) <=> CurrentItem(e).filed /\ At(e) = s
    BY DEF BelongsTo, Layers
  <2>2. QED
    BY <1>1, <1>3, <1>4, <1>7, <2>1
<1>9. c \in Told(w, "missing") <=>
        \E e \in Contesting(c) : e \notin Checked(c) \/ At(e) = "missing" \/ Unsettled(CurrentItem(e))
  <2>1. \A e : BelongsTo("missing", CurrentItem(e), {}) <=>
               ~CurrentItem(e).filed \/ At(e) = "missing" \/ Unsettled(CurrentItem(e))
    BY DEF BelongsTo
  <2>2. QED
    BY <1>1, <1>3, <1>4, <1>7, <2>1
<1>10. c \in Told(w, "links") <=> \E e \in Contesting(c) : e \in Checked(c)
  <2>1. \A e : BelongsTo("links", CurrentItem(e), {}) <=> CurrentItem(e).filed
    BY DEF BelongsTo
  <2>2. QED
    BY <1>1, <1>3, <1>4, <1>7, <2>1
<1> HIDE DEF At
<1>11. Cardinality(Places) <= 1
  <2>1. CASE Places = {}
    <3>1. IsFiniteSet({})
      BY FS_EmptySet
    <3>2. Cardinality(Places) = 0
      BY <2>1, <3>1, FS_EmptySet
    <3>3. QED
      BY <3>2
  <2>2. CASE Places # {}
    <3>1. PICK s : s \in Places
      BY <2>2
    <3>2. Places = {s}
      BY <1>5, <1>8, <3>1
    <3>3. Cardinality({s}) = 1
      BY FS_Singleton
    <3>4. QED
      BY <3>2, <3>3
  <2>3. QED
    BY <2>1, <2>2
<1>12. Places # {} <=> \E e \in Contesting(c) : e \in Checked(c) /\ At(e) \in Layers
  BY <1>8
<1>13. ASSUME rests[c] = "reviewed", Checked(c) \cap Contesting(c) # {}
       PROVE  c \in Told(w, "dependencies")
  <2>1. Resting(c, D)
    BY <1>2, <1>4, <1>13 DEF Resting
  <2>2. TellsOf(doing[w].told, touched[w], D)
    BY DEF DigestInv, DigestFits
  <2>3. Told(w, "dependencies") = Spoken(doing[w].told["dependencies"])
    BY DEF Told, Spoken
  <2>4. QED
    BY <2>1, <2>2, <2>3 DEF TellsOf
<1>14. QED
  BY <1>6, <1>9, <1>10, <1>11, <1>12, <1>13

LEMMA InvariantTellsAll == DigestInv => DigestTellsAll
<1> SUFFICES ASSUME DigestInv, NEW w \in Processes, doing[w].op = "digested"
             PROVE  LET quiet == Passages \ touched[w]
                        Places(c) == {s \in Layers : c \in Told(w, s)}
                    IN /\ \A c \in quiet :
                            /\ Cardinality(Places(c)) <= 1
                            /\ Places(c) # {} => Checked(c) \cap Contesting(c) # {}
                            /\ Contesting(c) # {} <=> Places(c) # {} \/ c \in Told(w, "missing")
                            /\ Contesting(c) \ Checked(c) # {} => c \in Told(w, "missing")
                            /\ c \in Told(w, "links") <=> Checked(c) \cap Contesting(c) # {}
                            /\ rests[c] = "reviewed" /\ Checked(c) \cap Contesting(c) # {}
                                 => c \in Told(w, "dependencies")
                       /\ \A c, d \in quiet :
                            (\E e \in Checked(c), f \in Checked(d) :
                               /\ Bears[e].proposition = Bears[f].proposition
                               /\ Bears[e].proposition \in ToSet(Contested)
                               /\ InConflict({CurrentItem(e), CurrentItem(f)}))
                            => {c, d} \subseteq Told(w, "dependencies")
  BY DEF DigestTellsAll, Contesting, CurrentItem
<1> DEFINE quiet == Passages \ touched[w]
<1>1. \A c \in quiet : \A Places : Places = {s \in Layers : c \in Told(w, s)} =>
        /\ Cardinality(Places) <= 1
        /\ Places # {} => Checked(c) \cap Contesting(c) # {}
        /\ Contesting(c) # {} <=> Places # {} \/ c \in Told(w, "missing")
        /\ Contesting(c) \ Checked(c) # {} => c \in Told(w, "missing")
        /\ c \in Told(w, "links") <=> Checked(c) \cap Contesting(c) # {}
        /\ rests[c] = "reviewed" /\ Checked(c) \cap Contesting(c) # {}
             => c \in Told(w, "dependencies")
  BY DigestTells
<1>2. ASSUME NEW c \in quiet, NEW d \in quiet, NEW e \in Checked(c), NEW f \in Checked(d),
             Bears[e].proposition = Bears[f].proposition,
             Bears[e].proposition \in ToSet(Contested),
             InConflict({CurrentItem(e), CurrentItem(f)})
      PROVE  {c, d} \subseteq Told(w, "dependencies")
  <2>1. TellsOf(doing[w].told, touched[w], ToSet(Contested))
    BY DEF DigestInv, DigestFits
  <2>2. e \in InForce(c) /\ f \in InForce(d)
    BY DEF Checked
  <2>3. CurrentItem(e).filed /\ CurrentItem(f).filed
    BY <2>2, ItemTells
  <2>4. AtOdds(c, d, ToSet(Contested))
    BY <1>2, <2>2, <2>3 DEF AtOdds
  <2>5. Told(w, "dependencies") = Spoken(doing[w].told["dependencies"])
    BY DEF Told, Spoken
  <2>6. QED
    BY <2>1, <2>4, <2>5 DEF TellsOf
<1>3. QED
  BY <1>1, <1>2

----------------------------------------------------------------------------
(* What people write about the passages in S changes nothing else.          *)

Elsewhere(S) ==
  /\ \A e \in Evidence : Bears[e].passage \notin S => lineState'[e] = lineState[e]
  /\ \A c \in Passages \ S :
       /\ passageState'[c] = passageState[c] /\ meaning'[c] = meaning[c]
       /\ profile'[Original[c]] = profile[Original[c]] /\ rests'[c] = rests[c]

LEMMA SameElsewhere ==
  ASSUME NEW S, Elsewhere(S), NEW e \in Evidence, Bears[e].passage \notin S
  PROVE  /\ RowOf(e)' = RowOf(e) /\ CurrentItem(e)' = CurrentItem(e)
         /\ \A p : e \in LinesOn(p)' <=> e \in LinesOn(p)
         /\ \A c : e \in InForce(c)' <=> e \in InForce(c)
<1>1. Bears[e].passage \in Passages \ S
  BY DEF Passages
<1>2. lineState'[e] = lineState[e]
  BY DEF Elsewhere
<1>3. RowOf(e)' = RowOf(e)
  BY <1>1, <1>2 DEF Elsewhere, RowOf
<1>4. CurrentItem(e)' = CurrentItem(e)
  <2> DEFINE c == Bears[e].passage
  <2>1. meaning'[c] = meaning[c] /\ profile'[Original[c]] = profile[Original[c]]
    BY <1>1 DEF Elsewhere
  <2>2. CurrentItem(e)' = ItemOf(RowOf(e)', meaning'[c], profile'[Original[c]])
    BY Zenon DEF CurrentItem
  <2>3. QED
    BY <1>3, <2>1, <2>2 DEF CurrentItem
<1>5. \A p : e \in LinesOn(p)' <=> e \in LinesOn(p)
  BY <1>2 DEF LinesOn
<1>6. \A c : e \in InForce(c)' <=> e \in InForce(c)
  BY <1>2 DEF InForce
<1>7. QED
  BY <1>3, <1>4, <1>5, <1>6

LEMMA ForceElsewhere ==
  ASSUME NEW S, Elsewhere(S), NEW c \in Passages \ S
  PROVE  InForce(c)' = InForce(c) /\ \A e \in InForce(c) : e \in Evidence /\ CurrentItem(e)' = CurrentItem(e)
<1>1. \A e \in Evidence : Bears[e].passage = c => lineState'[e] = lineState[e]
  BY DEF Elsewhere
<1>2. InForce(c)' = InForce(c)
  BY <1>1 DEF InForce
<1>3. \A e \in InForce(c) : e \in Evidence /\ Bears[e].passage \notin S
  BY DEF InForce
<1>4. QED
  BY <1>2, <1>3, SameElsewhere

LEMMA BelongsTells ==
  ASSUME NEW s \in Sections \ {"dependencies"}, NEW x, NEW y, x = y
  PROVE  BelongsTo(s, x, {})' <=> BelongsTo(s, y, {})
BY DEF BelongsTo, LayerOf, Unsettled

LEMMA RowStaysSound ==
  ASSUME NEW S, Elsewhere(S), NEW T, NEW p, NEW r, RowIsSound(r, T, p)
  PROVE  RowIsSound(r, T \cup S, p)'
<1>1. r.line \in Evidence /\ r.passage = Bears[r.line].passage
  BY DEF RowIsSound
<1>2. ASSUME r.passage \notin T \cup S PROVE r.line \in LinesOn(p)' /\ r = RowOf(r.line)'
  <2>1. PICK e \in Evidence : e = r.line /\ Bears[e].passage \notin S
    BY <1>1, <1>2
  <2>2. e \in LinesOn(p) /\ r = RowOf(e)
    BY <1>2, <2>1 DEF RowIsSound
  <2>3. e \in LinesOn(p)' /\ r = RowOf(e)'
    BY <2>1, <2>2, SameElsewhere
  <2>4. QED
    BY <2>1, <2>3 DEF LinesOn, RowOf
<1>3. QED
  BY <1>1, <1>2 DEF RowIsSound

LEMMA ItemStaysSound ==
  ASSUME NEW S, Elsewhere(S), NEW T, NEW p, NEW x, ItemIsSound(x, T, p)
  PROVE  ItemIsSound(x, T \cup S, p)'
<1>1. DOMAIN x = ItemKeys /\ x.line \in Evidence /\ x.passage = Bears[x.line].passage
  BY DEF ItemIsSound
<1>2. ASSUME x.passage \notin T \cup S
      PROVE  /\ x.line \in LinesOn(p)' /\ Alike(x, CurrentItem(x.line)')
             /\ rests'[x.passage] = "reviewed" => x.rests \in {None, TRUE}
  <2>1. PICK e \in Evidence : e = x.line /\ Bears[e].passage \notin S
    BY <1>1, <1>2
  <2>2. /\ e \in LinesOn(p) /\ Alike(x, CurrentItem(e))
        /\ rests[x.passage] = "reviewed" => x.rests \in {None, TRUE}
    BY <1>2, <2>1 DEF ItemIsSound
  <2>3. e \in LinesOn(p)' /\ CurrentItem(e)' = CurrentItem(e)
    BY <2>1, <2>2, SameElsewhere
  <2>4. rests'[x.passage] = rests[x.passage]
    BY <1>1, <1>2 DEF Elsewhere, Passages
  <2>5. QED
    BY <2>1, <2>2, <2>3, <2>4
<1>3. QED
  BY <1>1, <1>2 DEF ItemIsSound, Alike, ItemKeys

LEMMA PacketStays ==
  ASSUME NEW S, Elsewhere(S), NEW T, NEW q, PacketFits(q, T)
  PROVE  PacketFits(q, T \cup S)'
<1> DEFINE p == Head(q.todo)
<1>1. \A x \in ToSet(q.items) : ItemIsSound(x, T \cup S, p)'
  BY ItemStaysSound DEF PacketFits
<1>2. \A r \in ToSet(q.rows) : RowIsSound(r, T \cup S, p)'
  BY RowStaysSound DEF PacketFits
<1>3. ASSUME NEW e \in Evidence, Bears[e].passage \notin T \cup S, e \in LinesOn(p)'
      PROVE  (\E x \in ToSet(q.items) : x.line = e) \/ (\E r \in ToSet(q.rows) : r.line = e)
  <2>1. e \in LinesOn(p)
    BY <1>3, SameElsewhere
  <2>2. QED
    BY <1>3, <2>1 DEF PacketFits
<1>4. \A e \in LinesOn(p)' : e \in Evidence
  BY DEF LinesOn
<1>5. q.items \in Seq(ToSet(q.items)) /\ q.rows \in Seq(ToSet(q.rows))
  BY DEF PacketFits
<1>6. QED
  BY <1>1, <1>2, <1>3, <1>4, <1>5 DEF PacketFits

LEMMA BelongsStays ==
  ASSUME NEW S, Elsewhere(S), NEW D
  PROVE  /\ \A c \in Passages \ S, s \in Sections \ {"dependencies"} :
              Belongs(c, s, D)' <=> Belongs(c, s, D)
         /\ \A c, d \in Passages \ S : AtOdds(c, d, D)' <=> AtOdds(c, d, D)
         /\ \A c \in Passages \ S : Resting(c, D)' <=> Resting(c, D)
<1>1. ASSUME NEW c \in Passages \ S, NEW s \in Sections \ {"dependencies"}
      PROVE  Belongs(c, s, D)' <=> Belongs(c, s, D)
  <2>1. \A e \in InForce(c) : BelongsTo(s, CurrentItem(e)', {}) <=> BelongsTo(s, CurrentItem(e), {})
    BY ForceElsewhere
  <2>2. Belongs(c, s, D)' <=>
          \E e \in InForce(c)' : Bears[e].proposition \in D /\ BelongsTo(s, CurrentItem(e)', {})
    BY Zenon DEF Belongs
  <2>3. QED
    BY <2>1, <2>2, ForceElsewhere DEF Belongs
<1>2. ASSUME NEW c \in Passages \ S, NEW d \in Passages \ S
      PROVE  AtOdds(c, d, D)' <=> AtOdds(c, d, D)
  <2>1. /\ InForce(c)' = InForce(c) /\ InForce(d)' = InForce(d)
        /\ \A e \in InForce(c) : CurrentItem(e)' = CurrentItem(e)
        /\ \A e \in InForce(d) : CurrentItem(e)' = CurrentItem(e)
    BY ForceElsewhere
  <2>2. AtOdds(c, d, D)' <=>
          \E e \in InForce(c)', f \in InForce(d)' :
            /\ Bears[e].proposition = Bears[f].proposition /\ Bears[e].proposition \in D
            /\ CurrentItem(e)'.filed /\ CurrentItem(f)'.filed
            /\ InConflict({CurrentItem(e)', CurrentItem(f)'})
    BY Zenon DEF AtOdds
  <2>3. QED
    BY <2>1, <2>2 DEF AtOdds
<1>3. ASSUME NEW c \in Passages \ S
      PROVE  Resting(c, D)' <=> Resting(c, D)
  <2>1. InForce(c)' = InForce(c) /\ \A e \in InForce(c) : CurrentItem(e)' = CurrentItem(e)
    BY ForceElsewhere
  <2>2. rests'[c] = rests[c]
    BY DEF Elsewhere
  <2>3. Resting(c, D)' <=>
          /\ rests'[c] = "reviewed"
          /\ \E e \in InForce(c)' : Bears[e].proposition \in D /\ CurrentItem(e)'.filed
    BY Zenon DEF Resting
  <2>4. QED
    BY <2>1, <2>2, <2>3 DEF Resting
<1>4. QED
  BY <1>1, <1>2, <1>3

LEMMA ToldStays ==
  ASSUME NEW S, Elsewhere(S), NEW T, NEW told, NEW D, TellsOf(told, T, D)
  PROVE  TellsOf(told, T \cup S, D)'
<1>1. \A s \in Sections : told[s] \in Seq(Sentences)
  BY DEF TellsOf
<1>2. \A c \in Passages \ (T \cup S), s \in Sections \ {"dependencies"} :
        c \in Spoken(told[s]) <=> Belongs(c, s, D)'
  BY BelongsStays DEF TellsOf
<1>3. \A c, d \in Passages \ (T \cup S) :
        AtOdds(c, d, D)' => c \in Spoken(told["dependencies"]) /\ d \in Spoken(told["dependencies"])
  BY BelongsStays DEF TellsOf
<1>4. \A c \in Passages \ (T \cup S) : Resting(c, D)' => c \in Spoken(told["dependencies"])
  BY BelongsStays DEF TellsOf
<1>5. QED
  BY <1>1, <1>2, <1>3, <1>4 DEF TellsOf

\* A digest in hand is as good as it was but for what was written about.
LEMMA DigestStays ==
  ASSUME NEW S, Elsewhere(S), NEW T, NEW q, DigestFits(q, T)
  PROVE  DigestFits(q, T \cup S)'
<1>1. ASSUME q.op \in DigestOps
      PROVE  \E D : D \cup ToSet(q.todo) = ToSet(Contested) /\ TellsOf(q.told, T \cup S, D)'
  <2>1. PICK D : D \cup ToSet(q.todo) = ToSet(Contested) /\ TellsOf(q.told, T, D)
    BY <1>1 DEF DigestFits
  <2>2. TellsOf(q.told, T \cup S, D)'
    BY <2>1, ToldStays
  <2>3. QED
    BY <2>1, <2>2
<1>2. q.op \in PacketOps => PacketFits(q, T \cup S)'
  BY PacketStays DEF DigestFits
<1>3. ASSUME q.op = "read", Head(q.rows).passage \notin T \cup S
      PROVE  q.reading = meaning'[Head(q.rows).passage]
  <2>1. q.reading = meaning[Head(q.rows).passage] /\ Head(q.rows) \in ToSet(q.rows)
    <3>1. PacketFits(q, T) /\ q.rows # << >>
      BY <1>3 DEF DigestFits, PacketOps
    <3>2. q.rows \in Seq(ToSet(q.rows))
      BY <3>1 DEF PacketFits
    <3>3. QED
      BY <1>3, <3>1, <3>2 DEF DigestFits
  <2>2. Head(q.rows).passage \in Passages
    <3>1. PacketFits(q, T)
      BY <1>3 DEF DigestFits, PacketOps
    <3>2. RowIsSound(Head(q.rows), T, Head(q.todo))
      BY <2>1, <3>1 DEF PacketFits
    <3>3. QED
      BY <3>2 DEF RowIsSound, Passages
  <2>3. QED
    BY <1>3, <2>1, <2>2 DEF Elsewhere
<1>4. q.op = "digested" => TellsOf(q.told, T \cup S, ToSet(Contested))'
  BY ToldStays DEF DigestFits
<1>5. QED
  <2> HIDE DEF Elsewhere
  <2>1. /\ q.op \in DigestOps \cup {"idle", "digested"} /\ "fresh" \notin DOMAIN q
        /\ q.op \in DigestOps =>
             {"op", "todo", "told"} \subseteq DOMAIN q /\ q.todo \in Seq(ToSet(Contested))
        /\ q.op \in PacketOps => {"items", "rows"} \subseteq DOMAIN q /\ q.todo # << >>
        /\ q.op = "read" => "reading" \in DOMAIN q /\ q.rows # << >>
        /\ q.op = "lineage" => q.items # << >>
        /\ q.op = "digested" => "told" \in DOMAIN q
    BY DEF DigestFits
  <2>2. QED
    BY <1>1, <1>2, <1>3, <1>4, <2>1, Zenon DEF DigestFits

----------------------------------------------------------------------------
(* The statements of a digest.                                              *)

LEMMA EmptyDigest ==
  ASSUME NEW T, NEW q, q = [op |-> "digest", todo |-> Contested, told |-> [s \in Sections |-> << >>]]
  PROVE  DigestFits(q, T)
<1>1. /\ q.op = "digest" /\ q.todo = Contested /\ q.told = [s \in Sections |-> << >>]
      /\ DOMAIN q = {"op", "todo", "told"}
  OBVIOUS
<1>2. Contested \in Seq(ToSet(Contested))
  BY DigestAssumption DEF ToSet
<1>3. TellsOf(q.told, T, {})
  <2>1. \A s \in Sections : q.told[s] = << >>
    BY <1>1
  <2>2. << >> \in Seq(Sentences) /\ Spoken(<< >>) = {}
    BY DEF Spoken
  <2>3. "dependencies" \in Sections
    BY DEF Sections
  <2>4. \A c, s : ~Belongs(c, s, {})
    BY DEF Belongs
  <2>5. \A c, d : ~AtOdds(c, d, {})
    BY DEF AtOdds
  <2>6. \A c : ~Resting(c, {})
    BY DEF Resting
  <2>7. QED
    BY <2>1, <2>2, <2>3, <2>4, <2>5, <2>6 DEF TellsOf
<1>4. QED
  BY <1>1, <1>2, <1>3 DEF DigestFits, DigestOps, PacketOps

LEMMA RowsFit ==
  ASSUME NEW T, NEW q, DigestFits(q, T), q.op = "digest", q.todo # << >>,
         NEW lines, lines = Only(LineOrder, LinesOn(Head(q.todo))),
         NEW r, r = Noted(q, [op |-> "packet", items |-> << >>,
                              rows |-> [i \in DOMAIN lines |-> RowOf(lines[i])]])
  PROVE  DigestFits(r, T)
<1> DEFINE p == Head(q.todo)
           rows == [i \in DOMAIN lines |-> RowOf(lines[i])]
<1>1. /\ {"op", "todo", "told"} \subseteq DOMAIN q /\ "fresh" \notin DOMAIN q
      /\ q.todo \in Seq(ToSet(Contested))
      /\ \E D : D \cup ToSet(q.todo) = ToSet(Contested) /\ TellsOf(q.told, T, D)
  BY DEF DigestFits, DigestOps
<1> HIDE DEF rows
<1>2. /\ r.op = "packet" /\ r.items = << >> /\ r.rows = rows /\ r.todo = q.todo /\ r.told = q.told
      /\ DOMAIN r = {"op", "items", "rows"} \cup DOMAIN q
  BY <1>1 DEF Noted, rows
<1> USE DEF rows
<1>3. lines \in Seq(Evidence) /\ ToSet(lines) = LinesOn(p)
  <2>1. LineOrder \in Seq(Evidence) /\ ToSet(LineOrder) = Evidence
    BY DigestAssumption
  <2>2. lines \in Seq(Evidence) /\ ToSet(lines) = ToSet(LineOrder) \cap LinesOn(p)
    BY <2>1, OnlyKeeps
  <2>3. LinesOn(p) \subseteq Evidence
    BY DEF LinesOn
  <2>4. QED
    BY <2>1, <2>2, <2>3
<1>4. /\ rows \in Seq(ToSet(rows)) /\ ToSet(rows) = {RowOf(e) : e \in LinesOn(p)}
  <2>1. PICK n \in Nat : DOMAIN lines = 1 .. n
    BY <1>3
  <2>2. DOMAIN rows = 1 .. n /\ \A i \in 1 .. n : rows[i] = RowOf(lines[i])
    BY <2>1
  <2>3. ToSet(rows) = {RowOf(lines[i]) : i \in 1 .. n} /\ ToSet(lines) = {lines[i] : i \in 1 .. n}
    BY <2>1, <2>2 DEF ToSet
  <2>4. rows \in Seq(ToSet(rows))
    BY <2>1, <2>2 DEF ToSet
  <2>5. QED
    BY <1>3, <2>3, <2>4
<1> HIDE DEF rows
<1>5. PacketFits(r, T)
  <2>1. \A e \in LinesOn(p) : RowIsSound(RowOf(e), T, p) /\ RowOf(e).line = e
    BY DEF RowIsSound, RowOf, LinesOn
  <2>2. ToSet(<< >>) = {} /\ << >> \in Seq({})
    BY DEF ToSet
  <2>3. r.items \in Seq(ToSet(r.items)) /\ \A x \in ToSet(r.items) : ItemIsSound(x, T, p)
    BY <1>2, <2>2
  <2>4. r.rows \in Seq(ToSet(r.rows)) /\ \A x \in ToSet(r.rows) : RowIsSound(x, T, p)
    BY <1>2, <1>4, <2>1
  <2>5. \A e \in LinesOn(p) : \E x \in ToSet(r.rows) : x.line = e
    BY <1>2, <1>4, <2>1
  <2>6. p = Head(r.todo)
    BY <1>2
  <2> HIDE DEF p
  <2>7. QED
    BY <2>3, <2>4, <2>5, <2>6 DEF PacketFits
<1>6. QED
  BY <1>1, <1>2, <1>5 DEF DigestFits, DigestOps, PacketOps

LEMMA ReadingFits ==
  ASSUME NEW T, NEW q, DigestFits(q, T), q.op = "packet", q.rows # << >>,
         NEW r, r = Noted(q, [op |-> "read", reading |-> meaning[Head(q.rows).passage]])
  PROVE  DigestFits(r, T)
<1>1. /\ {"op", "todo", "told", "items", "rows"} \subseteq DOMAIN q /\ "fresh" \notin DOMAIN q
      /\ q.todo \in Seq(ToSet(Contested)) /\ q.todo # << >> /\ PacketFits(q, T)
      /\ \E D : D \cup ToSet(q.todo) = ToSet(Contested) /\ TellsOf(q.told, T, D)
  BY DEF DigestFits, DigestOps, PacketOps
<1>2. /\ r.op = "read" /\ r.reading = meaning[Head(q.rows).passage] /\ r.items = q.items
      /\ r.rows = q.rows /\ r.todo = q.todo /\ r.told = q.told
      /\ DOMAIN r = {"op", "reading"} \cup DOMAIN q
  BY <1>1 DEF Noted
<1>3. PacketFits(r, T)
  BY <1>1, <1>2 DEF PacketFits
<1>4. QED
  BY <1>1, <1>2, <1>3 DEF DigestFits, DigestOps, PacketOps

LEMMA HeadAndTail ==
  ASSUME NEW X, NEW s \in Seq(X), s # << >>
  PROVE  /\ Head(s) \in X /\ Tail(s) \in Seq(X) /\ ToSet(s) = {Head(s)} \cup ToSet(Tail(s))
<1>1. PICK n \in Nat : Len(s) = n + 1 /\ DOMAIN s = 1 .. n + 1
  <2>1. Len(s) \in Nat /\ Len(s) # 0 /\ DOMAIN s = 1 .. Len(s)
    OBVIOUS
  <2>2. Len(s) - 1 \in Nat /\ Len(s) = (Len(s) - 1) + 1
    BY <2>1
  <2>3. QED
    BY <2>1, <2>2
<1>2. Head(s) = s[1] /\ Tail(s) \in Seq(X) /\ DOMAIN Tail(s) = 1 .. n
      /\ \A i \in 1 .. n : Tail(s)[i] = s[i + 1]
  BY <1>1
<1>3. \A i \in 1 .. n + 1 : i = 1 \/ (i - 1 \in 1 .. n /\ (i - 1) + 1 = i)
  BY <1>1
<1>4. 1 \in 1 .. n + 1 /\ \A i \in 1 .. n : i + 1 \in 1 .. n + 1
  BY <1>1
<1>5. s[1] \in X
  BY <1>1, <1>4
<1>6. ToSet(s) \subseteq {s[1]} \cup ToSet(Tail(s))
  <2> SUFFICES ASSUME NEW i \in 1 .. n + 1 PROVE s[i] = s[1] \/ s[i] \in ToSet(Tail(s))
    BY <1>1 DEF ToSet
  <2>1. CASE i = 1
    BY <2>1
  <2>2. CASE i # 1
    <3>1. i - 1 \in 1 .. n /\ (i - 1) + 1 = i
      BY <1>3, <2>2
    <3>2. Tail(s)[i - 1] = s[i]
      BY <1>2, <3>1
    <3>3. QED
      BY <1>2, <3>1, <3>2 DEF ToSet
  <2>3. QED
    BY <2>1, <2>2
<1>7. {s[1]} \cup ToSet(Tail(s)) \subseteq ToSet(s)
  BY <1>1, <1>2, <1>4 DEF ToSet
<1>8. QED
  BY <1>2, <1>5, <1>6, <1>7

LEMMA SeqOfItsOwn ==
  ASSUME NEW X, NEW s \in Seq(X)
  PROVE  s \in Seq(ToSet(s)) /\ ToSet(s) \subseteq X
<1>1. PICK n \in Nat : DOMAIN s = 1 .. n /\ n = Len(s)
  OBVIOUS
<1>2. ToSet(s) = {s[i] : i \in 1 .. n}
  BY <1>1 DEF ToSet
<1>3. QED
  BY <1>1, <1>2

LEMMA ItemIsRead ==
  ASSUME NEW T, NEW p, NEW row, RowIsSound(row, T, p), NEW reading,
         row.passage \notin T => reading = meaning[row.passage],
         NEW default, default = profile[Original[row.passage]],
         NEW x, x = ItemOf(row, reading, default)
  PROVE  ItemIsSound(x, T, p) /\ x.line = row.line
<1>1. DOMAIN x = ItemKeys /\ x.line = row.line /\ x.passage = row.passage /\ x.rests = None
  BY DEF ItemOf, ItemKeys
<1>2. ASSUME row.passage \notin T PROVE row.line \in LinesOn(p) /\ x = CurrentItem(row.line)
  BY <1>2 DEF RowIsSound, CurrentItem
<1>3. \A y : Alike(y, y)
  BY DEF Alike
<1>4. QED
  BY <1>1, <1>2, <1>3 DEF RowIsSound, ItemIsSound

LEMMA NextItem ==
  ASSUME NEW T, NEW q, DigestFits(q, T), q.op = "read", NEW row, row = Head(q.rows),
         NEW reading, reading = q.reading, NEW default, default = profile[Original[row.passage]],
         NEW x, x = ItemOf(row, reading, default)
  PROVE  ItemIsSound(x, T, Head(q.todo)) /\ x.line = row.line
<1>1. PICK p : p = Head(q.todo)
  OBVIOUS
<1>2. /\ row.passage \notin T => reading = meaning[row.passage]
      /\ PacketFits(q, T) /\ q.rows # << >>
  BY DEF DigestFits, PacketOps
<1>3. q.rows \in Seq(ToSet(q.rows)) /\ \A y \in ToSet(q.rows) : RowIsSound(y, T, p)
  BY <1>1, <1>2 DEF PacketFits
<1>4. row \in ToSet(q.rows)
  BY <1>2, <1>3, HeadAndTail
<1>5. RowIsSound(row, T, p)
  BY <1>3, <1>4
<1>6. QED
  BY <1>1, <1>2, <1>5, ItemIsRead

LEMMA ItemFits ==
  ASSUME NEW T, NEW q, DigestFits(q, T), q.op = "read",
         NEW row, row = Head(q.rows),
         NEW x, ItemIsSound(x, T, Head(q.todo)), x.line = row.line,
         NEW r, r = Noted(q, [op |-> "lineage", rows |-> Tail(q.rows), reading |-> None,
                              items |-> Append(q.items, x)])
  PROVE  DigestFits(r, T)
<1>0. PICK p : p = Head(q.todo)
  OBVIOUS
<1>1. /\ {"op", "todo", "told", "items", "rows"} \subseteq DOMAIN q /\ "fresh" \notin DOMAIN q
      /\ q.todo \in Seq(ToSet(Contested)) /\ q.todo # << >> /\ PacketFits(q, T) /\ q.rows # << >>
      /\ \E D : D \cup ToSet(q.todo) = ToSet(Contested) /\ TellsOf(q.told, T, D)
  BY DEF DigestFits, DigestOps, PacketOps
<1>2. /\ r.op = "lineage" /\ r.items = Append(q.items, x)
      /\ r.rows = Tail(q.rows) /\ r.todo = q.todo /\ r.told = q.told
      /\ DOMAIN r = {"op", "reading", "rows", "items"} \cup DOMAIN q
  BY <1>1 DEF Noted
<1>3. /\ q.items \in Seq(ToSet(q.items)) /\ q.rows \in Seq(ToSet(q.rows))
      /\ \A y \in ToSet(q.items) : ItemIsSound(y, T, p)
      /\ \A y \in ToSet(q.rows) : RowIsSound(y, T, p)
      /\ \A e \in LinesOn(p) :
           Bears[e].passage \notin T =>
             \/ \E y \in ToSet(q.items) : y.line = e
             \/ \E y \in ToSet(q.rows) : y.line = e
  BY <1>0, <1>1 DEF PacketFits
<1>4. ToSet(q.rows) = {row} \cup ToSet(r.rows) /\ r.rows \in Seq(ToSet(r.rows))
  <2>1. Tail(q.rows) \in Seq(ToSet(q.rows)) /\ ToSet(q.rows) = {row} \cup ToSet(Tail(q.rows))
    BY <1>1, <1>3, HeadAndTail
  <2>2. PICK t \in Seq(ToSet(q.rows)) : t = Tail(q.rows)
    BY <2>1
  <2>3. t \in Seq(ToSet(t))
    BY SeqOfItsOwn
  <2>4. QED
    BY <1>2, <2>1, <2>2, <2>3
<1>5. ToSet(r.items) = ToSet(q.items) \cup {x} /\ r.items \in Seq(ToSet(r.items))
  <2>1. ToSet(Append(q.items, x)) = ToSet(q.items) \cup {x}
    BY <1>3, Appended
  <2>2. Append(q.items, x) \in Seq(ToSet(q.items) \cup {x})
    BY <1>3
  <2>3. QED
    BY <1>2, <2>1, <2>2
<1>6. ItemIsSound(x, T, p) /\ x.line = row.line
  BY <1>0
<1>7. PacketFits(r, T)
  <2>1. p = Head(r.todo)
    BY <1>0, <1>2
  <2>2. \A y \in ToSet(r.items) : ItemIsSound(y, T, p)
    BY <1>3, <1>5, <1>6
  <2>3. \A y \in ToSet(r.rows) : RowIsSound(y, T, p)
    BY <1>3, <1>4
  <2>4. \A e \in LinesOn(p) :
          Bears[e].passage \notin T =>
            \/ \E y \in ToSet(r.items) : y.line = e
            \/ \E y \in ToSet(r.rows) : y.line = e
    BY <1>3, <1>4, <1>5, <1>6
  <2>5. QED
    BY <1>4, <1>5, <2>1, <2>2, <2>3, <2>4 DEF PacketFits
<1>8. r.items # << >>
  <2>1. ToSet(<< >>) = {}
    BY DEF ToSet
  <2>2. x \in ToSet(r.items)
    BY <1>5
  <2>3. QED
    BY <2>1, <2>2
<1>9. QED
  BY <1>1, <1>2, <1>7, <1>8 DEF DigestFits, DigestOps, PacketOps

LEMMA AnswerFits ==
  ASSUME NEW T, NEW q, DigestFits(q, T), q.op \in {"packet", "lineage"},
         NEW i \in DOMAIN q.items, NEW answer,
         rests[q.items[i].passage] = "reviewed" => answer \in {None, TRUE},
         NEW r, r = Noted(q, [op |-> "packet", items |-> [q.items EXCEPT ![i].rests = answer]])
  PROVE  DigestFits(r, T)
<1> DEFINE p == Head(q.todo)
           x == q.items[i]
           y == [x EXCEPT !.rests = answer]
<1>1. /\ {"op", "todo", "told", "items", "rows"} \subseteq DOMAIN q /\ "fresh" \notin DOMAIN q
      /\ q.todo \in Seq(ToSet(Contested)) /\ q.todo # << >> /\ PacketFits(q, T)
      /\ \E D : D \cup ToSet(q.todo) = ToSet(Contested) /\ TellsOf(q.told, T, D)
  BY DEF DigestFits, DigestOps, PacketOps
<1>2. /\ r.op = "packet" /\ r.items = [q.items EXCEPT ![i] = y]
      /\ r.rows = q.rows /\ r.todo = q.todo /\ r.told = q.told
      /\ DOMAIN r = DOMAIN q
  BY <1>1 DEF Noted
<1>3. /\ q.items \in Seq(ToSet(q.items)) /\ q.rows \in Seq(ToSet(q.rows))
      /\ \A z \in ToSet(q.items) : ItemIsSound(z, T, p)
      /\ \A z \in ToSet(q.rows) : RowIsSound(z, T, p)
      /\ \A e \in LinesOn(p) :
           Bears[e].passage \notin T =>
             \/ \E z \in ToSet(q.items) : z.line = e
             \/ \E z \in ToSet(q.rows) : z.line = e
  BY <1>1 DEF PacketFits
<1>4. x \in ToSet(q.items) /\ ItemIsSound(x, T, p)
  BY <1>3 DEF ToSet
<1>5. DOMAIN y = ItemKeys /\ \A k \in ItemKeys \ {"rests"} : y[k] = x[k]
  BY <1>4 DEF ItemIsSound
<1>6. y.rests = answer
  BY <1>4 DEF ItemIsSound, ItemKeys
<1>7. y.line = x.line /\ y.passage = x.passage /\ \A z : Alike(x, z) => Alike(y, z)
  BY <1>5 DEF Alike, ItemKeys
<1>8. ItemIsSound(y, T, p)
  BY <1>4, <1>5, <1>7, <1>6 DEF ItemIsSound
<1> HIDE DEF x, y
<1>9. /\ r.items \in Seq(ToSet(r.items)) /\ ToSet(r.items) \subseteq ToSet(q.items) \cup {y}
      /\ \A z \in ToSet(q.items) : z = x \/ z \in ToSet(r.items)
      /\ y \in ToSet(r.items)
  <2>1. PICK n \in Nat : DOMAIN q.items = 1 .. n /\ n = Len(q.items)
    BY <1>3
  <2>2. DOMAIN r.items = 1 .. n /\ r.items[i] = y /\ \A j \in 1 .. n : j # i => r.items[j] = q.items[j]
    BY <1>2, <2>1
  <2>3. \A j \in 1 .. n : r.items[j] \in ToSet(q.items) \cup {y}
    BY <2>1, <2>2 DEF ToSet
  <2>4. r.items \in Seq(ToSet(q.items) \cup {y})
    <3>1. r.items = [j \in 1 .. n |-> r.items[j]]
      BY <1>2, <2>1, <2>2
    <3>2. QED
      BY <2>3, <3>1
  <2>5. r.items \in Seq(ToSet(r.items)) /\ ToSet(r.items) \subseteq ToSet(q.items) \cup {y}
    BY <2>4, SeqOfItsOwn
  <2>6. q.items[i] = x
    BY DEF x
  <2>7. QED
    BY <2>1, <2>2, <2>5, <2>6 DEF ToSet
<1>10. PacketFits(r, T)
  <2>1. p = Head(r.todo)
    BY <1>2
  <2> HIDE DEF p
  <2>2. \A z \in ToSet(r.items) : ItemIsSound(z, T, p)
    BY <1>3, <1>8, <1>9
  <2>3. r.rows \in Seq(ToSet(r.rows)) /\ \A z \in ToSet(r.rows) : RowIsSound(z, T, p)
    BY <1>2, <1>3
  <2>4. \A e \in LinesOn(p) :
          Bears[e].passage \notin T =>
            \/ \E z \in ToSet(r.items) : z.line = e
            \/ \E z \in ToSet(r.rows) : z.line = e
    BY <1>2, <1>3, <1>7, <1>9
  <2>5. QED
    BY <1>9, <2>1, <2>2, <2>3, <2>4 DEF PacketFits
<1>11. QED
  BY <1>1, <1>2, <1>10 DEF DigestFits, DigestOps, PacketOps

LEMMA BothAreThere ==
  ASSUME NEW X, NEW s \in Seq(X), NEW t \in Seq(X)
  PROVE  s \o t \in Seq(X) /\ ToSet(s \o t) = ToSet(s) \cup ToSet(t)
<1>1. PICK m, n \in Nat : m = Len(s) /\ n = Len(t) /\ DOMAIN s = 1 .. m /\ DOMAIN t = 1 .. n
  OBVIOUS
<1>2. /\ s \o t \in Seq(X) /\ DOMAIN (s \o t) = 1 .. m + n
      /\ \A i \in 1 .. m + n : (s \o t)[i] = IF i <= m THEN s[i] ELSE t[i - m]
  BY <1>1
<1> DEFINE both == s \o t
<1> HIDE DEF both
<1>3. DOMAIN both = 1 .. m + n /\ \A i \in 1 .. m + n : both[i] = IF i <= m THEN s[i] ELSE t[i - m]
  BY <1>2 DEF both
<1>4. ASSUME NEW i \in 1 .. m + n PROVE both[i] \in ToSet(s) \cup ToSet(t)
  <2>1. CASE i <= m
    <3>1. i \in 1 .. m /\ both[i] = s[i]
      BY <1>1, <1>3, <2>1
    <3>2. QED
      BY <1>1, <3>1 DEF ToSet
  <2>2. CASE ~(i <= m)
    <3>1. i - m \in 1 .. n /\ both[i] = t[i - m]
      BY <1>1, <1>3, <2>2
    <3>2. QED
      BY <1>1, <3>1 DEF ToSet
  <2>3. QED
    BY <2>1, <2>2
<1>5. \A i \in 1 .. m : i \in 1 .. m + n /\ both[i] = s[i]
  BY <1>1, <1>3
<1>6. ASSUME NEW i \in 1 .. n PROVE m + i \in 1 .. m + n /\ both[m + i] = t[i]
  <2>1. m + i \in 1 .. m + n /\ ~(m + i <= m) /\ (m + i) - m = i
    BY <1>1
  <2>2. QED
    BY <1>3, <2>1
<1>7. ToSet(both) = ToSet(s) \cup ToSet(t)
  <2>1. ToSet(both) \subseteq ToSet(s) \cup ToSet(t)
    BY <1>3, <1>4 DEF ToSet
  <2>2. ToSet(s) \subseteq ToSet(both)
    BY <1>1, <1>3, <1>5 DEF ToSet
  <2>3. ToSet(t) \subseteq ToSet(both)
    BY <1>1, <1>3, <1>6 DEF ToSet
  <2>4. QED
    BY <2>1, <2>2, <2>3
<1>8. QED
  BY <1>2, <1>7 DEF both

LEMMA InOrderTells ==
  ASSUME NEW X, NEW items \in Seq(X), NEW s \in Sections
  PROVE  /\ InOrder(s, items) \in Seq(X)
         /\ ToSet(InOrder(s, items)) = {x \in ToSet(items) : BelongsTo(s, x, ToSet(items))}
<1> DEFINE there == {x \in ToSet(items) : BelongsTo(s, x, ToSet(items))}
           resting == {x \in there : x.rests}
<1>1. there \subseteq ToSet(items) /\ resting \subseteq there
  OBVIOUS
<1>2. InOrder(s, items) = IF s # "dependencies" THEN Only(items, there)
                          ELSE Only(items, resting) \o Only(items, there \ resting)
  BY DEF InOrder
<1> HIDE DEF there, resting
<1>3. \A S : Only(items, S) \in Seq(X) /\ ToSet(Only(items, S)) = ToSet(items) \cap S
  BY OnlyKeeps
<1>4. CASE s # "dependencies"
  <2>1. Only(items, there) \in Seq(X) /\ ToSet(Only(items, there)) = there
    BY <1>1, <1>3
  <2>2. QED
    BY <1>2, <1>4, <2>1 DEF there
<1>5. CASE s = "dependencies"
  <2>1. PICK a, b \in Seq(X) :
          a = Only(items, resting) /\ ToSet(a) = resting
          /\ b = Only(items, there \ resting) /\ ToSet(b) = there \ resting
    <3>1. ToSet(items) \cap resting = resting /\ ToSet(items) \cap (there \ resting) = there \ resting
      BY <1>1
    <3>2. QED
      BY <1>3, <3>1
  <2>2. a \o b \in Seq(X) /\ ToSet(a \o b) = ToSet(a) \cup ToSet(b)
    BY BothAreThere
  <2>3. ToSet(a \o b) = there
    BY <1>1, <2>1, <2>2
  <2>4. QED
    BY <1>2, <1>5, <2>1, <2>2, <2>3 DEF there
<1>6. QED
  BY <1>4, <1>5

\* The sentences of a packet join those of the packets before.
LEMMA SectionIsTold ==
  ASSUME NEW told \in Seq(Sentences), NEW s \in Sections, NEW items, items \in Seq(ToSet(items)),
         \A x \in ToSet(items) : x.line \in Evidence /\ x.passage = Bears[x.line].passage,
         NEW new, new = FoldLeft(Tell, told, InOrder(s, items))
  PROVE  /\ new \in Seq(Sentences)
         /\ \A c : c \in Spoken(new) <=>
              \/ c \in Spoken(told)
              \/ \E x \in ToSet(items) : x.passage = c /\ BelongsTo(s, x, ToSet(items))
<1>1. PICK X : X = ToSet(items)
  OBVIOUS
<1>2. items \in Seq(X) /\ \A x \in X : x.passage \in Passages /\ x.line \in Evidence
  BY <1>1 DEF Passages
<1>3. PICK ordered \in Seq(X) :
        ordered = InOrder(s, items) /\ ToSet(ordered) = {x \in X : BelongsTo(s, x, X)}
  BY <1>1, <1>2, InOrderTells
<1>4. /\ FoldLeft(Tell, told, ordered) \in Seq(Sentences)
      /\ Spoken(FoldLeft(Tell, told, ordered)) = Spoken(told) \cup {x.passage : x \in ToSet(ordered)}
  BY <1>2, AllAreTold
<1>5. new \in Seq(Sentences) /\ Spoken(new) = Spoken(told) \cup {x.passage : x \in ToSet(ordered)}
  BY <1>3, <1>4
<1>6. QED
  BY <1>1, <1>3, <1>5

\* A packet that is complete puts a passage where its relationships put it.
LEMMA PacketPlaces ==
  ASSUME NEW T, NEW q, PacketFits(q, T), q.rows = << >>, NEW p, p = Head(q.todo),
         NEW c \in Passages \ T, NEW s \in Sections \ {"dependencies"}
  PROVE  (\E x \in ToSet(q.items) : x.passage = c /\ BelongsTo(s, x, ToSet(q.items)))
           <=> \E e \in LinesOn(p) : Bears[e].passage = c /\ BelongsTo(s, CurrentItem(e), {})
<1>1. /\ \A x \in ToSet(q.items) : ItemIsSound(x, T, p)
      /\ \A e \in LinesOn(p) :
           Bears[e].passage \notin T =>
             \/ \E x \in ToSet(q.items) : x.line = e
             \/ \E r \in ToSet(q.rows) : r.line = e
  BY DEF PacketFits
<1>2. ToSet(q.rows) = {}
  BY DEF ToSet
<1>3. ASSUME NEW x \in ToSet(q.items), x.passage = c
      PROVE  x.line \in LinesOn(p) /\ Bears[x.line].passage = c
             /\ (BelongsTo(s, x, ToSet(q.items)) <=> BelongsTo(s, CurrentItem(x.line), {}))
  <2>1. x.line \in LinesOn(p) /\ Alike(x, CurrentItem(x.line)) /\ Bears[x.line].passage = c
    BY <1>1, <1>3 DEF ItemIsSound
  <2>2. QED
    BY <2>1, BelongsAlike
<1>4. ASSUME NEW e \in LinesOn(p), Bears[e].passage = c
      PROVE  \E x \in ToSet(q.items) : x.line = e /\ x.passage = c
  <2>1. PICK x \in ToSet(q.items) : x.line = e
    BY <1>1, <1>2, <1>4 DEF LinesOn
  <2>2. x.passage = Bears[x.line].passage
    BY <1>1 DEF ItemIsSound
  <2>3. QED
    BY <1>4, <2>1, <2>2
<1>5. QED
  BY <1>3, <1>4

\* Two passages at odds in one packet are both among its dependencies.
LEMMA PacketConflicts ==
  ASSUME NEW T, NEW q, PacketFits(q, T), q.rows = << >>, NEW p, p = Head(q.todo),
         NEW e \in LinesOn(p), Bears[e].passage \notin T,
         NEW f \in LinesOn(p), Bears[f].passage \notin T,
         CurrentItem(e).filed, CurrentItem(f).filed,
         InConflict({CurrentItem(e), CurrentItem(f)})
  PROVE  /\ \E x \in ToSet(q.items) :
              x.passage = Bears[e].passage /\ BelongsTo("dependencies", x, ToSet(q.items))
         /\ \E x \in ToSet(q.items) :
              x.passage = Bears[f].passage /\ BelongsTo("dependencies", x, ToSet(q.items))
<1>1. /\ q.items \in Seq(ToSet(q.items)) /\ \A x \in ToSet(q.items) : ItemIsSound(x, T, p)
      /\ \A g \in LinesOn(p) :
           Bears[g].passage \notin T =>
             \/ \E x \in ToSet(q.items) : x.line = g
             \/ \E r \in ToSet(q.rows) : r.line = g
  BY DEF PacketFits
<1>2. ToSet(q.rows) = {}
  BY DEF ToSet
<1>3. PICK x \in ToSet(q.items) : x.line = e
  BY <1>1, <1>2
<1>4. PICK y \in ToSet(q.items) : y.line = f
  BY <1>1, <1>2
<1>5. /\ x.passage = Bears[e].passage /\ Alike(x, CurrentItem(e))
      /\ y.passage = Bears[f].passage /\ Alike(y, CurrentItem(f))
  BY <1>1, <1>3, <1>4 DEF ItemIsSound
<1>6. IsFiniteSet(ToSet(q.items))
  <2>1. PICK n \in Nat : DOMAIN q.items = 1 .. n
    BY <1>1
  <2>2. IsFiniteSet(DOMAIN q.items) /\ q.items = [i \in DOMAIN q.items |-> q.items[i]]
    <3>1. IsFiniteSet(1 .. n)
      BY FS_Interval
    <3>2. QED
      BY <1>1, <2>1, <3>1
  <2>3. PICK items : items = q.items
    OBVIOUS
  <2>4. IsFiniteSet({items[i] : i \in DOMAIN items})
    BY <2>2, <2>3, ImageIsFinite
  <2>5. QED
    BY <2>3, <2>4 DEF ToSet
<1>7. InConflict(ToSet(q.items))
  <2>1. PICK X : X = ToSet(q.items)
    OBVIOUS
  <2>2. PICK Y : Y = {CurrentItem(e), CurrentItem(f)}
    OBVIOUS
  <2>3. IsFiniteSet(X) /\ InConflict(Y) /\ \A b \in Y : \E a \in X : Alike(a, b)
    BY <1>5, <1>6, <2>1, <2>2
  <2>4. InConflict(X)
    BY <2>3, ConflictGrows
  <2>5. QED
    BY <2>1, <2>4
<1>8. x.filed /\ y.filed
  BY <1>5 DEF Alike, ItemKeys
<1>9. QED
  BY <1>5, <1>7, <1>8 DEF BelongsTo

\* A passage that rests on something is among the dependencies of its packet.
LEMMA PacketRests ==
  ASSUME NEW T, NEW q, PacketFits(q, T), q.rows = << >>, NEW p, p = Head(q.todo),
         \A x \in ToSet(q.items) : x.filed => x.rests # None,
         NEW e \in LinesOn(p), Bears[e].passage \notin T, CurrentItem(e).filed,
         rests[Bears[e].passage] = "reviewed"
  PROVE  \E x \in ToSet(q.items) :
           x.passage = Bears[e].passage /\ BelongsTo("dependencies", x, ToSet(q.items))
<1>1. ToSet(q.rows) = {}
  BY DEF ToSet
<1>2. PICK x \in ToSet(q.items) : x.line = e
  BY <1>1 DEF PacketFits
<1>3. /\ x.passage = Bears[e].passage /\ Alike(x, CurrentItem(e))
      /\ x.rests \in {None, TRUE}
  BY <1>2 DEF PacketFits, ItemIsSound
<1>4. x.filed
  BY <1>3 DEF Alike, ItemKeys
<1>5. x.rests = TRUE
  BY <1>3, <1>4
<1>6. QED
  BY <1>3, <1>4, <1>5 DEF BelongsTo

LEMMA PacketTold ==
  ASSUME NEW T, NEW q, PacketFits(q, T), q.rows = << >>, NEW p, p = Head(q.todo),
         \A x \in ToSet(q.items) : x.filed => x.rests # None,
         NEW old, NEW D, TellsOf(old, T, D),
         NEW new, new = [s \in Sections |-> FoldLeft(Tell, old[s], InOrder(s, q.items))]
  PROVE  TellsOf(new, T, D \cup {p})
<1>1. ASSUME NEW s \in Sections
      PROVE  /\ new[s] \in Seq(Sentences)
             /\ \A c : c \in Spoken(new[s]) <=>
                  \/ c \in Spoken(old[s])
                  \/ \E x \in ToSet(q.items) : x.passage = c /\ BelongsTo(s, x, ToSet(q.items))
  <2>1. PICK told : told = old[s]
    OBVIOUS
  <2>2. PICK items : items = q.items
    OBVIOUS
  <2>3. PICK next : next = new[s]
    OBVIOUS
  <2>4. told \in Seq(Sentences)
    BY <2>1 DEF TellsOf
  <2>5. items \in Seq(ToSet(items))
        /\ \A x \in ToSet(items) : x.line \in Evidence /\ x.passage = Bears[x.line].passage
    BY <2>2 DEF PacketFits, ItemIsSound
  <2>6. next = FoldLeft(Tell, told, InOrder(s, items))
    BY <2>1, <2>2, <2>3
  <2>7. /\ next \in Seq(Sentences)
        /\ \A c : c \in Spoken(next) <=>
             \/ c \in Spoken(told)
             \/ \E x \in ToSet(items) : x.passage = c /\ BelongsTo(s, x, ToSet(items))
    BY <2>4, <2>5, <2>6, SectionIsTold
  <2>8. QED
    BY <2>1, <2>2, <2>3, <2>7
<1>2. \A c : \A e \in InForce(c) : Bears[e].passage = c /\ e \in LinesOn(Bears[e].proposition)
  BY DEF InForce, LinesOn
<1>3. \A e \in LinesOn(p) : e \in InForce(Bears[e].passage) /\ Bears[e].proposition = p
  BY DEF InForce, LinesOn
<1>4. ASSUME NEW c \in Passages \ T, NEW s \in Sections \ {"dependencies"}
      PROVE  c \in Spoken(new[s]) <=> Belongs(c, s, D \cup {p})
  <2>1. c \in Spoken(old[s]) <=> Belongs(c, s, D)
    BY DEF TellsOf
  <2>2. Belongs(c, s, D \cup {p}) <=>
          \/ Belongs(c, s, D)
          \/ \E e \in LinesOn(p) : Bears[e].passage = c /\ BelongsTo(s, CurrentItem(e), {})
    BY <1>2, <1>3 DEF Belongs
  <2>3. (\E x \in ToSet(q.items) : x.passage = c /\ BelongsTo(s, x, ToSet(q.items)))
          <=> \E e \in LinesOn(p) : Bears[e].passage = c /\ BelongsTo(s, CurrentItem(e), {})
    BY PacketPlaces
  <2>4. QED
    BY <1>1, <2>1, <2>2, <2>3
<1>5. ASSUME NEW c \in Passages \ T, NEW d \in Passages \ T, AtOdds(c, d, D \cup {p})
      PROVE  c \in Spoken(new["dependencies"]) /\ d \in Spoken(new["dependencies"])
  <2>1. "dependencies" \in Sections
    BY DEF Sections
  <2>2. CASE AtOdds(c, d, D)
    BY <1>1, <2>1, <2>2 DEF TellsOf
  <2>3. CASE ~AtOdds(c, d, D)
    <3>1. PICK e \in InForce(c), f \in InForce(d) :
            /\ Bears[e].proposition = Bears[f].proposition /\ Bears[e].proposition \in D \cup {p}
            /\ CurrentItem(e).filed /\ CurrentItem(f).filed
            /\ InConflict({CurrentItem(e), CurrentItem(f)})
      BY <1>5 DEF AtOdds
    <3>2. Bears[e].proposition = p
      BY <2>3, <3>1 DEF AtOdds
    <3>3. e \in LinesOn(p) /\ f \in LinesOn(p) /\ Bears[e].passage = c /\ Bears[f].passage = d
      BY <1>2, <3>1, <3>2
    <3>4. /\ \E x \in ToSet(q.items) : x.passage = c /\ BelongsTo("dependencies", x, ToSet(q.items))
          /\ \E x \in ToSet(q.items) : x.passage = d /\ BelongsTo("dependencies", x, ToSet(q.items))
      BY <3>1, <3>3, PacketConflicts
    <3>5. QED
      BY <1>1, <2>1, <3>4
  <2>4. QED
    BY <2>2, <2>3
<1>6. ASSUME NEW c \in Passages \ T, Resting(c, D \cup {p})
      PROVE  c \in Spoken(new["dependencies"])
  <2>1. "dependencies" \in Sections
    BY DEF Sections
  <2>2. CASE Resting(c, D)
    BY <1>1, <2>1, <2>2 DEF TellsOf
  <2>3. CASE ~Resting(c, D)
    <3>1. PICK e \in InForce(c) : Bears[e].proposition \in D \cup {p} /\ CurrentItem(e).filed
      BY <1>6 DEF Resting
    <3>2. rests[c] = "reviewed" /\ Bears[e].proposition = p
      BY <1>6, <2>3, <3>1 DEF Resting
    <3>3. e \in LinesOn(p) /\ Bears[e].passage = c
      BY <1>2, <3>1, <3>2
    <3>4. \E x \in ToSet(q.items) : x.passage = c /\ BelongsTo("dependencies", x, ToSet(q.items))
      BY <3>1, <3>2, <3>3, PacketRests
    <3>5. QED
      BY <1>1, <2>1, <3>4
  <2>4. QED
    BY <2>2, <2>3
<1>7. QED
  BY <1>1, <1>4, <1>5, <1>6 DEF TellsOf

LEMMA PacketAdds ==
  ASSUME NEW T, NEW q, DigestFits(q, T), q.op = "packet", q.rows = << >>, NEW old, old = q.told,
         \A x \in ToSet(q.items) : x.filed => x.rests # None,
         NEW new, new = [s \in Sections |-> FoldLeft(Tell, old[s], InOrder(s, q.items))]
  PROVE  /\ Tail(q.todo) \in Seq(ToSet(Contested))
         /\ \E D : D \cup ToSet(Tail(q.todo)) = ToSet(Contested) /\ TellsOf(new, T, D)
<1>1. /\ q.todo \in Seq(ToSet(Contested)) /\ q.todo # << >> /\ PacketFits(q, T)
      /\ \E D : D \cup ToSet(q.todo) = ToSet(Contested) /\ TellsOf(q.told, T, D)
  BY DEF DigestFits, DigestOps, PacketOps
<1>2. PICK p : p = Head(q.todo)
  OBVIOUS
<1>3. PICK D : D \cup ToSet(q.todo) = ToSet(Contested) /\ TellsOf(old, T, D)
  BY <1>1
<1>4. TellsOf(new, T, D \cup {p})
  BY <1>1, <1>2, <1>3, PacketTold
<1>5. Tail(q.todo) \in Seq(ToSet(Contested)) /\ ToSet(q.todo) = {p} \cup ToSet(Tail(q.todo))
  BY <1>1, <1>2, HeadAndTail
<1>6. QED
  BY <1>3, <1>4, <1>5

LEMMA PacketIsFiled ==
  ASSUME NEW T, NEW q, DigestFits(q, T), q.op = "packet", q.rows = << >>,
         \A x \in ToSet(q.items) : x.filed => x.rests # None,
         NEW r, r = Noted(q, [op |-> "digest", todo |-> Tail(q.todo), rows |-> << >>, items |-> << >>,
                              told |-> [s \in Sections |->
                                          FoldLeft(Tell, q.told[s], InOrder(s, q.items))]])
  PROVE  DigestFits(r, T)
<1>1. {"op", "todo", "told", "items", "rows"} \subseteq DOMAIN q /\ "fresh" \notin DOMAIN q
  BY DEF DigestFits, DigestOps, PacketOps
<1>2. PICK old : old = q.told
  OBVIOUS
<1>3. PICK new : new = [s \in Sections |-> FoldLeft(Tell, old[s], InOrder(s, q.items))]
  OBVIOUS
<1>4. /\ r.op = "digest" /\ r.todo = Tail(q.todo) /\ r.told = new
      /\ DOMAIN r = {"op", "todo", "rows", "items", "told"} \cup DOMAIN q
  BY <1>1, <1>2, <1>3 DEF Noted
<1>5. /\ Tail(q.todo) \in Seq(ToSet(Contested))
      /\ \E D : D \cup ToSet(Tail(q.todo)) = ToSet(Contested) /\ TellsOf(new, T, D)
  BY <1>2, <1>3, PacketAdds
<1>6. QED
  BY <1>1, <1>4, <1>5 DEF DigestFits, DigestOps, PacketOps

LEMMA DigestIsWhole ==
  ASSUME NEW T, NEW q, DigestFits(q, T), q.op = "digest", q.todo = << >>, NEW work,
         NEW r, r = Noted(q, [op |-> "digested", privileged |-> work])
  PROVE  DigestFits(r, T)
<1>1. /\ {"op", "todo", "told"} \subseteq DOMAIN q /\ "fresh" \notin DOMAIN q
      /\ \E D : D \cup ToSet(q.todo) = ToSet(Contested) /\ TellsOf(q.told, T, D)
  BY DEF DigestFits, DigestOps
<1>2. r.op = "digested" /\ r.told = q.told /\ DOMAIN r = {"op", "privileged"} \cup DOMAIN q
  BY <1>1 DEF Noted
<1>3. TellsOf(r.told, T, ToSet(Contested))
  <2>1. ToSet(q.todo) = {}
    BY DEF ToSet
  <2>2. PICK D : D \cup ToSet(q.todo) = ToSet(Contested) /\ TellsOf(q.told, T, D)
    BY <1>1
  <2>3. D = ToSet(Contested)
    BY <2>1, <2>2
  <2>4. QED
    BY <1>2, <2>2, <2>3
<1>4. QED
  BY <1>1, <1>2, <1>3 DEF DigestFits, DigestOps, PacketOps

----------------------------------------------------------------------------
(* Every step keeps every digest sound.                                     *)

LEMMA DigestGoesOn ==
  ASSUME DigestInv, NEW w \in Processes, NEW q, NEW T, DigestFits(q, T),
         doing' = [doing EXCEPT ![w] = q], touched' = [touched EXCEPT ![w] = T],
         UNCHANGED <<reviews, meanings>>
  PROVE  DigestInv'
<1>1. Elsewhere({}) /\ CaseTyped'
  BY DEF Elsewhere, CaseTyped, DigestInv, reviews, meanings
<1>2. doing' = [v \in Processes |-> doing'[v]] /\ touched' = [v \in Processes |-> touched'[v]]
  BY DEF DigestInv
<1>3. ASSUME NEW v \in Processes PROVE DigestFits(doing[v], touched[v])'
  <2>1. PICK r : r = doing'[v]
    OBVIOUS
  <2>2. PICK U : U = touched'[v]
    OBVIOUS
  <2>3. DigestFits(r, U)
    <3>1. CASE v = w
      BY <2>1, <2>2, <3>1 DEF DigestInv
    <3>2. CASE v # w
      BY <2>1, <2>2, <3>2 DEF DigestInv
    <3>3. QED
      BY <3>1, <3>2
  <2>4. DigestFits(r, U \cup {})'
    BY <1>1, <2>3, DigestStays
  <2>5. U \cup {} = U
    OBVIOUS
  <2>6. DigestFits(r, U)'
    BY <2>4, <2>5
  <2>7. QED
    BY <2>1, <2>2, <2>6
<1>4. QED
  BY <1>1, <1>2, <1>3 DEF DigestInv

LEMMA DigestWritten ==
  ASSUME DigestInv, NEW S, Elsewhere(S), CaseTyped', Disturb, Touch(S)
  PROVE  DigestInv'
<1>1. doing' = doing
  <2>1. \A w \in Processes : doing[w].op # "brief" /\ "fresh" \notin DOMAIN doing[w]
    BY DEF DigestInv, DigestFits, DigestOps, PacketOps
  <2>2. doing = [w \in Processes |-> doing[w]]
    BY DEF DigestInv
  <2>3. doing' = [w \in Processes |-> doing[w]]
    BY <2>1 DEF Disturb
  <2>4. QED
    BY <2>2, <2>3
<1>2. touched' = [w \in Processes |-> touched[w] \cup S]
  BY DEF Touch
<1>3. ASSUME NEW w \in Processes PROVE DigestFits(doing[w], touched[w])'
  <2>1. PICK q : q = doing[w]
    OBVIOUS
  <2>2. PICK T : T = touched[w]
    OBVIOUS
  <2>3. DigestFits(q, T \cup S)'
    BY <2>1, <2>2, DigestStays DEF DigestInv
  <2>4. QED
    BY <1>1, <1>2, <2>1, <2>2, <2>3
<1>4. QED
  BY <1>1, <1>2, <1>3 DEF DigestInv

LEMMA DigestBegins ==
  ASSUME DigestInv, NEW w \in Processes, BeginDigest(w)
  PROVE  DigestInv'
<1>1. PICK q : q = [op |-> "digest", todo |-> Contested, told |-> [s \in Sections |-> << >>]]
  OBVIOUS
<1>2. doing' = [doing EXCEPT ![w] = q] /\ touched' = [touched EXCEPT ![w] = {}]
      /\ UNCHANGED <<reviews, meanings>>
  BY <1>1 DEF BeginDigest, Look, Become
<1>3. DigestFits(q, {})
  BY <1>1, EmptyDigest
<1>4. QED
  BY <1>2, <1>3, DigestGoesOn

\* A process reads on.
LEMMA DigestContinues ==
  ASSUME DigestInv, NEW w \in Processes, NEW from, NEW reading, Continue(w, from, reading),
         DigestFits(Noted(doing[w], reading), touched[w])
  PROVE  DigestInv'
<1>1. PICK q : q = Noted(doing[w], reading)
  OBVIOUS
<1>2. PICK T : T = touched[w]
  OBVIOUS
<1>3. doing' = [doing EXCEPT ![w] = q] /\ UNCHANGED <<reviews, meanings>>
  BY <1>1 DEF Continue, Turn, Become
<1>4. touched' = [touched EXCEPT ![w] = T]
  <2>1. touched' = touched /\ touched = [v \in Processes |-> touched[v]]
    BY DEF Continue, DigestInv
  <2>2. QED
    BY <1>2, <2>1
<1>5. QED
  BY <1>1, <1>2, <1>3, <1>4, DigestGoesOn

LEMMA DigestReads ==
  ASSUME DigestInv, NEW w \in Processes,
         ReadLinked(w) \/ ReadReading(w) \/ ReadProfile(w) \/ ReadLineage(w)
  PROVE  DigestInv'
<1>1. PICK q : q = doing[w]
  OBVIOUS
<1>2. PICK T : T = touched[w]
  OBVIOUS
<1>3. DigestFits(q, T)
  BY <1>1, <1>2 DEF DigestInv
<1>4. CASE ReadLinked(w)
  <2>1. PICK lines : lines = Only(LineOrder, LinesOn(Head(q.todo)))
    OBVIOUS
  <2>2. PICK reading : reading = [op |-> "packet", items |-> << >>,
                                  rows |-> [i \in DOMAIN lines |-> RowOf(lines[i])]]
    OBVIOUS
  <2>3. q.op = "digest" /\ q.todo # << >> /\ Continue(w, "digest", reading)
    BY <1>1, <1>4, <2>1, <2>2 DEF ReadLinked
  <2>4. PICK r : r = Noted(q, reading)
    OBVIOUS
  <2>5. DigestFits(r, T)
    BY <1>3, <2>1, <2>2, <2>3, <2>4, RowsFit
  <2>6. QED
    BY <1>1, <1>2, <2>3, <2>4, <2>5, DigestContinues
<1>5. CASE ReadReading(w)
  <2>1. PICK reading : reading = [op |-> "read", reading |-> meaning[Head(q.rows).passage]]
    OBVIOUS
  <2>2. q.op = "packet" /\ q.rows # << >> /\ Continue(w, "packet", reading)
    BY <1>1, <1>5, <2>1 DEF ReadReading
  <2>3. PICK r : r = Noted(q, reading)
    OBVIOUS
  <2>4. DigestFits(r, T)
    BY <1>3, <2>1, <2>2, <2>3, ReadingFits
  <2>5. QED
    BY <1>1, <1>2, <2>2, <2>3, <2>4, DigestContinues
<1>6. CASE ReadProfile(w)
  <2>1. PICK row : row = Head(q.rows)
    OBVIOUS
  <2>2. PICK default : default = profile[Original[row.passage]]
    OBVIOUS
  <2>3. PICK read : read = q.reading
    OBVIOUS
  <2>4. PICK x : x = ItemOf(row, read, default)
    OBVIOUS
  <2>5. PICK reading : reading = [op |-> "lineage", rows |-> Tail(q.rows), reading |-> None,
                                  items |-> Append(q.items, x)]
    OBVIOUS
  <2>6. q.op = "read" /\ Continue(w, "read", reading)
    BY <1>1, <1>6, <2>1, <2>2, <2>3, <2>4, <2>5 DEF ReadProfile
  <2>7. ItemIsSound(x, T, Head(q.todo)) /\ x.line = row.line
    BY <1>3, <2>1, <2>2, <2>3, <2>4, <2>6, NextItem
  <2>8. PICK r : r = Noted(q, reading)
    OBVIOUS
  <2>9. DigestFits(r, T)
    BY <1>3, <2>1, <2>5, <2>6, <2>7, <2>8, ItemFits
  <2>10. QED
    BY <1>1, <1>2, <2>6, <2>8, <2>9, DigestContinues
<1>7. CASE ReadLineage(w)
  <2>1. PICK last : last = Len(q.items)
    OBVIOUS
  <2>2. PICK c : c = q.items[last].passage
    OBVIOUS
  <2>3. PICK answer :
          answer = IF c \in Gathered /\ rests[c] = "reviewed" THEN TRUE ELSE None
    OBVIOUS
  <2>4. PICK reading :
          reading = [op |-> "packet", items |-> [q.items EXCEPT ![last].rests = answer]]
    OBVIOUS
  <2>5. q.op = "lineage" /\ Continue(w, "lineage", reading)
    BY <1>1, <1>7, <2>1, <2>2, <2>3, <2>4 DEF ReadLineage
  <2>6. last \in DOMAIN q.items
    <3>1. q.items \in Seq(ToSet(q.items)) /\ q.items # << >>
      BY <1>3, <2>5 DEF DigestFits, PacketOps, PacketFits
    <3>2. QED
      BY <2>1, <3>1
  <2>7. answer \in {None, TRUE}
    BY <2>3
  <2>8. PICK r : r = Noted(q, reading)
    OBVIOUS
  <2>9. DigestFits(r, T)
    BY <1>3, <2>4, <2>5, <2>6, <2>7, <2>8, AnswerFits
  <2>10. QED
    BY <1>1, <1>2, <2>5, <2>8, <2>9, DigestContinues
<1>8. QED
  BY <1>4, <1>5, <1>6, <1>7

LEMMA DigestFiles ==
  ASSUME DigestInv, NEW w \in Processes,
         AskDependency(w) \/ FilePacket(w) \/ EndDigest(w)
  PROVE  DigestInv'
<1>1. PICK q : q = doing[w]
  OBVIOUS
<1>2. PICK T : T = touched[w]
  OBVIOUS
<1>3. DigestFits(q, T)
  BY <1>1, <1>2 DEF DigestInv
<1>4. CASE AskDependency(w)
  <2>1. PICK i : i = Min(Unasked(w))
    OBVIOUS
  <2>2. PICK answer : answer = (rests[q.items[i].passage] = "reviewed")
    OBVIOUS
  <2>3. PICK reading :
          reading = [op |-> "packet", items |-> [q.items EXCEPT ![i].rests = answer]]
    OBVIOUS
  <2>4. q.op = "packet" /\ Unasked(w) # {} /\ Continue(w, "packet", reading)
    BY <1>1, <1>4, <2>1, <2>2, <2>3 DEF AskDependency
  <2>5. i \in DOMAIN q.items
    <3>1. \E n \in Nat : DOMAIN q.items = 1 .. n
      <4>1. q.items \in Seq(ToSet(q.items))
        BY <1>3, <2>4 DEF DigestFits, PacketOps, PacketFits
      <4>2. QED
        BY <4>1
    <3>2. PICK n \in Nat : DOMAIN q.items = 1 .. n
      BY <3>1
    <3>3. PICK U : U = Unasked(w)
      OBVIOUS
    <3>4. U \in SUBSET (1 .. n) /\ U # {}
      BY <1>1, <2>4, <3>2, <3>3 DEF Unasked
    <3>5. \E k \in U : \A m \in U : k <= m
      <4>1. U \in SUBSET Nat
        BY <3>4
      <4>2. QED
        BY <3>4, <4>1, LeastIsThere
    <3>6. Min(U) \in U
      BY <3>5 DEF Min
    <3>7. QED
      BY <2>1, <3>2, <3>3, <3>4, <3>6
  <2>6. PICK r : r = Noted(q, reading)
    OBVIOUS
  <2>7. rests[q.items[i].passage] = "reviewed" => answer \in {None, TRUE}
    BY <2>2, Zenon
  <2>8. DigestFits(r, T)
    BY <1>3, <2>3, <2>4, <2>5, <2>6, <2>7, AnswerFits
  <2>9. QED
    BY <1>1, <1>2, <2>4, <2>6, <2>8, DigestContinues
<1>5. CASE FilePacket(w)
  <2>1. PICK reading :
          reading = [op |-> "digest", todo |-> Tail(q.todo), rows |-> << >>, items |-> << >>,
                     told |-> [s \in Sections |-> FoldLeft(Tell, q.told[s], InOrder(s, q.items))]]
    OBVIOUS
  <2>2. q.op = "packet" /\ q.rows = << >> /\ Continue(w, "packet", reading)
    BY <1>1, <1>5, <2>1 DEF FilePacket
  <2>3. PICK r : r = Noted(q, reading)
    OBVIOUS
  <2>4. \A x \in ToSet(q.items) : x.filed => x.rests # None
    BY <1>1, <1>5 DEF FilePacket, Unasked, ToSet
  <2>5. DigestFits(r, T)
    BY <1>3, <2>1, <2>2, <2>3, <2>4, PacketIsFiled
  <2>6. QED
    BY <1>1, <1>2, <2>2, <2>3, <2>5, DigestContinues
<1>6. CASE EndDigest(w)
  <2>1. PICK audience \in {"disclosable", "work-file"} :
          Continue(w, "digest",
            [op |-> "digested", privileged |-> IF audience = "work-file" THEN CurrentWork ELSE {}])
    BY <1>6 DEF EndDigest
  <2>2. PICK work : work = IF audience = "work-file" THEN CurrentWork ELSE {}
    OBVIOUS
  <2>3. PICK reading : reading = [op |-> "digested", privileged |-> work]
    OBVIOUS
  <2>4. q.op = "digest" /\ q.todo = << >> /\ Continue(w, "digest", reading)
    BY <1>1, <1>6, <2>1, <2>2, <2>3 DEF EndDigest
  <2>5. PICK r : r = Noted(q, reading)
    OBVIOUS
  <2>6. DigestFits(r, T)
    BY <1>3, <2>3, <2>4, <2>5, DigestIsWhole
  <2>7. QED
    BY <1>1, <1>2, <2>4, <2>5, <2>6, DigestContinues
<1>7. QED
  BY <1>4, <1>5, <1>6

LEMMA DigestIsLeft ==
  ASSUME DigestInv, NEW w \in Processes, Abandon(w)
  PROVE  DigestInv'
<1>1. PICK q : q = Idle
  OBVIOUS
<1>2. PICK T : T = touched[w]
  OBVIOUS
<1>3. DigestFits(q, T)
  BY <1>1 DEF Idle, DigestFits, DigestOps, PacketOps
<1>4. doing' = [doing EXCEPT ![w] = q] /\ UNCHANGED <<reviews, meanings>>
  BY <1>1 DEF Abandon, Finish, Become
<1>5. touched' = [touched EXCEPT ![w] = T]
  <2>1. touched' = touched /\ touched = [v \in Processes |-> touched[v]]
    BY DEF Abandon, DigestInv
  <2>2. QED
    BY <1>2, <2>1
<1>6. QED
  BY <1>3, <1>4, <1>5, DigestGoesOn

LEMMA PeopleWrite ==
  ASSUME DigestInv,
         \/ \E state \in {"reviewed", "rejected"} :
              Decide(state) \/ \E c \in Passages : DecideDependency(c, state)
         \/ \E c \in Passages, version \in Readings : Interpret(c, version)
         \/ \E o \in {Original[c] : c \in Passages}, version \in Defaults : SaveProfile(o, version)
  PROVE  DigestInv'
<1>1. CaseTyped
  BY DEF DigestInv
<1>2. ASSUME NEW state, NEW e \in Evidence, DecideLine(e, state), Touch({Bears[e].passage}),
             UNCHANGED meanings
      PROVE  DigestInv'
  <2>1. /\ lineState' = [lineState EXCEPT ![e] = IF @ = "absent" THEN "unreviewed" ELSE state]
        /\ UNCHANGED <<passageState, meaning, profile, rests>> /\ Disturb
    BY <1>2 DEF DecideLine, meanings
  <2>2. CaseTyped'
    BY <1>1, <2>1 DEF CaseTyped
  <2>3. Elsewhere({Bears[e].passage})
    BY <1>1, <2>1 DEF CaseTyped, Elsewhere
  <2>4. QED
    BY <1>2, <2>1, <2>2, <2>3, DigestWritten
<1>3. ASSUME NEW state, NEW c \in Passages, DecidePassage(c, state), Touch({c}), UNCHANGED meanings
      PROVE  DigestInv'
  <2>1. /\ passageState' = [passageState EXCEPT ![c] = state]
        /\ UNCHANGED <<lineState, meaning, profile, rests>> /\ Disturb
    BY <1>3 DEF DecidePassage, meanings
  <2>2. CaseTyped'
    BY <1>1, <2>1 DEF CaseTyped
  <2>3. Elsewhere({c})
    BY <1>1, <2>1 DEF CaseTyped, Elsewhere
  <2>4. QED
    BY <1>3, <2>1, <2>2, <2>3, DigestWritten
<1>4. ASSUME NEW state, NEW c \in Passages, DecideDependency(c, state)
      PROVE  DigestInv'
  <2>1. /\ rests' = [rests EXCEPT ![c] = state]
        /\ UNCHANGED <<lineState, passageState, meaning, profile>> /\ Disturb /\ Touch({c})
    BY <1>4 DEF DecideDependency, reviews
  <2>2. CaseTyped' /\ Elsewhere({c})
    BY <1>1, <2>1 DEF CaseTyped, Elsewhere
  <2>3. QED
    BY <2>1, <2>2, DigestWritten
<1>5. ASSUME NEW c \in Passages, NEW version, Interpret(c, version)
      PROVE  DigestInv'
  <2>1. /\ meaning' = [meaning EXCEPT ![c] = version]
        /\ UNCHANGED <<lineState, passageState, profile, rests>> /\ Disturb /\ Touch({c})
    BY <1>5 DEF Interpret, reviews
  <2>2. CaseTyped'
    BY <1>1, <2>1 DEF CaseTyped
  <2>3. Elsewhere({c})
    BY <1>1, <2>1 DEF CaseTyped, Elsewhere
  <2>4. QED
    BY <2>1, <2>2, <2>3, DigestWritten
<1>6. ASSUME NEW o, NEW version, SaveProfile(o, version)
      PROVE  DigestInv'
  <2>1. PICK S : S = {c \in Passages : Original[c] = o}
    OBVIOUS
  <2>2. /\ profile' = [profile EXCEPT ![o] = version]
        /\ UNCHANGED <<lineState, passageState, meaning, rests>> /\ Disturb /\ Touch(S)
    BY <1>6, <2>1 DEF SaveProfile, reviews
  <2>3. CaseTyped'
    BY <1>1, <2>2 DEF CaseTyped
  <2>4. Elsewhere(S)
    BY <1>1, <2>1, <2>2 DEF CaseTyped, Elsewhere
  <2>5. QED
    BY <2>2, <2>3, <2>4, DigestWritten
<1>7. QED
  BY <1>2, <1>3, <1>4, <1>5, <1>6 DEF Decide

LEMMA DigestsBegin == DigestInit => DigestInv
<1> SUFFICES ASSUME DigestInit PROVE DigestInv
  OBVIOUS
<1>1. CaseTyped
  <2>1. \E h \in Histories : lineState = h.line /\ passageState = h.passage
    BY DEF DigestInit, ViewInit, Init
  <2>2. lineState \in [Evidence -> ReviewStates] /\ passageState \in [Passages -> ReviewStates \ {"absent"}]
    BY <2>1, ConstantsAssumption
  <2>3. QED
    BY <2>2 DEF DigestInit, CaseTyped
<1>2. doing = [w \in Processes |-> Idle] /\ touched = [w \in Processes |-> {}]
  BY DEF DigestInit, ViewInit, Init
<1>3. \A T : DigestFits(Idle, T)
  BY DEF Idle, DigestFits, DigestOps, PacketOps
<1>4. QED
  BY <1>1, <1>2, <1>3 DEF DigestInv

LEMMA DigestsGoOn == DigestInv /\ [DigestNext]_digestVars => DigestInv'
<1> SUFFICES ASSUME DigestInv, [DigestNext]_digestVars PROVE DigestInv'
  OBVIOUS
<1>1. CASE UNCHANGED digestVars
  <2>1. /\ UNCHANGED <<lineState, passageState, meaning, profile, rests, doing, touched>>
    BY <1>1 DEF digestVars, viewVars, vars, meanings
  <2>2. Elsewhere({}) /\ CaseTyped'
    BY <2>1 DEF Elsewhere, CaseTyped, DigestInv
  <2>3. ASSUME NEW w \in Processes PROVE DigestFits(doing[w], touched[w])'
    <3>1. PICK q : q = doing[w]
      OBVIOUS
    <3>2. PICK T : T = touched[w]
      OBVIOUS
    <3>3. DigestFits(q, T \cup {})' /\ T \cup {} = T
      BY <2>2, <3>1, <3>2, DigestStays DEF DigestInv
    <3>4. QED
      BY <2>1, <3>1, <3>2, <3>3
  <2>4. QED
    BY <2>1, <2>2, <2>3 DEF DigestInv
<1>2. ASSUME NEW w \in Processes, DigestStep(w) \/ Abandon(w) PROVE DigestInv'
  BY <1>2, DigestBegins, DigestReads, DigestFiles, DigestIsLeft DEF DigestStep
<1>3. QED
  BY <1>1, <1>2, PeopleWrite DEF DigestNext

\* case_digest tells of every passage nobody wrote about meanwhile, once and
\* where it belongs, however its packets were read and whatever was decided
\* about others, for every list of contested propositions, every relationship
\* and every number of processes.
THEOREM DigestTellsAllHolds == DigestSpec => []DigestTellsAll
<1>1. DigestSpec => []DigestInv
  BY DigestsBegin, DigestsGoOn, PTL DEF DigestSpec
<1>2. QED
  BY <1>1, InvariantTellsAll, PTL
=============================================================================
