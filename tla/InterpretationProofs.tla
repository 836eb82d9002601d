------------------------ MODULE InterpretationProofs ------------------------
(***************************************************************************)
(* Theorems about the readings of one original with any passages, for any  *)
(* number of windows and runs of the rules.                                *)
(***************************************************************************)
EXTENDS Sweep, FiniteSetTheorems, SequenceTheorems, WellFoundedInduction, TLAPS

----------------------------------------------------------------------------
(* The inductive invariant.                                                 *)

States == {"suggested", "unreviewed", "reviewed", "verified", "rejected"}

Known ==
  {None} \cup {e.value : e \in Entries} \cup {d.form : d \in Range(Detections)}
    \cup (UNION {{d.value[f] : f \in Fields} : d \in ProfileDrafts})
    \cup (UNION {Range(Letters[c]) : c \in DOMAIN Letters}) \cup People

Labels ==
  [kind : {"none", "inherited", "suggested", "accepted", "undo", "entered"}, profile : Nat]

Version ==
  [passage : Passage, value : [Fields -> Known], from : [Fields -> Labels],
   state : States, over : Nat, parent : Nat]

Profile == [value : [Fields -> Known], state : States, over : Nat]

RowType == [passage : Passage, current : Nat, profile : Nat]

Todos == Seq(Range(Detections))

\* The keys of the sweep, what is no version of a passage, and the rules.
Thens ==
  [written : [op : {"refresh"}], refused : [op : {"idle"}]]
    \cup [written : [op : {"idle"}], refused : [op : {"idle"}]]
    \cup [written : [op : {"rules"}, todo : Todos], refused : [op : {"failed"}]]

Appends == [op : {"append"}, batch : Seq(Version), then : Thens]
Saves == [op : {"save"}, profile : Profile, then : Thens]
Calls ==
  [op : {"idle", "refresh", "failed"}] \cup [op : {"rules"}, todo : Todos]
    \cup [op : {"propose"}, todo : Todos \ {<<>>}]
    \cup Appends \cup Saves

TypeOK ==
  /\ readings \in Seq(Version)
  /\ profiles \in Seq(Profile)
  /\ withheld \subseteq Passage
  /\ DOMAIN rows = Processes
  /\ \A w \in Processes : rows[w] # None => rows[w] \in Seq(RowType)
  /\ doing \in [Processes -> Calls]
  /\ moved \in [Processes -> [run : BOOLEAN, read : BOOLEAN]]

\* The one passage is above the other in the original.
Above(p, q) == \E i, j \in DOMAIN Passages : i < j /\ Passages[i] = p /\ Passages[j] = q

\* The versions of a passage are a chain: each is superseded by a later one of
\* the passage, up to the last.
Chained ==
  /\ \A v \in DOMAIN readings : readings[v].over # 0 =>
       /\ readings[v].over \in DOMAIN readings /\ readings[v].over < v
       /\ readings[readings[v].over].passage = readings[v].passage
  /\ \A v \in DOMAIN readings :
       \E h \in Heads(readings[v].passage) :
         \A u \in History(readings[v].passage) : u <= h /\ (u = h \/ Superseded(u))

\* Every profile is saved over the one before it.
ProfilesChained == \A v \in DOMAIN profiles : profiles[v].over = v - 1

\* The provenance of version x is true, where `before` came before it.
Grounded(x, before) ==
  \A f \in Fields :
    /\ x.from[f].kind = "none" => x.value[f] = None
    /\ x.from[f].kind = "inherited" =>
         /\ x.from[f].profile \in DOMAIN profiles
         /\ Decided(profiles[x.from[f].profile].state)
         /\ profiles[x.from[f].profile].value[f] = x.value[f]
    /\ (x.from[f].kind = "suggested" /\ x.state # "suggested") \/ x.from[f].kind = "accepted" =>
         \E u \in before : readings[u].state = "suggested" /\ readings[u].value[f] = x.value[f]
    /\ x.from[f].kind = "undo" => \E u \in before : readings[u].value[f] = x.value[f]

\* Version `parent` may be what version x of a passage reports.
MayBeReported(parent, x) ==
  /\ parent \in DOMAIN readings
  /\ Decided(readings[parent].state)
  /\ Above(readings[parent].passage, x.passage)

\* What is in the file, version by version.
VersionsStand ==
  \A v \in DOMAIN readings :
    /\ readings[v].state = "suggested" => \A u \in History(readings[v].passage) : v <= u
    /\ Grounded(readings[v], {u \in History(readings[v].passage) : u < v})
    /\ readings[v].parent # 0 => MayBeReported(readings[v].parent, readings[v])

\* Rows are old, and what they name is still in the file.
RowStands(row) ==
  /\ row.current # 0 => row.current \in History(row.passage)
  /\ row.profile # 0 => row.profile \in DOMAIN profiles

RowsStand ==
  \A w \in Processes : rows[w] # None =>
    /\ \A i \in DOMAIN rows[w] : RowStands(rows[w][i])
    /\ \A i, j \in DOMAIN rows[w] : i < j => Above(rows[w][i].passage, rows[w][j].passage)

\* A version that is about to be written.
Sound(x) ==
  /\ x.over # 0 => x.over \in History(x.passage)
  /\ x.state = "suggested" => x.over = 0
  /\ Grounded(x, History(x.passage))

\* It reports what is in the file, or what is written with it.
ReportsFrom(batch, i) ==
  batch[i].parent # 0 =>
    \/ MayBeReported(batch[i].parent, batch[i])
    \/ \E k \in DOMAIN batch :
         /\ batch[i].parent = Len(readings) + k
         /\ Decided(batch[k].state)
         /\ Above(batch[k].passage, batch[i].passage)

SoundBatch(batch) ==
  /\ \A i \in DOMAIN batch : Sound(batch[i]) /\ ReportsFrom(batch, i)
  /\ \A i, j \in DOMAIN batch : i # j => batch[i].passage # batch[j].passage

\* What a transaction found when it read is so while nobody has committed.
CallsStand ==
  \A w \in Processes : ~ moved[w].read =>
    /\ doing[w].op = "append" =>
         /\ SoundBatch(doing[w].batch)
         /\ \A i \in DOMAIN doing[w].batch : Accepts(doing[w].batch[i])
    /\ doing[w].op = "save" => doing[w].profile.over = Len(profiles)

IInv ==
  /\ TypeOK
  /\ Chained
  /\ ProfilesChained
  /\ VersionsStand
  /\ RowsStand
  /\ CallsStand

\* A run of the rules that nobody disturbed is refused nothing.
RunStands(w) ==
  /\ moved[w].read => moved[w].run
  /\ doing[w].op = "idle" => ~ moved[w].read
  /\ doing[w].op \in {"append", "save"} =>
       doing[w].then = AfterKey \/ doing[w].then.refused.op = "failed"
  /\ doing[w].op = "propose" => moved[w].run \/ ~ HasHistory(Head(doing[w].todo).on)
  /\ doing[w].op = "failed" => moved[w].run

RunsStand == \A w \in Processes : RunStands(w)

----------------------------------------------------------------------------
(* Greatest numbers.                                                        *)

LEMMA LeastNatural ==
  ASSUME NEW S \in SUBSET Nat, S # {}
  PROVE  \E n \in S : \A m \in S : n <= m
<1> DEFINE Less == OpToRel(<, Nat)
<1>1. IsWellFoundedOn(Less, Nat)
  BY NatLessThanWellFounded
<1>2. \A x, y \in Nat : x < y => <<x, y>> \in Less
  BY DEF OpToRel
<1> HIDE DEF Less
<1>3. PICK n \in S : \A m \in S : <<m, n>> \notin Less
  BY <1>1, WFMin
<1>4. ASSUME NEW m \in S PROVE n <= m
  <2>1. m \in Nat /\ n \in Nat
    BY Zenon
  <2>2. ~ (m < n)
    BY <1>2, <1>3, <2>1, Zenon
  <2>3. QED
    BY <2>1, <2>2
<1>5. QED
  BY <1>4

\* Among some of the first numbers there is a greatest.
LEMMA MaxIsGreatest ==
  ASSUME NEW n \in Nat, NEW S \in SUBSET (1 .. n), S # {}
  PROVE  Max(S) \in S /\ \A k \in S : Max(S) >= k
<1> DEFINE Bounds == {b \in Nat : \A k \in S : k <= b}
<1>1. n \in Bounds /\ Bounds \in SUBSET Nat
  OBVIOUS
<1>2. PICK b \in Bounds : \A a \in Bounds : b <= a
  <2> HIDE DEF Bounds
  <2>1. QED
    BY <1>1, LeastNatural
<1>3. b \in S
  <2>1. SUFFICES ASSUME b \notin S PROVE FALSE
    OBVIOUS
  <2>2. PICK k \in S : TRUE
    OBVIOUS
  <2>3. k \in Nat /\ k >= 1 /\ k <= b /\ b \in Nat
    BY <1>2
  <2>4. b - 1 \in Bounds
    <3>1. b - 1 \in Nat
      BY <2>3
    <3>2. \A j \in S : j <= b /\ j # b /\ j \in Nat
      BY <1>2, <2>1
    <3>3. \A j \in S : j <= b - 1
      BY <2>3, <3>2
    <3>4. QED
      BY <3>1, <3>3
  <2> HIDE DEF Bounds
  <2>5. b <= b - 1
    BY <1>2, <2>4
  <2>6. QED
    BY <2>3, <2>5
<1>4. b \in S /\ \A k \in S : b >= k
  BY <1>2, <1>3
<1>5. QED
  BY <1>4 DEF Max

----------------------------------------------------------------------------
(* Heads.                                                                   *)

LEMMA HeadsOfAPassage ==
  ASSUME TypeOK, Chained, NEW p \in Passage
  PROVE  /\ \A u, v \in Heads(p) : u = v
         /\ History(p) # {} => Heads(p) # {}
         /\ Heads(p) = {} => Latest(Heads(p)) = 0
         /\ Heads(p) # {} => Latest(Heads(p)) \in Heads(p)
         /\ Latest(Heads(p)) # 0 => Latest(Heads(p)) \in Heads(p)
<1>1. Heads(p) \in SUBSET History(p) /\ History(p) \in SUBSET (1 .. Len(readings)) /\ Len(readings) \in Nat
  BY DEF Heads, History, TypeOK
<1>2. \A v \in History(p) :
        \E h \in Heads(p) : \A u \in History(p) : u = h \/ Superseded(u)
  BY DEF Chained, History
<1>3. \A u \in Heads(p) : ~ Superseded(u)
  BY DEF Heads
<1>4. \A u, v \in Heads(p) : u = v
  BY <1>1, <1>2, <1>3
<1>5. Heads(p) # {} => Max(Heads(p)) \in Heads(p)
  BY <1>1, MaxIsGreatest
<1>6. QED
  BY <1>2, <1>4, <1>5 DEF Latest

LEMMA HeadsOfProfiles ==
  ASSUME TypeOK, ProfilesChained
  PROVE  /\ Latest(ProfileHeads) = Len(profiles)
         /\ \A v \in ProfileHeads : v = Len(profiles)
         /\ \A x : AcceptsProfile(x) /\ x.over \in {0, Len(profiles)} => x.over = Len(profiles)
<1>1. Len(profiles) \in Nat /\ DOMAIN profiles = 1 .. Len(profiles)
  BY DEF TypeOK
<1>2. \A v \in DOMAIN profiles : v \in ProfileHeads <=> v = Len(profiles)
  <2>1. ASSUME NEW v \in DOMAIN profiles, v # Len(profiles) PROVE v \notin ProfileHeads
    <3>1. v + 1 \in DOMAIN profiles
      BY <1>1, <2>1
    <3>2. profiles[v + 1].over = v
      BY <1>1, <3>1 DEF ProfilesChained
    <3>3. QED
      BY <3>1, <3>2 DEF ProfileHeads
  <2>2. ASSUME NEW v \in DOMAIN profiles, v = Len(profiles) PROVE v \in ProfileHeads
    <3>1. \A u \in DOMAIN profiles : profiles[u].over # v
      BY <1>1, <2>2 DEF ProfilesChained
    <3>2. QED
      BY <3>1 DEF ProfileHeads
  <2>3. QED
    BY <2>1, <2>2
<1>3. \A v \in ProfileHeads : v = Len(profiles)
  BY <1>2 DEF ProfileHeads
<1>4. CASE Len(profiles) = 0
  <2>1. ProfileHeads = {}
    BY <1>1, <1>4 DEF ProfileHeads
  <2>2. QED
    BY <1>3, <1>4, <2>1 DEF Latest
<1>5. CASE Len(profiles) # 0
  <2>1. Len(profiles) \in ProfileHeads
    BY <1>1, <1>2, <1>5
  <2>2. ProfileHeads \in SUBSET (1 .. Len(profiles))
    BY <1>1 DEF ProfileHeads
  <2>3. Max(ProfileHeads) \in ProfileHeads
    BY <1>1, <2>1, <2>2, MaxIsGreatest
  <2>4. profiles # <<>>
    BY <1>5
  <2>5. QED
    BY <1>3, <2>1, <2>3, <2>4 DEF Latest, AcceptsProfile
<1>6. QED
  BY <1>4, <1>5


----------------------------------------------------------------------------
(* What is read from the file stands in it.                                 *)

LEMMA PlacesAreOwn ==
  /\ IsFiniteSet(Shown) /\ Cardinality(Shown) \in Nat
  /\ \A i, j \in Shown : i < j => Place(i) < Place(j)
  /\ \A i \in Shown : Place(i) \in 0 .. Cardinality(Shown) - 1
<1>0. Len(Passages) \in Nat /\ DOMAIN Passages = 1 .. Len(Passages)
  BY ConstantsAssumption
<1>1. Shown \in SUBSET (1 .. Len(Passages))
  BY <1>0 DEF Shown
<1>2. IsFiniteSet(Shown) /\ Cardinality(Shown) \in Nat
  <2>1. IsFiniteSet(1 .. Len(Passages))
    BY <1>0, FS_Interval
  <2>2. QED
    BY <1>1, <2>1, FS_Subset, FS_CardinalityType
<1> DEFINE Ahead(i) == {j \in Shown : j < i}
<1>3. \A i \in Shown : Place(i) = Cardinality(Ahead(i))
  BY DEF Place
<1>4. ASSUME NEW i \in Shown
      PROVE  /\ IsFiniteSet(Ahead(i)) /\ Cardinality(Ahead(i)) \in Nat
             /\ Cardinality(Ahead(i)) < Cardinality(Shown)
  <2>1. Ahead(i) \in SUBSET Shown /\ i \notin Ahead(i)
    BY <1>1
  <2> HIDE DEF Ahead
  <2>2. QED
    BY <1>2, <2>1, FS_Subset, FS_CardinalityType
<1>5. ASSUME NEW i \in Shown, NEW j \in Shown, i < j
      PROVE  Cardinality(Ahead(i)) < Cardinality(Ahead(j))
  <2>0. \A k \in Shown : k \in Int
    BY <1>0, <1>1
  <2>1. Ahead(i) \in SUBSET Ahead(j) /\ i \in Ahead(j) /\ i \notin Ahead(i)
    BY <2>0, <1>5
  <2>2. IsFiniteSet(Ahead(j)) /\ Cardinality(Ahead(j)) \in Nat
    BY <1>4
  <2> HIDE DEF Ahead
  <2>3. QED
    BY <2>1, <2>2, FS_Subset, FS_CardinalityType
<1>6. \A i \in Shown : Place(i) \in Nat /\ Place(i) < Cardinality(Shown)
  BY <1>3, <1>4
<1>7. \A i, j \in Shown : i < j => Place(i) < Place(j)
  BY <1>3, <1>5
<1>8. QED
  BY <1>2, <1>6, <1>7

LEMMA EveryPlaceIsTaken ==
  ASSUME NEW k \in 0 .. Cardinality(Shown) - 1
  PROVE  \E i \in Shown : Place(i) = k
<1> DEFINE n == Cardinality(Shown)
           place == [i \in Shown |-> Place(i)]
<1>1. IsFiniteSet(Shown) /\ n \in Nat
  BY PlacesAreOwn
<1>2. place \in Injection(Shown, 0 .. n - 1)
  <2>1. \A i \in Shown : Place(i) \in 0 .. n - 1
    BY PlacesAreOwn
  <2>2. place \in [Shown -> 0 .. n - 1]
    BY <2>1
  <2>3. \A i, j \in Shown : Place(i) = Place(j) => i = j
    <3>1. \A i \in Shown : i \in Nat
      BY ConstantsAssumption DEF Shown
    <3>2. QED
      BY <1>1, <2>1, <3>1, PlacesAreOwn
  <2>4. IsInjective(place)
    BY <2>3 DEF IsInjective
  <2>5. QED
    BY <2>2, <2>4 DEF Injection
<1>3. IsFiniteSet(0 .. n - 1) /\ Cardinality(0 .. n - 1) = n
  BY <1>1, FS_Interval
<1>4. place \in Surjection(Shown, 0 .. n - 1)
  BY <1>2, <1>3, FS_Injection
<1>5. QED
  BY <1>4 DEF Surjection

\* Versions never move in the file, so what a passage shows is one of its own.
LEMMA ReadStands ==
  ASSUME TypeOK, Chained, ProfilesChained
  PROVE  /\ Read \in Seq(RowType)
         /\ \A k \in DOMAIN Read : RowStands(Read[k])
         /\ \A k, l \in DOMAIN Read : k < l => Above(Read[k].passage, Read[l].passage)
<1> DEFINE n == Cardinality(Shown)
           At(k) == CHOOSE i \in Shown : Place(i) = k - 1
<1>1. n \in Nat /\ Read = [k \in 1 .. n |-> Row(Passages[At(k)])]
  BY PlacesAreOwn DEF Read
<1>2. \A k \in 1 .. n : At(k) \in Shown /\ Place(At(k)) = k - 1
  <2> SUFFICES ASSUME NEW k \in 1 .. n PROVE At(k) \in Shown /\ Place(At(k)) = k - 1
    OBVIOUS
  <2>1. k - 1 \in 0 .. Cardinality(Shown) - 1
    BY <1>1
  <2>2. \E i \in Shown : Place(i) = k - 1
    BY <2>1, EveryPlaceIsTaken
  <2>3. QED
    BY <2>2
<1> HIDE DEF n, At
<1>3. \A i \in Shown : i \in DOMAIN Passages /\ i \in Nat /\ Passages[i] \in Passage
  BY ConstantsAssumption DEF Shown, Passage, Range
<1>4. ASSUME NEW p \in Passage
      PROVE  Row(p) \in RowType /\ Row(p).passage = p /\ RowStands(Row(p))
  <2>1. /\ Latest(Heads(p)) \in Nat
        /\ Latest(Heads(p)) # 0 => Latest(Heads(p)) \in History(p)
    <3>1. Heads(p) \subseteq History(p) /\ \A v \in History(p) : v \in Nat
      BY DEF Heads, History, TypeOK
    <3>2. QED
      BY <3>1, HeadsOfAPassage
  <2>2. /\ Latest(ProfileHeads) \in Nat
        /\ Latest(ProfileHeads) # 0 => Latest(ProfileHeads) \in DOMAIN profiles
    BY HeadsOfProfiles DEF TypeOK
  <2>3. QED
    BY <2>1, <2>2 DEF Row, RowType, RowStands
<1>5. Read \in Seq(RowType)
  BY <1>1, <1>2, <1>3, <1>4
<1>6. \A k \in DOMAIN Read : RowStands(Read[k]) /\ Read[k].passage = Passages[At(k)]
  BY <1>1, <1>2, <1>3, <1>4
<1>7. ASSUME NEW k \in DOMAIN Read, NEW l \in DOMAIN Read, k < l
      PROVE  Above(Read[k].passage, Read[l].passage)
  <2>1. k \in 1 .. n /\ l \in 1 .. n
    BY <1>1
  <2>2. /\ At(k) \in Shown /\ At(l) \in Shown /\ Place(At(k)) = k - 1 /\ Place(At(l)) = l - 1
    BY <1>2, <2>1
  <2>3. At(k) < At(l)
    <3>1. Place(At(k)) < Place(At(l))
      BY <1>1, <1>7, <2>1, <2>2
    <3>2. /\ At(l) < At(k) => Place(At(l)) < Place(At(k))
      BY <2>2, PlacesAreOwn
    <3>3. At(k) \in Nat /\ At(l) \in Nat /\ At(k) # At(l)
      BY <1>1, <1>3, <1>7, <2>1, <2>2
    <3>4. QED
      BY <1>1, <1>7, <2>1, <2>2, <3>1, <3>2, <3>3
  <2>4. QED
    BY <1>3, <1>6, <2>2, <2>3 DEF Above
<1>8. QED
  BY <1>5, <1>6, <1>7


LEMMA AboveIsStrict ==
  ASSUME NEW p, NEW q, Above(p, q)
  PROVE  p # q
<1>1. PICK i \in DOMAIN Passages, j \in DOMAIN Passages : i < j /\ Passages[i] = p /\ Passages[j] = q
  BY DEF Above
<1>2. i # j
  BY <1>1, ConstantsAssumption
<1>3. QED
  BY <1>1, <1>2, ConstantsAssumption DEF IsInjective

LEMMA LabelType ==
  ASSUME NEW kind \in {"none", "inherited", "suggested", "accepted", "undo", "entered"}, NEW n \in Nat
  PROVE  Label(kind, n) \in Labels /\ Label(kind, n).kind = kind /\ Label(kind, n).profile = n
BY DEF Label, Labels

\* An old version over the head of its passage.
LEMMA CopyIsSound ==
  ASSUME TypeOK, VersionsStand, NEW v \in DOMAIN readings,
         NEW over \in Nat, over # 0 => over \in History(readings[v].passage)
  PROVE  LET x == Copy(v, over)
         IN  /\ x \in Version /\ x.passage = readings[v].passage
             /\ x.value = readings[v].value /\ x.from = readings[v].from
             /\ x.state = "reviewed" /\ x.over = over
             /\ Sound(x)
             /\ x.parent # 0 => MayBeReported(x.parent, x)
<1> DEFINE x == Copy(v, over)
           old == readings[v]
<1>1. old \in Version
  BY DEF TypeOK
<1>2. /\ x \in Version /\ x.passage = old.passage /\ x.value = old.value /\ x.from = old.from
      /\ x.state = "reviewed" /\ x.over = over /\ x.parent = old.parent
  BY <1>1 DEF Copy, Version, States
<1>3. Grounded(old, {u \in History(old.passage) : u < v}) /\ (old.parent # 0 => MayBeReported(old.parent, old))
  BY DEF VersionsStand
<1>4. v \in History(old.passage)
  BY DEF History
<1> HIDE DEF x, old
<1>5. Grounded(x, History(x.passage))
  <2> SUFFICES ASSUME NEW f \in Fields
               PROVE
    /\ x.from[f].kind = "none" => x.value[f] = None
    /\ x.from[f].kind = "inherited" =>
         /\ x.from[f].profile \in DOMAIN profiles
         /\ Decided(profiles[x.from[f].profile].state)
         /\ profiles[x.from[f].profile].value[f] = x.value[f]
    /\ (x.from[f].kind = "suggested" /\ x.state # "suggested") \/ x.from[f].kind = "accepted" =>
         \E u \in History(x.passage) : readings[u].state = "suggested" /\ readings[u].value[f] = x.value[f]
    /\ x.from[f].kind = "undo" => \E u \in History(x.passage) : readings[u].value[f] = x.value[f]
    BY DEF Grounded
  <2>1. CASE x.from[f].kind = "suggested" /\ old.state = "suggested"
    BY <1>2, <1>4, <2>1 DEF old
  <2>2. CASE ~ (x.from[f].kind = "suggested" /\ old.state = "suggested")
    BY <1>2, <1>3, <2>2 DEF Grounded
  <2>3. QED
    BY <2>1, <2>2
<1>6. Sound(x)
  BY <1>2, <1>5 DEF Sound, old
<1>7. x.parent # 0 => MayBeReported(x.parent, x)
  BY <1>2, <1>3 DEF MayBeReported
<1>8. QED
  BY <1>2, <1>6, <1>7 DEF x, old

\* snapshot is sound, whatever became of the passage since the row was read.
LEMMA SnapshotIsSound ==
  ASSUME TypeOK, VersionsStand, NEW row \in RowType, RowStands(row)
  PROVE  LET x == Snapshot(row)
         IN  /\ x \in Version /\ x.passage = row.passage
             /\ x.state = "reviewed" /\ x.over = row.current
             /\ Sound(x)
             /\ x.parent # 0 => MayBeReported(x.parent, x)
             /\ row.current # 0 => /\ x.value = readings[row.current].value
                                   /\ x.from = readings[row.current].from
<1>1. row.passage \in Passage /\ row.current \in Nat /\ row.profile \in Nat
  BY DEF RowType
<1>2. CASE row.current # 0
  <2>1. /\ row.current \in DOMAIN readings /\ readings[row.current].passage = row.passage
        /\ row.current \in History(readings[row.current].passage)
    BY <1>2 DEF RowStands, History
  <2>2. Snapshot(row) = Copy(row.current, row.current)
    BY <1>2 DEF Snapshot
  <2>3. QED
    BY <1>1, <1>2, <2>1, <2>2, CopyIsSound
<1>3. CASE row.current = 0
  <2> DEFINE value == [f \in Fields |-> Effective(row, f).value]
             from == [f \in Fields |-> Effective(row, f).from]
             x == Snapshot(row)
  <2>1. x = [passage |-> row.passage, value |-> value, from |-> from,
             state |-> "reviewed", over |-> 0, parent |-> 0]
    BY <1>3 DEF Snapshot
  <2>2. ~ Explicit(row)
    BY <1>3 DEF Explicit
  <2>3. ASSUME NEW f \in Fields
        PROVE  /\ value[f] \in Known /\ from[f] \in Labels
               /\ from[f].kind \in {"none", "inherited"}
               /\ from[f].kind = "none" => value[f] = None
               /\ from[f].kind = "inherited" =>
                    /\ from[f].profile \in DOMAIN profiles
                    /\ Decided(profiles[from[f].profile].state)
                    /\ profiles[from[f].profile].value[f] = value[f]
    <3>1. CASE Inherits(row) /\ profiles[row.profile].value[f] # None
      <4>1. Effective(row, f) = [value |-> profiles[row.profile].value[f],
                                 from |-> Label("inherited", row.profile)]
        BY <2>2, <3>1 DEF Effective
      <4>2. row.profile \in DOMAIN profiles /\ Decided(profiles[row.profile].state)
        BY <3>1 DEF Inherits, RowStands
      <4>3. profiles[row.profile].value[f] \in Known
        <5>1. profiles[row.profile] \in Profile
          BY <4>2 DEF TypeOK
        <5> HIDE DEF value, from, x
        <5>2. profiles[row.profile].value \in [Fields -> Known]
          BY <5>1 DEF Profile
        <5>3. QED
          BY <5>2
      <4>4. QED
        BY <1>1, <4>1, <4>2, <4>3, LabelType
    <3>2. CASE ~ (Inherits(row) /\ profiles[row.profile].value[f] # None)
      <4>1. Effective(row, f) = [value |-> None, from |-> Label("none", 0)]
        BY <2>2, <3>2 DEF Effective
      <4>2. None \in Known
        BY DEF Known
      <4>3. QED
        BY <4>1, <4>2, LabelType
    <3>3. QED
      BY <3>1, <3>2
  <2> HIDE DEF value, from
  <2>4. value \in [Fields -> Known] /\ from \in [Fields -> Labels]
    BY <2>3 DEF value, from
  <2> HIDE DEF x
  <2>5. x \in Version /\ x.passage = row.passage /\ x.value = value /\ x.from = from
        /\ x.state = "reviewed" /\ x.over = 0 /\ x.parent = 0
    BY <1>1, <2>1, <2>4 DEF Version, States
  <2>6. Grounded(x, History(x.passage))
    BY <2>3, <2>5 DEF Grounded
  <2>7. Sound(x)
    BY <2>5, <2>6 DEF Sound
  <2>8. QED
    BY <1>3, <2>5, <2>7 DEF x
<1>4. QED
  BY <1>2, <1>3


----------------------------------------------------------------------------
(* Steps that write nothing.                                                *)

\* Whoever read the file before finds it as it was.
LEMMA FileStays ==
  ASSUME readings' = readings, profiles' = profiles
  PROVE  /\ \A x : Sound(x)' <=> Sound(x)
         /\ \A b : SoundBatch(b)' <=> SoundBatch(b)
         /\ \A x : Accepts(x)' <=> Accepts(x)
         /\ \A row : RowStands(row)' <=> RowStands(row)
         /\ \A p : HasHistory(p)' <=> HasHistory(p)
<1>1. \A p : History(p)' = History(p) /\ Heads(p)' = Heads(p)
  BY DEF History, Heads, Superseded
<1>2. \A v : Superseded(v)' <=> Superseded(v)
  BY DEF Superseded
<1>3. \A x, s : Grounded(x, s)' <=> Grounded(x, s)
  BY DEF Grounded
<1>4. \A x : Sound(x)' <=> Sound(x)
  BY <1>1, <1>3 DEF Sound
<1>5. \A b, i : ReportsFrom(b, i)' <=> ReportsFrom(b, i)
  BY DEF ReportsFrom, MayBeReported
<1>6. \A b : SoundBatch(b)' <=> SoundBatch(b)
  BY <1>4, <1>5 DEF SoundBatch
<1>7. \A x : Accepts(x)' <=> Accepts(x)
  BY <1>1, <1>2 DEF Accepts
<1>8. \A row : RowStands(row)' <=> RowStands(row)
  BY <1>1 DEF RowStands
<1>9. \A p : HasHistory(p)' <=> HasHistory(p)
  BY <1>1 DEF HasHistory
<1>10. QED
  BY <1>4, <1>6, <1>7, <1>8, <1>9


\* What process x is about to write may be written.
Prepared(x) ==
  /\ doing[x].op = "append" =>
       SoundBatch(doing[x].batch) /\ \A i \in DOMAIN doing[x].batch : Accepts(doing[x].batch[i])
  /\ doing[x].op = "save" => doing[x].profile.over = Len(profiles)

LEMMA QuietStep ==
  ASSUME IInv, TypeOK', readings' = readings, profiles' = profiles,
         \A x \in Processes : rows'[x] = rows[x] \/ rows'[x] = None \/ rows'[x] = Read,
         \A x \in Processes : ~ moved'[x].read =>
           (~ moved[x].read /\ doing'[x] = doing[x]) \/ Prepared(x)'
  PROVE  IInv'
<1>1. Chained' /\ ProfilesChained' /\ VersionsStand'
  BY DEF IInv, Chained, ProfilesChained, VersionsStand, History, Heads, Superseded, Grounded, MayBeReported
<1>2. RowsStand'
  <2> SUFFICES ASSUME NEW x \in Processes, rows'[x] # None
               PROVE  /\ \A i \in DOMAIN rows'[x] : RowStands(rows[x][i])'
                      /\ \A i, j \in DOMAIN rows'[x] : i < j =>
                           Above(rows'[x][i].passage, rows'[x][j].passage)
    BY DEF RowsStand, Above
  <2>1. \A row : RowStands(row)' <=> RowStands(row)
    BY FileStays
  <2>2. CASE rows'[x] = rows[x]
    <3>1. /\ \A i \in DOMAIN rows[x] : RowStands(rows[x][i])
          /\ \A i, j \in DOMAIN rows[x] : i < j => Above(rows[x][i].passage, rows[x][j].passage)
      BY <2>2 DEF IInv, RowsStand
    <3>2. QED
      BY <2>1, <2>2, <3>1
  <2>3. CASE rows'[x] = Read
    <3>1. /\ \A i \in DOMAIN Read : RowStands(Read[i])
          /\ \A i, j \in DOMAIN Read : i < j => Above(Read[i].passage, Read[j].passage)
      BY ReadStands DEF IInv
    <3>2. QED
      BY <2>1, <2>3, <3>1
  <2>4. QED
    BY <2>2, <2>3
<1>3. CallsStand'
  <2> SUFFICES ASSUME NEW x \in Processes, ~ moved'[x].read
               PROVE  Prepared(x)'
    BY DEF CallsStand, Prepared
  <2>1. CASE ~ moved[x].read /\ doing'[x] = doing[x]
    <3>1. Prepared(x)
      BY <2>1 DEF IInv, CallsStand, Prepared
    <3>2. \A b : SoundBatch(b)' <=> SoundBatch(b)
      BY FileStays
    <3>3. \A v : Accepts(v)' <=> Accepts(v)
      BY FileStays
    <3>4. QED
      BY <2>1, <3>1, <3>2, <3>3 DEF Prepared
  <2>2. QED
    BY <2>1
<1>4. QED
  BY <1>1, <1>2, <1>3 DEF IInv


LEMMA CallTypes ==
  /\ Idle \in Calls /\ [op |-> "failed"] \in Calls
  /\ \A todo \in Todos : Rules(todo) \in Calls
  /\ AfterKey \in Thens /\ Then(Idle, Idle) \in Thens
  /\ \A todo \in Todos : Then(Rules(todo), [op |-> "failed"]) \in Thens
  /\ \A batch \in Seq(Version), then \in Thens :
       [op |-> "append", batch |-> batch, then |-> then] \in Calls
  /\ \A profile \in Profile, then \in Thens :
       [op |-> "save", profile |-> profile, then |-> then] \in Calls
  /\ \A then \in Thens :
       /\ then.refused \in Calls /\ then.refused.op \in {"idle", "failed"}
       /\ then.written \in Calls /\ then.written.op \in {"idle", "refresh", "rules"}
       /\ then.refused.op = "failed" => then.written.op = "rules" /\ then.written.todo \in Todos
<1>1. /\ Idle \in Calls /\ [op |-> "failed"] \in Calls
      /\ \A todo \in Todos : Rules(todo) \in Calls
  BY DEF Idle, Rules, Calls
<1>2. AfterKey \in Thens /\ Then(Idle, Idle) \in Thens
  BY DEF AfterKey, Then, Thens, Idle
<1>3. \A todo \in Todos : Then(Rules(todo), [op |-> "failed"]) \in Thens
  BY DEF Then, Thens, Rules
<1>4. \A batch \in Seq(Version), then \in Thens :
        [op |-> "append", batch |-> batch, then |-> then] \in Calls
  <2> HIDE DEF Version, Thens
  <2>1. QED
    BY DEF Calls, Appends
<1>5. \A profile \in Profile, then \in Thens :
        [op |-> "save", profile |-> profile, then |-> then] \in Calls
  BY DEF Calls, Saves
<1>6. ASSUME NEW then \in Thens
      PROVE  /\ then.refused \in Calls /\ then.refused.op \in {"idle", "failed"}
             /\ then.written \in Calls /\ then.written.op \in {"idle", "refresh", "rules"}
             /\ then.refused.op = "failed" => then.written.op = "rules" /\ then.written.todo \in Todos
  <2>1. CASE then \in [written : [op : {"refresh"}], refused : [op : {"idle"}]]
    BY <2>1 DEF Calls
  <2>2. CASE then \in [written : [op : {"idle"}], refused : [op : {"idle"}]]
    BY <2>2 DEF Calls
  <2>3. CASE then \in [written : [op : {"rules"}, todo : Todos], refused : [op : {"failed"}]]
    BY <2>3 DEF Calls
  <2>4. QED
    BY <2>1, <2>2, <2>3 DEF Thens
<1>7. QED
  BY <1>1, <1>2, <1>3, <1>4, <1>5, <1>6

LEMMA CallFields ==
  ASSUME TypeOK, NEW w \in Processes
  PROVE  /\ doing[w].op = "append" => doing[w].batch \in Seq(Version) /\ doing[w].then \in Thens
         /\ doing[w].op = "save" => doing[w].profile \in Profile /\ doing[w].then \in Thens
         /\ doing[w].op \in {"rules", "propose"} => doing[w].todo \in Todos
         /\ doing[w].op \in {"rules", "propose"} => doing[w] = [op |-> doing[w].op, todo |-> doing[w].todo]
         /\ doing[w].op = "propose" => doing[w].todo # <<>>
<1>1. doing[w] \in Calls
  BY DEF TypeOK
<1>2. QED
  BY <1>1 DEF Calls, Appends, Saves

LEMMA BeginStands ==
  ASSUME IInv, NEW w \in Processes, NEW accepted \in BOOLEAN, NEW call \in Calls,
         Begin(w, accepted, call), UNCHANGED Records,
         call.then \in Thens,
         accepted => /\ call.op = "append" => /\ SoundBatch(call.batch)
                                              /\ \A i \in DOMAIN call.batch : Accepts(call.batch[i])
                     /\ call.op = "save" => call.profile.over = Len(profiles)
  PROVE  IInv'
<1>1. /\ readings' = readings /\ profiles' = profiles /\ withheld' = withheld /\ rows' = rows
  BY DEF Records
<1>2. doing' = [doing EXCEPT ![w] = IF accepted THEN call ELSE call.then.refused]
  BY DEF Begin, Become
<1>3. moved' = [moved EXCEPT ![w].read = FALSE] \/ moved' = moved
  BY DEF Begin
<1>4. call.then.refused \in Calls /\ call.then.refused.op \in {"idle", "failed"}
  BY CallTypes
<1>5. TypeOK'
  <2>1. doing' \in [Processes -> Calls]
    BY <1>2, <1>4 DEF IInv, TypeOK
  <2>2. moved' \in [Processes -> [run : BOOLEAN, read : BOOLEAN]]
    BY <1>3 DEF IInv, TypeOK
  <2>3. QED
    BY <1>1, <2>1, <2>2 DEF IInv, TypeOK
<1>6. ASSUME NEW x \in Processes, ~ moved'[x].read
      PROVE  (~ moved[x].read /\ doing'[x] = doing[x]) \/ Prepared(x)'
  <2>1. CASE x # w
    BY <1>2, <1>3, <1>6, <2>1 DEF IInv, TypeOK
  <2>2. CASE x = w /\ ~ accepted
    <3>1. doing'[x] = call.then.refused
      BY <1>2, <2>2 DEF IInv, TypeOK
    <3>2. QED
      BY <1>4, <3>1 DEF Prepared
  <2>3. CASE x = w /\ accepted
    <3>1. doing'[x] = call
      BY <1>2, <2>3 DEF IInv, TypeOK
    <3>2. /\ \A b : SoundBatch(b)' <=> SoundBatch(b)
          /\ \A v : Accepts(v)' <=> Accepts(v)
      BY <1>1, FileStays
    <3>3. QED
      BY <1>1, <2>3, <3>1, <3>2 DEF Prepared
  <2>4. QED
    BY <2>1, <2>2, <2>3
<1>7. QED
  BY <1>1, <1>5, <1>6, QuietStep

LEMMA WriteStands ==
  ASSUME IInv, NEW w \in Processes, NEW batch \in Seq(Version), NEW then \in Thens,
         SoundBatch(batch), Write(w, batch, then), UNCHANGED Records
  PROVE  IInv'
<1> DEFINE accepted == \A i \in DOMAIN batch : Accepts(batch[i])
           call == [op |-> "append", batch |-> batch, then |-> then]
<1>1. call \in Calls /\ call.op = "append" /\ call.batch = batch /\ call.then = then
  BY CallTypes
<1>2. Begin(w, accepted, call) /\ accepted \in BOOLEAN
  BY DEF Write
<1> HIDE DEF call
<1>3. accepted => \A i \in DOMAIN call.batch : Accepts(call.batch[i])
  BY <1>1
<1> HIDE DEF accepted
<1>4. QED
  BY <1>1, <1>2, <1>3, BeginStands

LEMMA SaveStands ==
  ASSUME IInv, NEW w \in Processes, NEW profile \in Profile, NEW then \in Thens,
         profile.over \in {0, Len(profiles)}, Save(w, profile, then), UNCHANGED Records
  PROVE  IInv'
<1> DEFINE accepted == AcceptsProfile(profile)
           call == [op |-> "save", profile |-> profile, then |-> then]
<1>1. call \in Calls /\ call.op = "save" /\ call.profile = profile /\ call.then = then
  BY CallTypes
<1>2. Begin(w, accepted, call) /\ accepted \in BOOLEAN
  BY DEF Save, AcceptsProfile
<1> HIDE DEF call
<1>3. accepted => profile.over = Len(profiles)
  BY HeadsOfProfiles DEF IInv
<1> HIDE DEF accepted
<1>4. QED
  BY <1>1, <1>2, <1>3, BeginStands


----------------------------------------------------------------------------
(* The keys that write.                                                     *)

\* Process w has rows to press keys on.
Shows(w) ==
  /\ rows[w] \in Seq(RowType)
  /\ \A i \in DOMAIN rows[w] : RowStands(rows[w][i])
  /\ \A i, j \in DOMAIN rows[w] : i < j => Above(rows[w][i].passage, rows[w][j].passage)

LEMMA RowFacts ==
  ASSUME NEW w \in Processes, Shows(w)
  PROVE  /\ rows[w] \in Seq(RowType)
         /\ \A i \in DOMAIN rows[w] : rows[w][i] \in RowType /\ RowStands(rows[w][i])
         /\ \A i, j \in DOMAIN rows[w] : i # j => rows[w][i].passage # rows[w][j].passage
         /\ \A i, j \in DOMAIN rows[w] : i < j => Above(rows[w][i].passage, rows[w][j].passage)
<1>1. rows[w] \in Seq(RowType) /\ \A i \in DOMAIN rows[w] : i \in Nat /\ rows[w][i] \in RowType
  BY DEF Shows
<1>2. /\ \A i \in DOMAIN rows[w] : RowStands(rows[w][i])
      /\ \A i, j \in DOMAIN rows[w] : i < j => Above(rows[w][i].passage, rows[w][j].passage)
  BY DEF Shows
<1>3. \A i, j \in DOMAIN rows[w] : i # j => rows[w][i].passage # rows[w][j].passage
  BY <1>1, <1>2, AboveIsStrict
<1>4. QED
  BY <1>1, <1>2, <1>3

\* The version a key starts from, by its fields.
SnapshotOf(x, row) ==
  /\ x \in Version /\ x.passage = row.passage
  /\ x.state = "reviewed" /\ x.over = row.current
  /\ Sound(x)
  /\ x.parent # 0 => MayBeReported(x.parent, x)
  /\ row.current # 0 => /\ x.value = readings[row.current].value
                        /\ x.from = readings[row.current].from

LEMMA SnapshotFacts ==
  ASSUME IInv, NEW row \in RowType, RowStands(row)
  PROVE  SnapshotOf(Snapshot(row), row)
BY SnapshotIsSound DEF SnapshotOf, IInv

\* One version is a batch of its own.
LEMMA SingleStands ==
  ASSUME IInv, NEW w \in Processes, NEW x \in Version,
         Sound(x), x.parent # 0 => MayBeReported(x.parent, x),
         Key(w, <<x>>), UNCHANGED Records
  PROVE  IInv'
<1> DEFINE batch == <<x>>
<1>1. batch \in Seq(Version) /\ DOMAIN batch = {1} /\ batch[1] = x
  OBVIOUS
<1>2. Write(w, batch, AfterKey)
  BY DEF Key
<1> HIDE DEF batch
<1>3. SoundBatch(batch)
  BY <1>1 DEF SoundBatch, ReportsFrom
<1>4. QED
  BY <1>1, <1>2, <1>3, CallTypes, WriteStands

LEMMA EntryIsSound ==
  ASSUME IInv, NEW row \in RowType, RowStands(row), NEW entry,
         entry.field \in Fields, entry.value \in Known
  PROVE  LET x == Apply(Snapshot(row), entry)
         IN  /\ x \in Version /\ x.passage = row.passage
             /\ Sound(x)
             /\ x.parent # 0 => MayBeReported(x.parent, x)
<1> DEFINE s == Snapshot(row)
           x == Apply(s, entry)
<1>1. SnapshotOf(s, row)
  BY SnapshotFacts
<1> HIDE DEF s
<1>2. Label("entered", 0) \in Labels /\ Label("entered", 0).kind = "entered"
  BY LabelType
<1>3. /\ s \in Version /\ s.value \in [Fields -> Known] /\ s.from \in [Fields -> Labels]
  BY <1>1 DEF SnapshotOf, Version
<1>4. /\ x.value = [s.value EXCEPT ![entry.field] = entry.value]
      /\ x.from = [s.from EXCEPT ![entry.field] = Label("entered", 0)]
      /\ x.passage = s.passage /\ x.state = s.state /\ x.over = s.over /\ x.parent = s.parent
      /\ x \in Version
  <2> DEFINE value == [s.value EXCEPT ![entry.field] = entry.value]
             from == [s.from EXCEPT ![entry.field] = Label("entered", 0)]
  <2>1. value \in [Fields -> Known] /\ from \in [Fields -> Labels]
    BY <1>2, <1>3
  <2>2. x = [s EXCEPT !.value = value, !.from = from]
    BY <1>3 DEF Apply, Version
  <2> HIDE DEF value, from, x
  <2>3. /\ x.value = value /\ x.from = from
        /\ x.passage = s.passage /\ x.state = s.state /\ x.over = s.over /\ x.parent = s.parent
        /\ x \in Version
    BY <1>3, <2>1, <2>2 DEF Version
  <2>4. QED
    BY <2>3 DEF value, from
<1>5. Grounded(x, History(x.passage))
  <2>1. Grounded(s, History(s.passage))
    BY <1>1 DEF SnapshotOf, Sound
  <2>2. /\ x.from[entry.field].kind = "entered"
        /\ \A f \in Fields : f # entry.field => x.from[f] = s.from[f] /\ x.value[f] = s.value[f]
    BY <1>2, <1>3, <1>4
  <2> HIDE DEF x
  <2>3. QED
    BY <1>4, <2>1, <2>2 DEF Grounded
<1> HIDE DEF x
<1>6. Sound(x) /\ (x.parent # 0 => MayBeReported(x.parent, x)) /\ x.passage = row.passage
  BY <1>1, <1>4, <1>5 DEF SnapshotOf, Sound, MayBeReported
<1>7. QED
  BY <1>4, <1>6 DEF x, s

\* Versions of a stretch of the rows, one each, are a batch.
LEMMA StretchStands ==
  ASSUME IInv, NEW w \in Processes, Shows(w),
         NEW from \in DOMAIN rows[w], NEW to \in DOMAIN rows[w], from <= to,
         NEW batch, batch = [i \in 1 .. (to - from + 1) |-> batch[i]],
         \A i \in 1 .. (to - from + 1) :
           /\ batch[i] \in Version /\ batch[i].passage = rows[w][from + i - 1].passage
           /\ Sound(batch[i])
           /\ batch[i].parent # 0 => MayBeReported(batch[i].parent, batch[i]),
         Key(w, batch), UNCHANGED Records
  PROVE  IInv'
<1> DEFINE n == to - from + 1
<1>1. Write(w, batch, AfterKey)
  BY DEF Key
<1>2. from \in Nat /\ to \in Nat /\ n \in Nat /\ \A i \in 1 .. n : from + i - 1 \in DOMAIN rows[w]
  BY RowFacts
<1>3. \A i \in 1 .. n :
        /\ batch[i] \in Version /\ batch[i].passage = rows[w][from + i - 1].passage
        /\ Sound(batch[i])
        /\ batch[i].parent # 0 => MayBeReported(batch[i].parent, batch[i])
  OBVIOUS
<1>4. batch \in Seq(Version) /\ DOMAIN batch = 1 .. n
  <2>1. DOMAIN batch = 1 .. n /\ batch = [i \in 1 .. n |-> batch[i]]
    OBVIOUS
  <2> HIDE DEF n
  <2>2. batch \in [1 .. n -> Version]
    BY <1>3, <2>1
  <2>3. QED
    BY <1>2, <2>1, <2>2
<1>5. \A i, j \in 1 .. n : i # j => batch[i].passage # batch[j].passage
  <2> SUFFICES ASSUME NEW i \in 1 .. n, NEW j \in 1 .. n, i # j
               PROVE  batch[i].passage # batch[j].passage
    OBVIOUS
  <2>1. PICK k \in DOMAIN rows[w], l \in DOMAIN rows[w] : k = from + i - 1 /\ l = from + j - 1
    BY <1>2
  <2>2. k # l
    BY <1>2, <2>1
  <2>3. rows[w][k].passage # rows[w][l].passage
    BY <2>2, RowFacts
  <2>4. batch[i].passage = rows[w][k].passage /\ batch[j].passage = rows[w][l].passage
    BY <1>3, <2>1
  <2>5. QED
    BY <2>3, <2>4
<1> HIDE DEF n
<1>6. SoundBatch(batch)
  BY <1>3, <1>4, <1>5 DEF SoundBatch, ReportsFrom
<1>7. QED
  BY <1>1, <1>4, <1>6, CallTypes, WriteStands

LEMMA EnterStands ==
  ASSUME IInv, NEW w \in Processes, Shows(w),
         NEW from \in DOMAIN rows[w], NEW to \in DOMAIN rows[w], from <= to,
         NEW entry, entry.field \in Fields, entry.value \in Known,
         Enter(w, from, to, entry)
  PROVE  IInv'
<1> DEFINE n == to - from + 1
           batch == [i \in 1 .. n |-> Apply(Snapshot(rows[w][from + i - 1]), entry)]
<1>1. Key(w, batch) /\ UNCHANGED Records
  BY DEF Enter
<1>2. \A i \in 1 .. n : from + i - 1 \in DOMAIN rows[w]
  BY RowFacts
<1>3. \A i \in 1 .. n :
        /\ batch[i] \in Version /\ batch[i].passage = rows[w][from + i - 1].passage
        /\ Sound(batch[i])
        /\ batch[i].parent # 0 => MayBeReported(batch[i].parent, batch[i])
  <2> SUFFICES ASSUME NEW i \in 1 .. n
               PROVE  /\ batch[i] \in Version /\ batch[i].passage = rows[w][from + i - 1].passage
                      /\ Sound(batch[i])
                      /\ batch[i].parent # 0 => MayBeReported(batch[i].parent, batch[i])
    OBVIOUS
  <2> DEFINE row == rows[w][from + i - 1]
  <2>1. row \in RowType /\ RowStands(row)
    BY <1>2, RowFacts
  <2>2. batch[i] = Apply(Snapshot(row), entry)
    OBVIOUS
  <2> HIDE DEF row, batch
  <2>3. /\ batch[i] \in Version /\ batch[i].passage = row.passage
        /\ Sound(batch[i])
        /\ batch[i].parent # 0 => MayBeReported(batch[i].parent, batch[i])
    BY <2>1, <2>2, EntryIsSound
  <2>4. QED
    BY <2>3 DEF row
<1>4. batch = [i \in 1 .. n |-> batch[i]]
  OBVIOUS
<1> HIDE DEF batch
<1>5. QED
  BY <1>1, <1>3, <1>4, StretchStands

LEMMA RejectStands ==
  ASSUME IInv, NEW w \in Processes, Shows(w), NEW i \in DOMAIN rows[w], Reject(w, i)
  PROVE  IInv'
<1> DEFINE row == rows[w][i]
           s == Snapshot(row)
           x == [s EXCEPT !.state = "rejected"]
<1>1. Key(w, <<x>>) /\ UNCHANGED Records /\ row.current # 0 /\ readings[row.current].state = "suggested"
  BY DEF Reject, ShowsCandidate
<1>2. row \in RowType /\ RowStands(row)
  BY RowFacts
<1> HIDE DEF row
<1>3. SnapshotOf(s, row)
  BY <1>2, SnapshotFacts
<1> HIDE DEF s
<1>4. /\ x \in Version /\ x.passage = s.passage /\ x.value = s.value /\ x.from = s.from
      /\ x.state = "rejected" /\ x.over = s.over /\ x.parent = s.parent
  BY <1>3 DEF SnapshotOf, Version, States
<1> HIDE DEF x
<1>5. Grounded(x, History(x.passage))
  <2>1. Grounded(s, History(s.passage)) /\ s.state = "reviewed"
    BY <1>3 DEF SnapshotOf, Sound
  <2>2. QED
    BY <1>4, <2>1 DEF Grounded
<1>6. Sound(x) /\ (x.parent # 0 => MayBeReported(x.parent, x))
  BY <1>3, <1>4, <1>5 DEF SnapshotOf, Sound, MayBeReported
<1>7. QED
  BY <1>1, <1>4, <1>6, SingleStands DEF x

LEMMA AcceptStands ==
  ASSUME IInv, NEW w \in Processes, Shows(w), NEW i \in DOMAIN rows[w], Accept(w, i)
  PROVE  IInv'
<1> DEFINE row == rows[w][i]
           s == Snapshot(row)
           from == [f \in Fields |-> IF f \in Populated(s) THEN Label("accepted", 0) ELSE s.from[f]]
           x == [s EXCEPT !.from = from]
<1>1. /\ Key(w, <<x>>) /\ UNCHANGED Records
      /\ row.current # 0 /\ readings[row.current].state = "suggested"
  BY DEF Accept, ShowsCandidate
<1>2. row \in RowType /\ RowStands(row)
  BY RowFacts
<1> HIDE DEF row
<1>3. SnapshotOf(s, row)
  BY <1>2, SnapshotFacts
<1> HIDE DEF s
<1>4. Label("accepted", 0) \in Labels /\ Label("accepted", 0).kind = "accepted"
  BY LabelType
<1>5. /\ s \in Version /\ s.from \in [Fields -> Labels]
  BY <1>3 DEF SnapshotOf, Version
<1>6. /\ from \in [Fields -> Labels]
      /\ \A f \in Fields : from[f].kind = "accepted" \/ (from[f] = s.from[f])
  BY <1>4, <1>5
<1> HIDE DEF from
<1>7. /\ x \in Version /\ x.passage = s.passage /\ x.value = s.value /\ x.from = from
      /\ x.state = s.state /\ x.over = s.over /\ x.parent = s.parent
  BY <1>5, <1>6 DEF Version
<1> HIDE DEF x
<1>8. Grounded(x, History(x.passage))
  <2>1. Grounded(s, History(s.passage)) /\ s.state = "reviewed"
    BY <1>3 DEF SnapshotOf, Sound
  <2>2. row.current \in History(s.passage) /\ readings[row.current].value = s.value
    BY <1>1, <1>2, <1>3 DEF RowStands, SnapshotOf
  <2>3. \A f \in Fields : from[f].kind = "accepted" =>
          \E u \in History(x.passage) :
            readings[u].state = "suggested" /\ readings[u].value[f] = x.value[f]
    BY <1>1, <1>7, <2>2
  <2>4. QED
    BY <1>6, <1>7, <2>1, <2>3 DEF Grounded
<1>9. Sound(x) /\ (x.parent # 0 => MayBeReported(x.parent, x))
  BY <1>3, <1>7, <1>8 DEF SnapshotOf, Sound, MayBeReported
<1>10. QED
  BY <1>1, <1>7, <1>9, SingleStands DEF x, from

LEMMA UndoStands ==
  ASSUME IInv, NEW w \in Processes, Shows(w), NEW i \in DOMAIN rows[w], Undo(w, i)
  PROVE  IInv'
<1> DEFINE row == rows[w][i]
           earlier == History(row.passage) \ {Latest(History(row.passage))}
           s == Copy(Max(earlier), row.current)
           from == [f \in Fields |-> IF s.from[f].kind = "none" THEN s.from[f] ELSE Label("undo", 0)]
           x == [s EXCEPT !.from = from]
<1>1. Key(w, <<x>>) /\ UNCHANGED Records /\ row.current # 0 /\ earlier # {}
  BY DEF Undo
<1>2. row \in RowType /\ RowStands(row)
  BY RowFacts
<1>3. Max(earlier) \in History(row.passage)
  <2>1. History(row.passage) \in SUBSET (1 .. Len(readings)) /\ Len(readings) \in Nat
    BY DEF History, IInv, TypeOK
  <2>2. Max(earlier) \in earlier
    <3>1. earlier \in SUBSET (1 .. Len(readings))
      BY <2>1
    <3> HIDE DEF earlier
    <3>2. QED
      BY <1>1, <2>1, <3>1, MaxIsGreatest
  <2>3. QED
    BY <2>2
<1> DEFINE v == Max(earlier)
<1> HIDE DEF v
<1>4. /\ v \in DOMAIN readings /\ readings[v].passage = row.passage /\ v \in History(row.passage)
      /\ s = Copy(v, row.current)
  BY <1>3 DEF History, v
<1> HIDE DEF earlier, row, s
<1>5. row.current \in Nat /\ row.current \in History(row.passage)
  BY <1>1, <1>2 DEF RowType, RowStands
<1>6. /\ s \in Version /\ s.passage = row.passage
      /\ s.value = readings[v].value /\ s.from = readings[v].from
      /\ s.state = "reviewed" /\ s.over = row.current
      /\ Sound(s)
      /\ s.parent # 0 => MayBeReported(s.parent, s)
  BY <1>4, <1>5, CopyIsSound DEF IInv
<1>7. Label("undo", 0) \in Labels /\ Label("undo", 0).kind = "undo"
  BY LabelType
<1>8. s.from \in [Fields -> Labels]
  BY <1>6 DEF Version
<1>9. /\ from \in [Fields -> Labels]
      /\ \A f \in Fields : from[f].kind = "undo" \/ (from[f] = s.from[f] /\ from[f].kind = "none")
  BY <1>7, <1>8
<1> HIDE DEF from
<1>10. /\ x \in Version /\ x.passage = s.passage /\ x.value = s.value /\ x.from = from
       /\ x.state = s.state /\ x.over = s.over /\ x.parent = s.parent
  BY <1>6, <1>9 DEF Version
<1> HIDE DEF x
<1>11. Grounded(x, History(x.passage))
  <2>1. Grounded(s, History(s.passage))
    BY <1>6 DEF Sound
  <2>2. v \in History(x.passage) /\ readings[v].value = x.value
    BY <1>4, <1>6, <1>10
  <2>3. QED
    BY <1>9, <1>10, <2>1, <2>2 DEF Grounded
<1>12. Sound(x) /\ (x.parent # 0 => MayBeReported(x.parent, x))
  BY <1>6, <1>10, <1>11 DEF Sound, MayBeReported
<1>13. QED
  BY <1>1, <1>10, <1>12, SingleStands DEF x, from


LEMMA ParentRowIsAbove ==
  ASSUME IInv, NEW w \in Processes, Shows(w), NEW i \in DOMAIN rows[w],
         ParentRow(w, i) # 0
  PROVE  /\ ParentRow(w, i) \in DOMAIN rows[w] /\ ParentRow(w, i) < i
         /\ Above(rows[w][ParentRow(w, i)].passage, rows[w][i].passage)
<1> DEFINE S == {j \in 1 .. (i - 1) : /\ Effective(rows[w][i], "speaker").value # None
                                      /\ Effective(rows[w][j], "speaker").value
                                           = Effective(rows[w][i], "speaker").value}
<1>1. ParentRow(w, i) = Latest(S) /\ S \in SUBSET (1 .. (i - 1))
  BY DEF ParentRow
<1>2. i \in Nat /\ i - 1 \in Nat /\ DOMAIN rows[w] = 1 .. Len(rows[w]) /\ Len(rows[w]) \in Nat
  BY RowFacts
<1> HIDE DEF S
<1>3. S # {} /\ Latest(S) = Max(S)
  BY <1>1 DEF Latest
<1>4. ParentRow(w, i) \in 1 .. (i - 1)
  BY <1>1, <1>2, <1>3, MaxIsGreatest
<1>5. ParentRow(w, i) \in DOMAIN rows[w] /\ ParentRow(w, i) < i
  BY <1>2, <1>4
<1>6. QED
  BY <1>5, RowFacts

LEMMA SetParentStands ==
  ASSUME IInv, NEW w \in Processes, Shows(w), NEW i \in DOMAIN rows[w], SetParent(w, i)
  PROVE  IInv'
<1> DEFINE row == rows[w][i]
           above == rows[w][ParentRow(w, i)]
           child == Snapshot(row)
           first == Snapshot(above)
           alone == [child EXCEPT !.parent = above.current]
           tied == [child EXCEPT !.parent = Len(readings) + 1]
<1>1. /\ UNCHANGED Records /\ ParentRow(w, i) # 0
      /\ StandsDecided(above) => Key(w, <<alone>>)
      /\ ~ StandsDecided(above) => Key(w, <<first, tied>>)
  BY DEF SetParent
<1>2. /\ row \in RowType /\ RowStands(row)
      /\ above \in RowType /\ RowStands(above)
      /\ Above(above.passage, row.passage)
  BY <1>1, ParentRowIsAbove, RowFacts
<1> HIDE DEF row, above
<1>3. SnapshotOf(child, row) /\ SnapshotOf(first, above)
  BY <1>2, SnapshotFacts
<1> HIDE DEF child, first
<1>4. child \in Version /\ first \in Version
  BY <1>3 DEF SnapshotOf
<1>5. ASSUME NEW n \in Nat
      PROVE  LET x == [child EXCEPT !.parent = n]
             IN  /\ x \in Version /\ x.passage = child.passage /\ x.parent = n
                 /\ Sound(x)
  <2> DEFINE x == [child EXCEPT !.parent = n]
  <2>1. /\ x \in Version /\ x.passage = child.passage /\ x.value = child.value
        /\ x.from = child.from /\ x.state = child.state /\ x.over = child.over /\ x.parent = n
    BY <1>4 DEF Version
  <2> HIDE DEF x
  <2>2. Grounded(x, History(x.passage))
    <3>1. Grounded(child, History(child.passage))
      BY <1>3 DEF SnapshotOf, Sound
    <3>2. QED
      BY <2>1, <3>1 DEF Grounded
  <2>3. Sound(x)
    BY <1>3, <2>1, <2>2 DEF SnapshotOf, Sound
  <2>4. QED
    BY <2>1, <2>3 DEF x
<1>6. CASE StandsDecided(above)
  <2>1. above.current \in Nat /\ above.current \in DOMAIN readings
        /\ Decided(readings[above.current].state)
        /\ readings[above.current].passage = above.passage
    BY <1>2, <1>6 DEF StandsDecided, RowType, RowStands, History
  <2>2. alone \in Version /\ alone.passage = row.passage /\ alone.parent = above.current /\ Sound(alone)
    BY <1>3, <1>5, <2>1 DEF SnapshotOf
  <2> HIDE DEF alone
  <2>3. MayBeReported(alone.parent, alone)
    BY <1>2, <2>1, <2>2 DEF MayBeReported
  <2>4. QED
    BY <1>1, <1>6, <2>2, <2>3, SingleStands
<1>7. CASE ~ StandsDecided(above)
  <2>1. Len(readings) \in Nat
    BY DEF IInv, TypeOK
  <2>2. tied \in Version /\ tied.passage = row.passage /\ tied.parent = Len(readings) + 1 /\ Sound(tied)
    BY <1>3, <1>5, <2>1 DEF SnapshotOf
  <2> HIDE DEF tied
  <2> DEFINE batch == <<first, tied>>
  <2>3. batch \in Seq(Version) /\ DOMAIN batch = {1, 2} /\ batch[1] = first /\ batch[2] = tied
    BY <1>4, <2>2
  <2>4. Write(w, batch, AfterKey)
    BY <1>1, <1>7 DEF Key
  <2> HIDE DEF batch
  <2>5. /\ first.passage = above.passage /\ first.state = "reviewed" /\ Sound(first)
        /\ first.parent # 0 => MayBeReported(first.parent, first)
    BY <1>3 DEF SnapshotOf
  <2>6. ReportsFrom(batch, 1)
    BY <2>3, <2>5 DEF ReportsFrom
  <2>7. ReportsFrom(batch, 2)
    BY <1>2, <2>1, <2>2, <2>3, <2>5 DEF ReportsFrom, Decided
  <2>8. batch[1].passage # batch[2].passage
    BY <1>2, <2>2, <2>3, <2>5, AboveIsStrict
  <2>9. SoundBatch(batch)
    BY <2>2, <2>3, <2>5, <2>6, <2>7, <2>8 DEF SoundBatch
  <2>10. QED
    BY <1>1, <2>3, <2>4, <2>9, CallTypes, WriteStands
<1>8. QED
  BY <1>6, <1>7


----------------------------------------------------------------------------
(* The other steps.                                                         *)

LEMMA OpenSweepStands ==
  ASSUME IInv, NEW w \in Processes, OpenSweep(w)
  PROVE  IInv'
<1>1. /\ readings' = readings /\ profiles' = profiles /\ withheld' = withheld
      /\ doing' = doing /\ moved' = moved
      /\ rows' = [rows EXCEPT ![w] = Read]
  BY DEF OpenSweep
<1>2. /\ DOMAIN rows' = Processes /\ rows'[w] = Read
      /\ \A x \in Processes : x # w => rows'[x] = rows[x]
  BY <1>1 DEF IInv, TypeOK
<1>3. Read \in Seq(RowType)
  BY ReadStands DEF IInv
<1>4. TypeOK'
  BY <1>1, <1>2, <1>3 DEF IInv, TypeOK
<1>5. QED
  BY <1>1, <1>2, <1>4, QuietStep

\* A call that only goes on, or ends.
LEMMA GoesOn ==
  ASSUME IInv, NEW w \in Processes, NEW call \in Calls, call.op \notin {"append", "save"},
         readings' = readings, profiles' = profiles, withheld' = withheld,
         DOMAIN rows' = Processes,
         \A x \in Processes : rows'[x] = rows[x] \/ rows'[x] = None \/ rows'[x] = Read,
         Become(w, call),
         moved' \in [Processes -> [run : BOOLEAN, read : BOOLEAN]],
         \A x \in Processes : x # w => moved'[x] = moved[x]
  PROVE  IInv'
<1>1. doing' = [doing EXCEPT ![w] = call]
  BY DEF Become
<1>2. Read \in Seq(RowType)
  BY ReadStands DEF IInv
<1>3. \A x \in Processes : rows'[x] # None => rows'[x] \in Seq(RowType)
  BY <1>2 DEF IInv, TypeOK
<1>4. doing' \in [Processes -> Calls]
  BY <1>1 DEF IInv, TypeOK
<1>5. TypeOK'
  BY <1>3, <1>4 DEF IInv, TypeOK
<1>6. ASSUME NEW x \in Processes, ~ moved'[x].read
      PROVE  (~ moved[x].read /\ doing'[x] = doing[x]) \/ Prepared(x)'
  <2>1. CASE x # w
    BY <1>1, <1>6, <2>1 DEF IInv, TypeOK
  <2>2. CASE x = w
    <3>1. doing'[x] = call
      BY <1>1, <2>2 DEF IInv, TypeOK
    <3>2. QED
      BY <3>1 DEF Prepared
  <2>3. QED
    BY <2>1, <2>2
<1>7. QED
  BY <1>5, <1>6, QuietStep

LEMMA RestMoves ==
  ASSUME TypeOK, NEW w \in Processes, Rest(w)
  PROVE  /\ Become(w, Idle)
         /\ moved' \in [Processes -> [run : BOOLEAN, read : BOOLEAN]]
         /\ \A x \in Processes : x # w => moved'[x] = moved[x]
         /\ moved'[w] = Undisturbed
<1>1. Become(w, Idle) /\ moved' = [moved EXCEPT ![w] = Undisturbed]
  BY DEF Rest
<1>2. Undisturbed \in [run : BOOLEAN, read : BOOLEAN]
  BY DEF Undisturbed
<1>3. QED
  BY <1>1, <1>2 DEF TypeOK

LEMMA RefreshStands ==
  ASSUME IInv, NEW w \in Processes, Refresh(w)
  PROVE  IInv'
<1>1. /\ rows' = [rows EXCEPT ![w] = IF rows[w] = None THEN None ELSE Read]
      /\ Rest(w) /\ readings' = readings /\ profiles' = profiles /\ withheld' = withheld
  BY DEF Refresh
<1>2. /\ DOMAIN rows' = Processes
      /\ \A x \in Processes : rows'[x] = rows[x] \/ rows'[x] = None \/ rows'[x] = Read
  BY <1>1 DEF IInv, TypeOK
<1>3. Idle \in Calls /\ Idle.op = "idle"
  BY CallTypes DEF Idle
<1>4. QED
  BY <1>1, <1>2, <1>3, RestMoves, GoesOn DEF IInv

LEMMA RefuseStands ==
  ASSUME IInv, NEW w \in Processes, Refuse(w)
  PROVE  IInv'
<1>1. /\ readings' = readings /\ profiles' = profiles /\ withheld' = withheld /\ rows' = rows
      /\ doing[w].op \in {"append", "save"}
      /\ \/ Rest(w)
         \/ Become(w, doing[w].then.refused) /\ moved' = moved
  BY DEF Refuse, Records
<1>2. /\ DOMAIN rows' = Processes
      /\ \A x \in Processes : rows'[x] = rows[x] \/ rows'[x] = None \/ rows'[x] = Read
  BY <1>1 DEF IInv, TypeOK
<1>3. CASE Rest(w)
  <2>1. Idle \in Calls /\ Idle.op = "idle"
    BY CallTypes DEF Idle
  <2>2. QED
    BY <1>1, <1>2, <1>3, <2>1, RestMoves, GoesOn DEF IInv
<1>4. CASE Become(w, doing[w].then.refused) /\ moved' = moved
  <2>1. doing[w].then \in Thens
    BY <1>1, CallFields DEF IInv
  <2> DEFINE call == doing[w].then.refused
  <2>2. call \in Calls /\ call.op \notin {"append", "save"}
    BY <2>1, CallTypes
  <2>3. Become(w, call)
    BY <1>4
  <2> HIDE DEF call
  <2>4. moved' \in [Processes -> [run : BOOLEAN, read : BOOLEAN]]
    BY <1>4 DEF IInv, TypeOK
  <2>5. QED
    BY <1>1, <1>2, <1>4, <2>2, <2>3, <2>4, GoesOn
<1>5. QED
  BY <1>1, <1>3, <1>4

LEMMA SaveProfileStands ==
  ASSUME IInv, NEW w \in Processes, SaveProfile(w)
  PROVE  IInv'
<1>1. PICK draft \in ProfileDrafts :
        Save(w, [value |-> draft.value, state |-> draft.state, over |-> Latest(ProfileHeads)], AfterKey)
  BY DEF SaveProfile
<1> DEFINE profile == [value |-> draft.value, state |-> draft.state, over |-> Latest(ProfileHeads)]
<1>2. Latest(ProfileHeads) = Len(profiles) /\ Len(profiles) \in Nat
  BY HeadsOfProfiles DEF IInv, TypeOK
<1>3. draft.value \in [Fields -> Known] /\ draft.state \in States
  <2>1. /\ draft.state \in {"unreviewed", "reviewed"}
        /\ draft.value = [f \in Fields |-> draft.value[f]]
    BY ConstantsAssumption
  <2>2. ASSUME NEW f \in Fields PROVE draft.value[f] \in Known
    <3> DEFINE typed == {draft.value[g] : g \in Fields}
    <3>1. typed \in {{d.value[g] : g \in Fields} : d \in ProfileDrafts}
      OBVIOUS
    <3>2. draft.value[f] \in typed
      OBVIOUS
    <3>3. draft.value[f] \in UNION {{d.value[g] : g \in Fields} : d \in ProfileDrafts}
      BY <3>1, <3>2, Zenon
    <3>4. QED
      BY <3>3 DEF Known
  <2>3. QED
    BY <2>1, <2>2 DEF States
<1>4. profile \in Profile /\ profile.over = Len(profiles)
  BY <1>2, <1>3 DEF Profile
<1> HIDE DEF profile
<1>5. Save(w, profile, AfterKey) /\ UNCHANGED Records
  BY <1>1 DEF profile, SaveProfile
<1>6. QED
  BY <1>4, <1>5, CallTypes, SaveStands


LEMMA BeginRulesStands ==
  ASSUME IInv, NEW w \in Processes, BeginRules(w)
  PROVE  IInv'
<1>1. /\ readings' = readings /\ profiles' = profiles /\ withheld' = withheld /\ rows' = rows
      /\ Become(w, Rules(Detections)) /\ moved' = [moved EXCEPT ![w].run = FALSE]
  BY DEF BeginRules, Records
<1>2. Rules(Detections) \in Calls /\ Rules(Detections).op = "rules"
  BY ConstantsAssumption, CallTypes DEF Rules, Todos
<1>3. /\ DOMAIN rows' = Processes
      /\ \A x \in Processes : rows'[x] = rows[x] \/ rows'[x] = None \/ rows'[x] = Read
      /\ moved' \in [Processes -> [run : BOOLEAN, read : BOOLEAN]]
      /\ \A x \in Processes : x # w => moved'[x] = moved[x]
  BY <1>1 DEF IInv, TypeOK
<1> DEFINE call == Rules(Detections)
<1> HIDE DEF call
<1>4. QED
  BY <1>1, <1>2, <1>3, GoesOn DEF call

LEMMA RuleStepStands ==
  ASSUME IInv, NEW w \in Processes, RuleStep(w)
  PROVE  IInv'
<1> DEFINE todo == doing[w].todo
           call == IF HasHistory(Head(todo).on) THEN Rules(Tail(todo))
                   ELSE [doing[w] EXCEPT !.op = "propose"]
<1>1. /\ readings' = readings /\ profiles' = profiles /\ withheld' = withheld /\ rows' = rows
      /\ moved' = moved
      /\ doing[w].op = "rules" /\ todo # <<>>
      /\ Become(w, call)
  BY DEF RuleStep
<1>2. todo \in Seq(Range(Detections)) /\ doing[w] = [op |-> "rules", todo |-> todo]
  BY <1>1, CallFields DEF IInv, Todos
<1> HIDE DEF todo
<1>3. Rules(Tail(todo)) \in Calls /\ Rules(Tail(todo)).op = "rules"
  BY <1>1, <1>2, CallTypes DEF Todos, Rules
<1>4. /\ [doing[w] EXCEPT !.op = "propose"] = [op |-> "propose", todo |-> todo]
      /\ [op |-> "propose", todo |-> todo] \in Calls
  BY <1>1, <1>2 DEF Calls, Todos
<1>5. call \in Calls /\ call.op \in {"rules", "propose"}
  BY <1>3, <1>4
<1> HIDE DEF call
<1>6. /\ DOMAIN rows' = Processes
      /\ \A x \in Processes : rows'[x] = rows[x] \/ rows'[x] = None \/ rows'[x] = Read
      /\ moved' \in [Processes -> [run : BOOLEAN, read : BOOLEAN]]
      /\ \A x \in Processes : x # w => moved'[x] = moved[x]
  BY <1>1 DEF IInv, TypeOK
<1>7. QED
  BY <1>1, <1>5, <1>6, GoesOn

LEMMA EndRulesStands ==
  ASSUME IInv, NEW w \in Processes, EndRules(w)
  PROVE  IInv'
<1>1. /\ readings' = readings /\ profiles' = profiles /\ withheld' = withheld /\ rows' = rows
      /\ Rest(w)
  BY DEF EndRules, Records
<1>2. /\ DOMAIN rows' = Processes
      /\ \A x \in Processes : rows'[x] = rows[x] \/ rows'[x] = None \/ rows'[x] = Read
  BY <1>1 DEF IInv, TypeOK
<1>3. Idle \in Calls /\ Idle.op = "idle"
  BY CallTypes DEF Idle
<1>4. QED
  BY <1>1, <1>2, <1>3, RestMoves, GoesOn DEF IInv

LEMMA CandidateIsSound ==
  ASSUME NEW d \in Range(Detections), d.on \in Passage
  PROVE  /\ Candidate(d) \in Version /\ Candidate(d).passage = d.on
         /\ Candidate(d).state = "suggested" /\ Candidate(d).over = 0 /\ Candidate(d).parent = 0
         /\ Sound(Candidate(d))
<1> DEFINE x == Candidate(d)
           value == [Unset EXCEPT !.form = d.form]
           from == [NoLabel EXCEPT !.form = Label("suggested", 0)]
<1>1. /\ value = [f \in Fields |-> IF f = "form" THEN d.form ELSE None]
      /\ from = [f \in Fields |-> IF f = "form" THEN Label("suggested", 0) ELSE Label("none", 0)]
  BY DEF Unset, NoLabel, Fields
<1>2. /\ Label("suggested", 0) \in Labels /\ Label("suggested", 0).kind = "suggested"
      /\ Label("none", 0) \in Labels /\ Label("none", 0).kind = "none"
  BY LabelType
<1>3. d.form \in Known /\ None \in Known
  BY DEF Known
<1>4. /\ value \in [Fields -> Known] /\ from \in [Fields -> Labels]
      /\ \A f \in Fields : from[f].kind = "suggested" \/ (from[f].kind = "none" /\ value[f] = None)
  BY <1>1, <1>2, <1>3
<1>5. x = [passage |-> d.on, value |-> value, from |-> from,
           state |-> "suggested", over |-> 0, parent |-> 0]
  BY DEF Candidate
<1> HIDE DEF value, from, x
<1>6. /\ x \in Version /\ x.passage = d.on /\ x.value = value /\ x.from = from
      /\ x.state = "suggested" /\ x.over = 0 /\ x.parent = 0
  BY <1>4, <1>5 DEF Version, States
<1>7. Sound(x)
  BY <1>4, <1>6 DEF Sound, Grounded
<1>8. QED
  BY <1>6, <1>7 DEF x

LEMMA ProposeStands ==
  ASSUME IInv, NEW w \in Processes, Propose(w)
  PROVE  IInv'
<1> DEFINE todo == doing[w].todo
           d == Head(todo)
           then == Then(Rules(Tail(todo)), [op |-> "failed"])
           profile == [value |-> Unset, state |-> "suggested", over |-> 0]
<1>1. /\ UNCHANGED Records /\ doing[w].op = "propose"
      /\ d.on = Source => Save(w, profile, then)
      /\ d.on # Source => Write(w, <<Candidate(d)>>, then)
  BY DEF Propose
<1>2. todo \in Seq(Range(Detections)) /\ todo # <<>>
  BY <1>1, CallFields DEF IInv, Todos
<1> HIDE DEF todo
<1>3. d \in Range(Detections) /\ Tail(todo) \in Todos
  BY <1>2 DEF Todos
<1>4. then \in Thens
  BY <1>3, CallTypes
<1> HIDE DEF d, then
<1>5. CASE d.on = Source
  <2>1. Unset \in [Fields -> Known]
    BY DEF Unset, Known
  <2>2. profile \in Profile /\ profile.over = 0
    BY <2>1 DEF Profile, States
  <2> HIDE DEF profile
  <2>3. QED
    BY <1>1, <1>4, <1>5, <2>2, SaveStands
<1>6. CASE d.on # Source
  <2> DEFINE x == Candidate(d)
             batch == <<x>>
  <2>1. d.on \in Passage
    BY <1>3, <1>6, ConstantsAssumption
  <2>2. x \in Version /\ x.parent = 0 /\ Sound(x)
    BY <1>3, <2>1, CandidateIsSound
  <2> HIDE DEF x
  <2>3. batch \in Seq(Version) /\ DOMAIN batch = {1} /\ batch[1] = x
    BY <2>2
  <2>4. Write(w, batch, then)
    BY <1>1, <1>6 DEF x
  <2> HIDE DEF batch
  <2>5. SoundBatch(batch)
    BY <2>2, <2>3 DEF SoundBatch, ReportsFrom
  <2>6. QED
    BY <1>1, <1>4, <2>3, <2>4, <2>5, WriteStands
<1>7. QED
  BY <1>5, <1>6


----------------------------------------------------------------------------
(* Commits.                                                                 *)

LEMMA WrittenMoves ==
  ASSUME IInv, NEW w \in Processes, Written(w), doing[w].op \in {"append", "save"}
  PROVE  /\ doing' \in [Processes -> Calls]
         /\ moved' \in [Processes -> [run : BOOLEAN, read : BOOLEAN]]
         /\ doing'[w] = doing[w].then.written
         /\ \A x \in Processes : x # w => doing'[x] = doing[x]
         /\ moved'[w] = moved[w]
         /\ \A x \in Processes : x # w =>
              IF doing[x] = Idle THEN moved'[x] = moved[x]
              ELSE moved'[x].read /\ moved'[x].run
         /\ \A x \in Processes : ~ moved'[x].read => doing'[x].op \notin {"append", "save"}
<1>1. doing[w].then \in Thens
  BY CallFields DEF IInv
<1> DEFINE call == doing[w].then.written
<1>2. call \in Calls /\ call.op \notin {"append", "save"}
  BY <1>1, CallTypes
<1>3. doing' = [doing EXCEPT ![w] = call]
  BY DEF Written, Become
<1> HIDE DEF call
<1>4. /\ doing' \in [Processes -> Calls] /\ doing'[w] = call
      /\ \A x \in Processes : x # w => doing'[x] = doing[x]
  BY <1>2, <1>3 DEF IInv, TypeOK
<1> DEFINE late == [run |-> TRUE, read |-> TRUE]
<1>5. moved' = [x \in Processes |-> IF x = w \/ doing[x] = Idle THEN moved[x] ELSE late]
  BY DEF Written
<1>6. late \in [run : BOOLEAN, read : BOOLEAN] /\ late.read /\ late.run
  OBVIOUS
<1> HIDE DEF late
<1>7. moved' \in [Processes -> [run : BOOLEAN, read : BOOLEAN]]
  BY <1>5, <1>6 DEF IInv, TypeOK
<1>8. /\ moved'[w] = moved[w]
      /\ \A x \in Processes : x # w =>
           IF doing[x] = Idle THEN moved'[x] = moved[x] ELSE moved'[x] = late
  BY <1>5
<1>9. \A x \in Processes : x # w =>
        IF doing[x] = Idle THEN moved'[x] = moved[x] ELSE moved'[x].read /\ moved'[x].run
  BY <1>6, <1>8
<1>10. ASSUME NEW x \in Processes, ~ moved'[x].read
       PROVE  doing'[x].op \notin {"append", "save"}
  <2>1. CASE x = w
    BY <1>2, <1>4, <2>1
  <2>2. CASE x # w
    <3>1. doing[x] = Idle
      BY <1>9, <1>10, <2>2
    <3>2. QED
      BY <1>4, <2>2, <3>1 DEF Idle
  <2>3. QED
    BY <2>1, <2>2
<1>11. QED
  BY <1>4, <1>7, <1>8, <1>9, <1>10 DEF call

LEMMA CommitProfileStands ==
  ASSUME IInv, NEW w \in Processes, CommitProfile(w)
  PROVE  IInv'
<1> DEFINE x == doing[w].profile
<1>1. /\ doing[w].op = "save" /\ ~ moved[w].read /\ profiles' = Append(profiles, x)
      /\ Written(w) /\ readings' = readings /\ withheld' = withheld /\ rows' = rows
  BY DEF CommitProfile
<1>2. x \in Profile /\ x.over = Len(profiles)
  BY <1>1, CallFields DEF IInv, CallsStand
<1> HIDE DEF x
<1>3. profiles \in Seq(Profile) /\ Len(profiles) \in Nat
  BY DEF IInv, TypeOK
<1>4. /\ profiles' \in Seq(Profile) /\ DOMAIN profiles' = 1 .. Len(profiles) + 1
      /\ \A v \in DOMAIN profiles : v \in DOMAIN profiles' /\ profiles'[v] = profiles[v]
      /\ profiles'[Len(profiles) + 1] = x
  BY <1>1, <1>2, <1>3
<1>5. TypeOK'
  BY <1>1, <1>4, WrittenMoves DEF IInv, TypeOK
<1>6. Chained'
  BY <1>1 DEF IInv, Chained, History, Heads, Superseded
<1>7. ProfilesChained'
  BY <1>2, <1>3, <1>4 DEF IInv, ProfilesChained
<1>8. VersionsStand'
  <2> SUFFICES ASSUME NEW v \in DOMAIN readings
      PROVE  /\ readings[v].state = "suggested" => \A u \in History(readings[v].passage) : v <= u
             /\ Grounded(readings[v], {u \in History(readings[v].passage) : u < v})'
             /\ readings[v].parent # 0 => MayBeReported(readings[v].parent, readings[v])
    BY <1>1 DEF VersionsStand, History, MayBeReported
  <2>1. /\ readings[v].state = "suggested" => \A u \in History(readings[v].passage) : v <= u
        /\ Grounded(readings[v], {u \in History(readings[v].passage) : u < v})
        /\ readings[v].parent # 0 => MayBeReported(readings[v].parent, readings[v])
    BY DEF IInv, VersionsStand
  <2>2. Grounded(readings[v], {u \in History(readings[v].passage) : u < v})'
    BY <1>1, <1>4, <2>1 DEF Grounded, History
  <2>3. QED
    BY <2>1, <2>2
<1>9. RowsStand'
  BY <1>1, <1>4 DEF IInv, RowsStand, RowStands, History, Above
<1>10. CallsStand'
  BY <1>1, WrittenMoves DEF CallsStand
<1>11. QED
  BY <1>5, <1>6, <1>7, <1>8, <1>9, <1>10 DEF IInv


\* What the file is after batch b was written to it.
Appended(b) ==
  LET n == Len(readings)
  IN  /\ readings' \in Seq(Version) /\ n \in Nat
      /\ DOMAIN readings = 1 .. n
      /\ \A v \in DOMAIN readings : v \in DOMAIN readings' /\ readings'[v] = readings[v]
      /\ \A i \in DOMAIN b : /\ i \in Nat /\ i > 0 /\ n + i \in DOMAIN readings'
                             /\ readings'[n + i] = b[i]
      /\ \A v \in DOMAIN readings' : v \in Nat /\ (v \in DOMAIN readings \/ \E i \in DOMAIN b : v = n + i)

LEMMA AppendedFacts ==
  ASSUME IInv, NEW b \in Seq(Version), readings' = readings \o b
  PROVE  Appended(b)
<1>1. readings \in Seq(Version)
  BY DEF IInv, TypeOK
<1>2. readings' \in Seq(Version) /\ Len(readings') = Len(readings) + Len(b)
  BY <1>1
<1>3. \A i \in DOMAIN b : i \in Nat /\ i > 0 /\ i <= Len(b) /\ readings'[Len(readings) + i] = b[i]
  BY <1>1
<1>4. \A v \in DOMAIN readings : readings'[v] = readings[v]
  BY <1>1
<1>5. /\ Len(readings) \in Nat /\ Len(b) \in Nat /\ DOMAIN b = 1 .. Len(b)
      /\ DOMAIN readings = 1 .. Len(readings) /\ DOMAIN readings' = 1 .. Len(readings) + Len(b)
  BY <1>1, <1>2
<1>6. ASSUME NEW v \in DOMAIN readings'
      PROVE  v \in Nat /\ (v \in DOMAIN readings \/ \E i \in DOMAIN b : v = Len(readings) + i)
  <2>1. v \in Nat /\ v >= 1 /\ v <= Len(readings) + Len(b)
    BY <1>5
  <2>2. CASE v <= Len(readings)
    BY <1>5, <2>1, <2>2
  <2>3. CASE v > Len(readings)
    <3>1. v - Len(readings) \in DOMAIN b /\ v = Len(readings) + (v - Len(readings))
      BY <1>5, <2>1, <2>3
    <3>2. QED
      BY <2>1, <3>1
  <2>4. QED
    BY <1>5, <2>1, <2>2, <2>3
<1>7. \A v \in DOMAIN readings : v \in DOMAIN readings'
  BY <1>5
<1>8. \A i \in DOMAIN b : Len(readings) + i \in DOMAIN readings'
  BY <1>3, <1>5
<1>9. QED
  BY <1>2, <1>3, <1>4, <1>5, <1>6, <1>7, <1>8 DEF Appended

LEMMA HistoryGrows ==
  ASSUME IInv, NEW b \in Seq(Version), Appended(b), SoundBatch(b),
         \A i \in DOMAIN b : Accepts(b[i])
  PROVE  LET n == Len(readings)
         IN  /\ \A p, u : u \in History(p)' <=>
                  u \in History(p) \/ \E i \in DOMAIN b : u = n + i /\ b[i].passage = p
             /\ \A v \in DOMAIN readings :
                  Superseded(v)' <=> Superseded(v) \/ \E i \in DOMAIN b : b[i].over = v
             /\ \A i \in DOMAIN b : \A v : v = n + i => ~ Superseded(v)'
             /\ \A i \in DOMAIN b : \A u \in History(b[i].passage) : Superseded(u)'
             /\ \A i \in DOMAIN b : b[i].over = 0 => History(b[i].passage) = {}
<1> DEFINE n == Len(readings)
<1>1. /\ readings' \in Seq(Version) /\ n \in Nat
      /\ DOMAIN readings = 1 .. n
      /\ \A v \in DOMAIN readings : v \in DOMAIN readings' /\ readings'[v] = readings[v]
      /\ \A i \in DOMAIN b : /\ i \in Nat /\ i > 0 /\ n + i \in DOMAIN readings'
                             /\ readings'[n + i] = b[i]
      /\ \A v \in DOMAIN readings' : v \in Nat /\ (v \in DOMAIN readings \/ \E i \in DOMAIN b : v = n + i)
  BY DEF Appended
<1>2. \A i \in DOMAIN b : Sound(b[i]) /\ b[i] \in Version /\ Accepts(b[i])
  BY DEF SoundBatch
<1> HIDE DEF n
<1>3. \A p, u : u \in History(p)' <=>
        u \in History(p) \/ \E i \in DOMAIN b : u = n + i /\ b[i].passage = p
  BY <1>1 DEF History
<1>4. \A v \in DOMAIN readings :
        Superseded(v)' <=> Superseded(v) \/ \E i \in DOMAIN b : b[i].over = v
  <2> SUFFICES ASSUME NEW v \in DOMAIN readings
               PROVE  Superseded(v)' <=> Superseded(v) \/ \E i \in DOMAIN b : b[i].over = v
    OBVIOUS
  <2>1. ASSUME Superseded(v)' PROVE Superseded(v) \/ \E i \in DOMAIN b : b[i].over = v
    <3>1. PICK u \in DOMAIN readings' : readings'[u].over = v
      BY <2>1 DEF Superseded
    <3>2. CASE u \in DOMAIN readings
      BY <1>1, <3>1, <3>2 DEF Superseded
    <3>3. CASE u \notin DOMAIN readings
      BY <1>1, <3>1, <3>3
    <3>4. QED
      BY <3>2, <3>3
  <2>2. ASSUME Superseded(v) PROVE Superseded(v)'
    BY <1>1, <2>2 DEF Superseded
  <2>3. ASSUME NEW i \in DOMAIN b, b[i].over = v PROVE Superseded(v)'
    <3>1. n + i \in DOMAIN readings' /\ readings'[n + i].over = v
      BY <1>1, <2>3
    <3>2. QED
      BY <3>1 DEF Superseded
  <2>4. QED
    BY <2>1, <2>2, <2>3
<1>5. \A v \in DOMAIN readings : readings[v].over # 0 => readings[v].over < v
  BY DEF IInv, Chained
<1>6. \A i \in DOMAIN b : b[i].over # 0 => b[i].over \in History(b[i].passage)
  BY <1>2 DEF Sound
<1>7. ASSUME NEW i \in DOMAIN b, NEW v, v = n + i, Superseded(v)' PROVE FALSE
  <2>1. PICK u \in DOMAIN readings' : readings'[u].over = n + i
    <3>1. PICK u \in DOMAIN readings' : readings'[u].over = v
      BY <1>7 DEF Superseded
    <3>2. QED
      BY <1>7, <3>1
  <2>2. n + i > n /\ n + i # 0 /\ n + i \in Nat
    BY <1>1
  <2>3. CASE u \in DOMAIN readings
    <3>1. readings[u].over < u /\ u <= n /\ u \in Nat
      BY <1>1, <1>5, <2>1, <2>2, <2>3
    <3>2. readings[u].over = n + i
      BY <1>1, <2>1, <2>3
    <3>3. QED
      BY <1>1, <2>2, <3>1, <3>2
  <2>4. CASE u \notin DOMAIN readings
    <3>1. PICK j \in DOMAIN b : u = n + j
      BY <1>1, <2>4
    <3>2. b[j].over = n + i
      BY <1>1, <2>1, <3>1
    <3>3. n + i \in DOMAIN readings
      BY <1>6, <2>2, <3>2 DEF History
    <3>4. QED
      BY <1>1, <2>2, <3>3
  <2>5. QED
    BY <2>3, <2>4
<1>8. ASSUME NEW i \in DOMAIN b, b[i].over = 0 PROVE History(b[i].passage) = {}
  <2>1. Heads(b[i].passage) = {}
    BY <1>2, <1>8 DEF Accepts
  <2>2. b[i].passage \in Passage
    BY <1>2 DEF Version
  <2>3. QED
    BY <2>1, <2>2, HeadsOfAPassage DEF IInv
<1>9. ASSUME NEW i \in DOMAIN b, NEW u \in History(b[i].passage)
      PROVE  Superseded(u)'
  <2>1. b[i].over # 0 /\ b[i].over \in History(b[i].passage) /\ ~ Superseded(b[i].over)
    BY <1>2, <1>6, <1>8, <1>9 DEF Accepts
  <2>2. b[i].over \in Heads(b[i].passage) /\ b[i].passage \in Passage
    BY <1>2, <2>1 DEF Heads, Version
  <2>3. u \in DOMAIN readings
    BY DEF History
  <2>4. ~ Superseded(u) => u = b[i].over
    <3>1. ~ Superseded(u) => u \in Heads(b[i].passage)
      BY DEF Heads
    <3>2. QED
      BY <2>2, <3>1, HeadsOfAPassage DEF IInv
  <2>5. QED
    BY <1>4, <2>3, <2>4
<1>10. QED
  BY <1>3, <1>4, <1>7, <1>8, <1>9 DEF n


LEMMA ChainGrows ==
  ASSUME IInv, NEW b \in Seq(Version), Appended(b), SoundBatch(b),
         \A i \in DOMAIN b : Accepts(b[i])
  PROVE  Chained'
<1> DEFINE n == Len(readings)
<1>1. /\ n \in Nat /\ DOMAIN readings = 1 .. n
      /\ \A v \in DOMAIN readings : v \in DOMAIN readings' /\ readings'[v] = readings[v]
      /\ \A i \in DOMAIN b : /\ i \in Nat /\ i > 0 /\ n + i \in DOMAIN readings'
                             /\ readings'[n + i] = b[i]
      /\ \A v \in DOMAIN readings' : v \in Nat /\ (v \in DOMAIN readings \/ \E i \in DOMAIN b : v = n + i)
  BY DEF Appended
<1>2. /\ \A p, u : u \in History(p)' <=>
           u \in History(p) \/ \E i \in DOMAIN b : u = n + i /\ b[i].passage = p
      /\ \A v \in DOMAIN readings :
           Superseded(v)' <=> Superseded(v) \/ \E i \in DOMAIN b : b[i].over = v
      /\ \A i \in DOMAIN b : \A v : v = n + i => ~ Superseded(v)'
      /\ \A i \in DOMAIN b : \A u \in History(b[i].passage) : Superseded(u)'
  BY HistoryGrows
<1> HIDE DEF n
<1>3. \A i \in DOMAIN b : b[i].over # 0 => b[i].over \in History(b[i].passage)
  BY DEF SoundBatch, Sound
<1>4. \A i, j \in DOMAIN b : i # j => b[i].passage # b[j].passage
  BY DEF SoundBatch
<1>5. \A p, u : u \in History(p) <=> u \in DOMAIN readings /\ readings[u].passage = p
  BY DEF History
<1>6. ASSUME NEW v \in DOMAIN readings', readings'[v].over # 0
      PROVE  /\ readings'[v].over \in DOMAIN readings' /\ readings'[v].over < v
             /\ readings'[readings'[v].over].passage = readings'[v].passage
  <2>1. CASE v \in DOMAIN readings
    <3>1. /\ readings[v].over \in DOMAIN readings /\ readings[v].over < v
          /\ readings[readings[v].over].passage = readings[v].passage
      BY <1>1, <1>6, <2>1 DEF IInv, Chained
    <3>2. QED
      BY <1>1, <2>1, <3>1
  <2>2. CASE v \notin DOMAIN readings
    <3>1. PICK i \in DOMAIN b : v = n + i
      BY <1>1, <2>2
    <3>2. b[i].over \in DOMAIN readings /\ readings[b[i].over].passage = b[i].passage
      BY <1>1, <1>3, <1>5, <1>6, <3>1
    <3>3. b[i].over < v
      BY <1>1, <3>1, <3>2
    <3>4. QED
      BY <1>1, <3>1, <3>2, <3>3
  <2>3. QED
    BY <2>1, <2>2
<1>7. ASSUME NEW p, NEW v \in History(p)'
      PROVE  \E h \in Heads(p)' : \A u \in History(p)' : u <= h /\ (u = h \/ Superseded(u)')
  <2>1. CASE \E i \in DOMAIN b : b[i].passage = p
    <3>1. PICK i \in DOMAIN b : b[i].passage = p
      BY <2>1
    <3>2. PICK h : h = n + i
      OBVIOUS
    <3>3. h \in History(p)' /\ ~ Superseded(h)'
      BY <1>2, <3>1, <3>2
    <3>4. h \in Heads(p)'
      BY <3>3 DEF Heads
    <3>5. ASSUME NEW u \in History(p)' PROVE u <= h /\ (u = h \/ Superseded(u)')
      <4>1. CASE u \in History(p)
        <5>1. u \in 1 .. n /\ Superseded(u)'
          BY <1>1, <1>2, <1>5, <3>1, <4>1
        <5>2. QED
          BY <1>1, <3>2, <5>1
      <4>2. CASE u \notin History(p)
        <5>1. PICK j \in DOMAIN b : u = n + j /\ b[j].passage = p
          BY <1>2, <4>2
        <5>2. j = i
          BY <1>4, <3>1, <5>1
        <5>3. QED
          BY <1>1, <3>2, <5>1, <5>2
      <4>3. QED
        BY <4>1, <4>2
    <3>6. QED
      BY <3>4, <3>5
  <2>2. CASE ~ \E i \in DOMAIN b : b[i].passage = p
    <3>1. \A u : u \in History(p)' <=> u \in History(p)
      BY <1>2, <2>2
    <3>2. v \in DOMAIN readings /\ readings[v].passage = p
      BY <1>5, <3>1
    <3>3. PICK h \in Heads(p) : \A u \in History(p) : u <= h /\ (u = h \/ Superseded(u))
      BY <3>2 DEF IInv, Chained
    <3>4. h \in History(p) /\ h \in DOMAIN readings /\ readings[h].passage = p /\ ~ Superseded(h)
      BY <1>5, <3>3 DEF Heads
    <3>5. ~ Superseded(h)'
      <4>1. \A i \in DOMAIN b : b[i].over # h
        <5>1. h # 0
          BY <1>1, <3>4
        <5>2. QED
          BY <1>3, <1>5, <2>2, <3>4, <5>1
      <4>2. QED
        BY <1>2, <3>4, <4>1
    <3>6. h \in Heads(p)'
      BY <3>1, <3>4, <3>5 DEF Heads
    <3>7. \A u \in History(p)' : u <= h /\ (u = h \/ Superseded(u)')
      BY <1>2, <1>5, <3>1, <3>3
    <3>8. QED
      BY <3>6, <3>7
  <2>3. QED
    BY <2>1, <2>2
<1>8. ASSUME NEW v \in DOMAIN readings'
      PROVE  \E h \in Heads(readings[v].passage)' :
               \A u \in History(readings[v].passage)' : u <= h /\ (u = h \/ Superseded(u)')
  <2>1. PICK p : p = readings'[v].passage
    OBVIOUS
  <2>2. v \in History(p)'
    BY <2>1 DEF History
  <2>3. \E h \in Heads(p)' : \A u \in History(p)' : u <= h /\ (u = h \/ Superseded(u)')
    BY <1>7, <2>2
  <2>4. QED
    BY <2>1, <2>3
<1>9. QED
  BY <1>6, <1>8 DEF Chained


LEMMA GroundedGrows ==
  ASSUME NEW b, Appended(b), profiles' = profiles, NEW x, NEW before, NEW after,
         before \subseteq after, before \subseteq DOMAIN readings, Grounded(x, before)
  PROVE  Grounded(x, after)'
<1>1. \A v \in before : v \in after /\ readings'[v] = readings[v]
  BY DEF Appended
<1>2. QED
  BY <1>1 DEF Grounded

LEMMA VersionsGrow ==
  ASSUME IInv, NEW b \in Seq(Version), Appended(b), SoundBatch(b),
         \A i \in DOMAIN b : Accepts(b[i]), profiles' = profiles
  PROVE  VersionsStand'
<1> DEFINE n == Len(readings)
<1>1. /\ n \in Nat /\ DOMAIN readings = 1 .. n
      /\ \A v \in DOMAIN readings : v \in DOMAIN readings' /\ readings'[v] = readings[v]
      /\ \A i \in DOMAIN b : /\ i \in Nat /\ i > 0 /\ n + i \in DOMAIN readings'
                             /\ readings'[n + i] = b[i]
      /\ \A v \in DOMAIN readings' : v \in Nat /\ (v \in DOMAIN readings \/ \E i \in DOMAIN b : v = n + i)
  BY DEF Appended
<1>2. /\ \A p, u : u \in History(p)' <=>
           u \in History(p) \/ \E i \in DOMAIN b : u = n + i /\ b[i].passage = p
      /\ \A i \in DOMAIN b : b[i].over = 0 => History(b[i].passage) = {}
  BY HistoryGrows
<1>3. \A i \in DOMAIN b : ReportsFrom(b, i)
  BY DEF SoundBatch
<1>4. \A x, k : MayBeReported(k, x) => MayBeReported(k, x)'
  BY <1>1 DEF MayBeReported
<1> HIDE DEF n
<1>5. \A i, j \in DOMAIN b : i # j => b[i].passage # b[j].passage
  BY DEF SoundBatch
<1>6. \A p, u : u \in History(p) <=> u \in DOMAIN readings /\ readings[u].passage = p
  BY DEF History
<1>7. ASSUME NEW v \in DOMAIN readings', NEW x, x = readings'[v]
      PROVE  /\ x.state = "suggested" => \A u \in History(x.passage)' : v <= u
             /\ Grounded(x, {u \in History(x.passage) : u < v})'
             /\ x.parent # 0 => MayBeReported(x.parent, x)'
  <2>0. PICK after : after = {u \in History(x.passage)' : u < v}
    OBVIOUS
  <2>1. CASE v \in DOMAIN readings
    <3>1. x = readings[v]
      BY <1>1, <1>7, <2>1
    <3>2. PICK before : before = {u \in History(x.passage) : u < v}
      OBVIOUS
    <3>3. /\ x.state = "suggested" => \A u \in History(x.passage) : v <= u
          /\ Grounded(x, before)
          /\ x.parent # 0 => MayBeReported(x.parent, x)
      BY <2>1, <3>1, <3>2 DEF IInv, VersionsStand
    <3>4. \A u \in History(x.passage)' : u \in History(x.passage) \/ v < u
      BY <1>1, <1>2, <2>1
    <3>5. v \in Nat /\ \A u \in History(x.passage)' : u \in Nat
      BY <1>1 DEF History
    <3>6. before \subseteq after /\ before \subseteq DOMAIN readings
      BY <1>2, <1>6, <2>0, <3>2
    <3>7. Grounded(x, after)'
      BY <3>3, <3>6, GroundedGrows
    <3>8. x.state = "suggested" => \A u \in History(x.passage)' : v <= u
      BY <3>3, <3>4, <3>5
    <3>9. Grounded(x, {u \in History(x.passage) : u < v})'
      BY <2>0, <3>7
    <3>10. QED
      BY <1>4, <3>3, <3>8, <3>9
  <2>2. CASE v \notin DOMAIN readings
    <3>1. PICK i \in DOMAIN b : v = n + i
      BY <1>1, <2>2
    <3>2. x = b[i]
      BY <1>1, <1>7, <3>1
    <3>3. PICK before : before = History(x.passage)
      OBVIOUS
    <3>4. Grounded(x, before) /\ (x.state = "suggested" => x.over = 0)
      BY <3>2, <3>3 DEF SoundBatch, Sound
    <3>5. \A u \in before : u \in DOMAIN readings /\ u < v
      BY <1>1, <1>6, <3>1, <3>3
    <3>6. before \subseteq after /\ before \subseteq DOMAIN readings
      BY <1>2, <2>0, <3>3, <3>5
    <3>7. Grounded(x, after)'
      BY <3>4, <3>6, GroundedGrows
    <3>8. ASSUME x.state = "suggested", NEW u \in History(x.passage)' PROVE v <= u
      <4>1. History(x.passage) = {}
        BY <1>2, <3>2, <3>4, <3>8
      <4>2. PICK j \in DOMAIN b : u = n + j /\ b[j].passage = x.passage
        BY <1>2, <3>8, <4>1
      <4>3. j = i
        BY <1>5, <3>2, <4>2
      <4>4. QED
        BY <1>1, <3>1, <4>2, <4>3
    <3>9. x.parent # 0 => MayBeReported(x.parent, x)'
      <4>1. CASE MayBeReported(x.parent, x)
        BY <1>4, <4>1
      <4>2. ASSUME NEW k \in DOMAIN b,
                   x.parent = n + k, Decided(b[k].state), Above(b[k].passage, x.passage)
            PROVE  MayBeReported(x.parent, x)'
        <5>1. n + k \in DOMAIN readings' /\ readings'[n + k] = b[k]
          BY <1>1
        <5>2. QED
          BY <4>2, <5>1 DEF MayBeReported, Above, Decided
      <4>3. QED
        BY <1>3, <3>2, <4>1, <4>2 DEF ReportsFrom, n
    <3>10. Grounded(x, {u \in History(x.passage) : u < v})'
      BY <2>0, <3>7
    <3>11. QED
      BY <3>8, <3>9, <3>10
  <2>3. QED
    BY <2>1, <2>2
<1>8. ASSUME NEW v \in DOMAIN readings'
      PROVE  /\ readings'[v].state = "suggested" => \A u \in History(readings[v].passage)' : v <= u
             /\ Grounded(readings[v], {u \in History(readings[v].passage) : u < v})'
             /\ readings'[v].parent # 0 => MayBeReported(readings[v].parent, readings[v])'
  <2>1. PICK x : x = readings'[v]
    OBVIOUS
  <2>2. /\ x.state = "suggested" => \A u \in History(x.passage)' : v <= u
        /\ Grounded(x, {u \in History(x.passage) : u < v})'
        /\ x.parent # 0 => MayBeReported(x.parent, x)'
    BY <1>7, <2>1
  <2>3. QED
    BY <2>1, <2>2
<1>9. QED
  BY <1>8 DEF VersionsStand

LEMMA CommitStands ==
  ASSUME IInv, NEW w \in Processes, Commit(w)
  PROVE  IInv'
<1> DEFINE b == doing[w].batch
<1>1. /\ doing[w].op = "append" /\ ~ moved[w].read /\ readings' = readings \o b
      /\ Written(w) /\ profiles' = profiles /\ withheld' = withheld /\ rows' = rows
  BY DEF Commit
<1>2. b \in Seq(Version) /\ SoundBatch(b) /\ \A i \in DOMAIN b : Accepts(b[i])
  BY <1>1, CallFields DEF IInv, CallsStand
<1> HIDE DEF b
<1>3. Appended(b)
  BY <1>1, <1>2, AppendedFacts
<1>4. TypeOK'
  <2>1. readings' \in Seq(Version)
    BY <1>3 DEF Appended
  <2>2. QED
    BY <1>1, <2>1, WrittenMoves DEF IInv, TypeOK
<1>5. Chained'
  BY <1>2, <1>3, ChainGrows
<1>6. ProfilesChained'
  BY <1>1 DEF IInv, ProfilesChained
<1>7. VersionsStand'
  BY <1>1, <1>2, <1>3, VersionsGrow
<1>8. RowsStand'
  <2>1. \A row : RowStands(row) => RowStands(row)'
    BY <1>1, <1>3 DEF RowStands, History, Appended
  <2>2. QED
    BY <1>1, <2>1 DEF IInv, RowsStand, Above
<1>9. CallsStand'
  BY <1>1, WrittenMoves DEF CallsStand
<1>10. QED
  BY <1>4, <1>5, <1>6, <1>7, <1>8, <1>9 DEF IInv


----------------------------------------------------------------------------
(* The inductive invariant is inductive.                                    *)

LEMMA InitStands == Init => IInv
<1> SUFFICES ASSUME Init PROVE IInv
  OBVIOUS
<1>1. Idle \in Calls /\ Undisturbed \in [run : BOOLEAN, read : BOOLEAN]
  BY CallTypes DEF Undisturbed
<1>2. TypeOK
  BY <1>1 DEF Init, TypeOK
<1>3. Chained /\ ProfilesChained /\ VersionsStand /\ RowsStand
  BY DEF Init, Chained, ProfilesChained, VersionsStand, RowsStand
<1>4. CallsStand
  BY DEF Init, CallsStand, Idle
<1>5. QED
  BY <1>2, <1>3, <1>4 DEF IInv

LEMMA StillStands ==
  ASSUME IInv, UNCHANGED vars
  PROVE  IInv'
<1>1. /\ readings' = readings /\ profiles' = profiles /\ withheld' = withheld
      /\ rows' = rows /\ doing' = doing /\ moved' = moved
  BY DEF vars
<1>2. TypeOK'
  BY <1>1 DEF IInv, TypeOK
<1>3. QED
  BY <1>1, <1>2, QuietStep

LEMMA KeyStands ==
  ASSUME IInv, NEW w \in Processes, rows[w] # None, PressAnywhere(w)
  PROVE  IInv'
<1>1. Shows(w)
  BY DEF IInv, TypeOK, RowsStand, Shows
<1>2. ASSUME NEW from \in DOMAIN rows[w], NEW to \in DOMAIN rows[w], NEW entry \in Entries,
             from <= to, Enter(w, from, to, entry)
      PROVE  IInv'
  <2>1. entry.field \in Fields /\ entry.value \in Known
    BY ConstantsAssumption DEF Known
  <2>2. QED
    BY <1>1, <1>2, <2>1, EnterStands
<1>3. ASSUME NEW i \in DOMAIN rows[w], Accept(w, i) \/ Reject(w, i) \/ Undo(w, i)
      PROVE  IInv'
  BY <1>1, <1>3, AcceptStands, RejectStands, UndoStands
<1>4. ASSUME NEW i \in DOMAIN rows[w], SetParent(w, i)
      PROVE  IInv'
  BY <1>1, <1>4, SetParentStands
<1>5. QED
  BY <1>2, <1>3, <1>4 DEF PressAnywhere

LEMMA NextStands == IInv /\ [Next]_vars => IInv'
<1> SUFFICES ASSUME IInv, [Next]_vars PROVE IInv'
  OBVIOUS
<1>1. CASE UNCHANGED vars
  BY <1>1, StillStands
<1>2. ASSUME NEW w \in Processes,
             \/ OpenSweep(w) \/ Refresh(w)
             \/ rows[w] # None /\ PressAnywhere(w)
             \/ SaveProfile(w)
             \/ BeginRules(w) \/ RuleStep(w) \/ Propose(w) \/ EndRules(w)
             \/ Commit(w) \/ CommitProfile(w) \/ Refuse(w)
      PROVE  IInv'
  BY <1>2, OpenSweepStands, RefreshStands, KeyStands, SaveProfileStands, BeginRulesStands,
     RuleStepStands, ProposeStands, EndRulesStands, CommitStands, CommitProfileStands, RefuseStands
<1>3. QED
  BY <1>1, <1>2 DEF Next

----------------------------------------------------------------------------
(* What the invariant says.                                                 *)

LEMMA InvariantGivesOneReading == IInv => OneReading
<1> SUFFICES ASSUME IInv PROVE OneReading
  OBVIOUS
<1>1. ASSUME NEW S, \A u, v \in S : u = v PROVE Cardinality(S) <= 1
  <2>1. CASE S = {}
    BY <2>1, FS_EmptySet
  <2>2. CASE S # {}
    <3>1. PICK h \in S : TRUE
      BY <2>2
    <3>2. S = {h}
      BY <1>1, <3>1
    <3>3. QED
      BY <3>2, FS_Singleton
  <2>3. QED
    BY <2>1, <2>2
<1>2. ASSUME NEW p \in Passage PROVE Cardinality(Heads(p)) <= 1
  <2>1. \A u, v \in Heads(p) : u = v
    BY HeadsOfAPassage DEF IInv
  <2>2. QED
    BY <1>1, <2>1
<1>3. Cardinality(ProfileHeads) <= 1
  <2>1. \A u, v \in ProfileHeads : u = v
    BY HeadsOfProfiles DEF IInv
  <2>2. QED
    BY <1>1, <2>1
<1>4. QED
  BY <1>2, <1>3 DEF OneReading

LEMMA InvariantGivesProvenance == IInv => ProvenanceIsTrue
<1> SUFFICES ASSUME IInv, NEW v \in DOMAIN readings, NEW f \in Fields
    PROVE
      /\ readings[v].from[f].kind = "none" => readings[v].value[f] = None
      /\ readings[v].from[f].kind = "inherited" =>
           /\ Decided(profiles[readings[v].from[f].profile].state)
           /\ profiles[readings[v].from[f].profile].value[f] = readings[v].value[f]
      /\ readings[v].from[f].kind = "suggested" /\ readings[v].state # "suggested" =>
           \E u \in {u \in History(readings[v].passage) : u < v} :
             readings[u].state = "suggested" /\ readings[u].value[f] = readings[v].value[f]
      /\ readings[v].from[f].kind = "accepted" =>
           \E u \in {u \in History(readings[v].passage) : u < v} :
             readings[u].state = "suggested" /\ readings[u].value[f] = readings[v].value[f]
      /\ readings[v].from[f].kind = "undo" =>
           \E u \in {u \in History(readings[v].passage) : u < v} :
             readings[u].value[f] = readings[v].value[f]
  BY DEF ProvenanceIsTrue
<1>1. Grounded(readings[v], {u \in History(readings[v].passage) : u < v})
  BY DEF IInv, VersionsStand
<1>2. QED
  BY <1>1 DEF Grounded

LEMMA InvariantGivesTheRest ==
  IInv => RulesSpeakFirst /\ ParentsStandAbove
<1>1. IInv => RulesSpeakFirst
  BY DEF IInv, VersionsStand, RulesSpeakFirst
<1>2. IInv => ParentsStandAbove
  BY DEF IInv, VersionsStand, ParentsStandAbove, MayBeReported, Above
<1>3. QED
  BY <1>1, <1>2


----------------------------------------------------------------------------
(* Runs of the rules.                                                       *)

\* What others do either leaves the file alone or is noticed.
LEMMA OtherRuns ==
  ASSUME NEW x \in Processes, RunStands(x), TypeOK, doing'[x] = doing[x],
         \/ moved'[x] = moved[x] /\ readings' = readings /\ profiles' = profiles
         \/ moved'[x] = moved[x] /\ doing[x] = Idle
         \/ moved'[x].read /\ moved'[x].run /\ doing[x] # Idle
  PROVE  RunStands(x)'
<1>1. doing[x] \in Calls
  BY DEF TypeOK
<1>2. doing[x].op = "idle" => doing[x] = Idle
  BY <1>1 DEF Calls, Appends, Saves, Idle
<1>3. CASE moved'[x] = moved[x] /\ readings' = readings /\ profiles' = profiles
  <2>1. \A p : HasHistory(p)' <=> HasHistory(p)
    BY <1>3, FileStays
  <2>2. QED
    BY <1>3, <2>1 DEF RunStands, AfterKey, Then, Idle
<1>4. CASE moved'[x] = moved[x] /\ doing[x] = Idle
  BY <1>4 DEF RunStands, Idle
<1>5. CASE moved'[x].read /\ moved'[x].run /\ doing[x] # Idle
  BY <1>2, <1>5 DEF RunStands, AfterKey, Then, Idle
<1>6. QED
  BY <1>3, <1>4, <1>5

LEMMA BeginMoves ==
  ASSUME TypeOK, NEW w \in Processes, NEW accepted \in BOOLEAN, NEW call, Begin(w, accepted, call)
  PROVE  /\ \A x \in Processes : x # w => doing'[x] = doing[x] /\ moved'[x] = moved[x]
         /\ accepted => doing'[w] = call /\ ~ moved'[w].read /\ moved'[w].run = moved[w].run
         /\ ~ accepted => doing'[w] = call.then.refused /\ moved'[w] = moved[w]
<1>1. CASE accepted
  BY <1>1 DEF Begin, Become, TypeOK
<1>2. CASE ~ accepted
  BY <1>2 DEF Begin, Become, TypeOK
<1>3. QED
  BY <1>1, <1>2

LEMMA KeyRuns ==
  ASSUME TypeOK, RunsStand, NEW w \in Processes, doing[w] = Idle, UNCHANGED Records,
         NEW accepted \in BOOLEAN, NEW call, call.op \in {"append", "save"}, call.then = AfterKey,
         Begin(w, accepted, call)
  PROVE  RunsStand'
<1>1. readings' = readings /\ profiles' = profiles
  BY DEF Records
<1>2. ASSUME NEW x \in Processes, x # w PROVE RunStands(x)'
  BY <1>1, <1>2, BeginMoves, OtherRuns DEF RunsStand
<1>3. RunStands(w) /\ ~ moved[w].read
  BY DEF RunsStand, RunStands, Idle
<1>4. RunStands(w)'
  <2>1. CASE accepted
    <3>1. doing'[w] = call /\ ~ moved'[w].read
      BY <2>1, BeginMoves
    <3>2. doing'[w].then = AfterKey
      BY <3>1
    <3>3. doing'[w].op \in {"append", "save"}
      BY <3>1
    <3>4. QED
      BY <3>1, <3>2, <3>3 DEF RunStands, AfterKey, Then, Idle
  <2>2. CASE ~ accepted
    <3>1. doing'[w] = Idle /\ moved'[w] = moved[w]
      BY <2>2, BeginMoves DEF AfterKey, Then
    <3>2. QED
      BY <1>3, <3>1 DEF RunStands, Idle
  <2>3. QED
    BY <2>1, <2>2
<1>5. QED
  BY <1>2, <1>4 DEF RunsStand

LEMMA PressRuns ==
  ASSUME TypeOK, RunsStand, NEW w \in Processes, PressAnywhere(w)
  PROVE  RunsStand'
<1>1. doing[w] = Idle
  BY DEF PressAnywhere, CanWrite
<1>2. UNCHANGED Records /\ \E batch : Key(w, batch)
  <2>1. ASSUME NEW i, SetParent(w, i) PROVE UNCHANGED Records /\ \E batch : Key(w, batch)
    BY <2>1 DEF SetParent
  <2>2. QED
    BY <2>1 DEF PressAnywhere, Enter, Accept, Reject, Undo
<1>3. PICK batch : Write(w, batch, AfterKey)
  BY <1>2 DEF Key
<1> DEFINE call == [op |-> "append", batch |-> batch, then |-> AfterKey]
           accepted == \A i \in DOMAIN batch : Accepts(batch[i])
<1>4. Begin(w, accepted, call) /\ accepted \in BOOLEAN /\ call.op = "append" /\ call.then = AfterKey
  BY <1>3 DEF Write
<1> HIDE DEF call, accepted
<1>5. QED
  BY <1>1, <1>2, <1>4, KeyRuns

LEMMA SaveProfileRuns ==
  ASSUME TypeOK, RunsStand, NEW w \in Processes, SaveProfile(w)
  PROVE  RunsStand'
<1>1. doing[w] = Idle /\ UNCHANGED Records
  BY DEF SaveProfile
<1>2. PICK profile : Save(w, profile, AfterKey)
  BY DEF SaveProfile
<1> DEFINE call == [op |-> "save", profile |-> profile, then |-> AfterKey]
           accepted == AcceptsProfile(profile)
<1>3. Begin(w, accepted, call) /\ accepted \in BOOLEAN /\ call.op = "save" /\ call.then = AfterKey
  BY <1>2 DEF Save, AcceptsProfile
<1> HIDE DEF call, accepted
<1>4. QED
  BY <1>1, <1>3, KeyRuns


\* A call that goes on or ends, as the process itself sees it.
LEMMA OnlyItself ==
  ASSUME TypeOK, RunsStand, NEW w \in Processes, readings' = readings, profiles' = profiles,
         \A x \in Processes : x # w => doing'[x] = doing[x] /\ moved'[x] = moved[x],
         RunStands(w)'
  PROVE  RunsStand'
<1>1. ASSUME NEW x \in Processes, x # w PROVE RunStands(x)'
  BY <1>1, OtherRuns DEF RunsStand
<1>2. QED
  BY <1>1 DEF RunsStand

LEMMA RestRuns ==
  ASSUME TypeOK, RunsStand, NEW w \in Processes, readings' = readings, profiles' = profiles, Rest(w)
  PROVE  RunsStand'
<1>1. /\ doing'[w] = Idle /\ moved'[w] = Undisturbed
      /\ \A x \in Processes : x # w => doing'[x] = doing[x] /\ moved'[x] = moved[x]
  BY RestMoves DEF Become, TypeOK
<1>2. RunStands(w)'
  BY <1>1 DEF RunStands, Idle, Undisturbed
<1>3. QED
  BY <1>1, <1>2, OnlyItself

LEMMA BeginRulesRuns ==
  ASSUME TypeOK, RunsStand, NEW w \in Processes, BeginRules(w)
  PROVE  RunsStand'
<1>1. /\ readings' = readings /\ profiles' = profiles /\ doing[w] = Idle
      /\ doing' = [doing EXCEPT ![w] = Rules(Detections)]
      /\ moved' = [moved EXCEPT ![w].run = FALSE]
  BY DEF BeginRules, Records, Become
<1>2. ~ moved[w].read
  BY <1>1 DEF RunsStand, RunStands, Idle
<1>3. /\ doing'[w] = Rules(Detections) /\ moved'[w].read = moved[w].read
      /\ \A x \in Processes : x # w => doing'[x] = doing[x] /\ moved'[x] = moved[x]
  BY <1>1 DEF TypeOK
<1>4. doing'[w].op = "rules" /\ ~ moved'[w].read
  BY <1>2, <1>3 DEF Rules
<1>5. RunStands(w)'
  BY <1>4 DEF RunStands
<1>6. QED
  BY <1>1, <1>3, <1>5, OnlyItself

LEMMA RuleStepRuns ==
  ASSUME TypeOK, RunsStand, NEW w \in Processes, RuleStep(w)
  PROVE  RunsStand'
<1> DEFINE todo == doing[w].todo
           call == IF HasHistory(Head(todo).on) THEN Rules(Tail(todo))
                   ELSE [doing[w] EXCEPT !.op = "propose"]
<1>1. /\ readings' = readings /\ profiles' = profiles /\ moved' = moved
      /\ doing[w].op = "rules" /\ doing' = [doing EXCEPT ![w] = call]
  BY DEF RuleStep, Become
<1>2. doing[w] = [op |-> "rules", todo |-> todo]
  BY <1>1, CallFields
<1>3. doing'[w] = call /\ \A x \in Processes : x # w => doing'[x] = doing[x]
  BY <1>1 DEF TypeOK
<1>4. RunStands(w)
  BY DEF RunsStand
<1>5. RunStands(w)'
  <2>1. CASE HasHistory(Head(todo).on)
    <3>1. doing'[w].op = "rules"
      BY <1>3, <2>1 DEF Rules
    <3>2. QED
      BY <1>1, <1>4, <3>1 DEF RunStands
  <2>2. CASE ~ HasHistory(Head(todo).on)
    <3>1. doing'[w].op = "propose" /\ doing'[w].todo = todo
      BY <1>2, <1>3, <2>2
    <3>2. PICK on : on = Head(todo).on
      OBVIOUS
    <3>3. ~ HasHistory(on)'
      BY <1>1, <2>2, <3>2, FileStays
    <3>4. ~ HasHistory(Head(doing[w].todo).on)'
      BY <3>1, <3>2, <3>3
    <3>5. QED
      BY <1>1, <1>4, <3>1, <3>4 DEF RunStands
  <2>3. QED
    BY <2>1, <2>2
<1>6. QED
  BY <1>1, <1>3, <1>5, OnlyItself

\* Nothing stands in the way of a candidate where nothing was found.
LEMMA ProposeRuns ==
  ASSUME TypeOK, RunsStand, NEW w \in Processes, Propose(w)
  PROVE  RunsStand'
<1> DEFINE d == Head(doing[w].todo)
           then == Then(Rules(Tail(doing[w].todo)), [op |-> "failed"])
           profile == [value |-> Unset, state |-> "suggested", over |-> 0]
           batch == <<Candidate(d)>>
<1>1. readings' = readings /\ profiles' = profiles /\ doing[w].op = "propose"
  BY DEF Propose, Records
<1>2. moved[w].run \/ ~ HasHistory(d.on)
  BY <1>1 DEF RunsStand, RunStands
<1>3. ASSUME NEW accepted \in BOOLEAN, NEW call, call.op \in {"append", "save"}, call.then = then,
             Begin(w, accepted, call), accepted \/ HasHistory(d.on)
      PROVE  RunsStand'
  <2>1. /\ \A x \in Processes : x # w => doing'[x] = doing[x] /\ moved'[x] = moved[x]
        /\ accepted => doing'[w] = call /\ ~ moved'[w].read
        /\ ~ accepted => doing'[w] = [op |-> "failed"] /\ moved'[w] = moved[w]
    BY <1>3, BeginMoves DEF Then
  <2>2. RunStands(w)'
    <3>1. CASE accepted
      <4>1. /\ doing'[w].op \in {"append", "save"} /\ ~ moved'[w].read
            /\ doing'[w].then.refused.op = "failed"
        BY <1>3, <2>1, <3>1 DEF Then
      <4>2. QED
        BY <4>1 DEF RunStands
    <3>2. CASE ~ accepted
      <4>1. doing'[w].op = "failed" /\ moved'[w].run
        BY <1>2, <1>3, <2>1, <3>2
      <4>2. QED
        BY <4>1 DEF RunStands
    <3>3. QED
      BY <3>1, <3>2
  <2>3. QED
    BY <1>1, <2>1, <2>2, OnlyItself
<1>4. CASE d.on = Source
  <2> DEFINE call == [op |-> "save", profile |-> profile, then |-> then]
  <2>1. Begin(w, AcceptsProfile(profile), call)
    BY <1>4 DEF Propose, Save
  <2>2. AcceptsProfile(profile) \in BOOLEAN /\ (AcceptsProfile(profile) \/ HasHistory(d.on))
    BY <1>4 DEF AcceptsProfile, HasHistory
  <2>3. call.op = "save" /\ call.then = then
    OBVIOUS
  <2> DEFINE accepted == AcceptsProfile(profile)
  <2> HIDE DEF call, accepted, then, d
  <2>4. QED
    BY <1>3, <2>1, <2>2, <2>3 DEF accepted
<1>5. CASE d.on # Source
  <2> DEFINE call == [op |-> "append", batch |-> batch, then |-> then]
             accepted == \A i \in DOMAIN batch : Accepts(batch[i])
  <2>1. Begin(w, accepted, call) /\ accepted \in BOOLEAN
    BY <1>5 DEF Propose, Write
  <2>2. accepted \/ HasHistory(d.on)
    <3>1. SUFFICES ASSUME ~ HasHistory(d.on) PROVE accepted
      OBVIOUS
    <3>2. History(d.on) = {}
      BY <1>5, <3>1 DEF HasHistory
    <3>3. Heads(d.on) = {}
      BY <3>2 DEF Heads
    <3>4. Candidate(d).over = 0 /\ Candidate(d).passage = d.on
      BY DEF Candidate
    <3>5. Accepts(Candidate(d))
      BY <3>3, <3>4 DEF Accepts
    <3>6. QED
      BY <3>5
  <2>3. call.op = "append" /\ call.then = then
    OBVIOUS
  <2> HIDE DEF call, accepted, then, d
  <2>4. QED
    BY <1>3, <2>1, <2>2, <2>3
<1>6. QED
  BY <1>4, <1>5

LEMMA CommitRuns ==
  ASSUME IInv, RunsStand, NEW w \in Processes, Written(w),
         doing[w].op \in {"append", "save"}, ~ moved[w].read
  PROVE  RunsStand'
<1>1. ASSUME NEW x \in Processes, x # w PROVE RunStands(x)'
  <2>1. /\ doing'[x] = doing[x]
        /\ IF doing[x] = Idle THEN moved'[x] = moved[x] ELSE moved'[x].read /\ moved'[x].run
    BY <1>1, WrittenMoves
  <2>2. QED
    BY <2>1, OtherRuns DEF RunsStand, IInv
<1>2. RunStands(w)'
  <2>1. doing'[w] = doing[w].then.written /\ moved'[w] = moved[w] /\ doing[w].then \in Thens
    BY WrittenMoves, CallFields DEF IInv
  <2>2. doing'[w].op \in {"idle", "refresh", "rules"}
    BY <2>1, CallTypes
  <2>3. QED
    BY <2>1, <2>2 DEF RunStands
<1>3. QED
  BY <1>1, <1>2 DEF RunsStand

LEMMA RefuseRuns ==
  ASSUME TypeOK, RunsStand, NEW w \in Processes, Refuse(w)
  PROVE  RunsStand'
<1>1. readings' = readings /\ profiles' = profiles /\ moved[w].read /\ doing[w].op \in {"append", "save"}
  BY DEF Refuse, Records
<1>2. CASE Rest(w)
  BY <1>1, <1>2, RestRuns
<1>3. CASE doing[w].then # AfterKey /\ Become(w, doing[w].then.refused) /\ moved' = moved
  <2>1. RunStands(w)
    BY DEF RunsStand
  <2>2. doing[w].then.refused.op = "failed" /\ moved[w].run
    BY <1>1, <1>3, <2>1 DEF RunStands
  <2>3. /\ doing'[w].op = "failed" /\ moved'[w].run
        /\ \A x \in Processes : x # w => doing'[x] = doing[x] /\ moved'[x] = moved[x]
    BY <1>3, <2>2 DEF Become, TypeOK
  <2>4. RunStands(w)'
    BY <2>3 DEF RunStands
  <2>5. QED
    BY <1>1, <2>3, <2>4, OnlyItself
<1>4. QED
  BY <1>2, <1>3 DEF Refuse

LEMMA NextRuns == IInv /\ RunsStand /\ [Next]_vars => RunsStand'
<1> SUFFICES ASSUME IInv, RunsStand, [Next]_vars PROVE RunsStand'
  OBVIOUS
<1>0. TypeOK
  BY DEF IInv
<1>1. ASSUME readings' = readings, profiles' = profiles, doing' = doing, moved' = moved
      PROVE  RunsStand'
  BY <1>0, <1>1, OtherRuns DEF RunsStand
<1>2. CASE UNCHANGED vars
  BY <1>1, <1>2 DEF vars
<1>3. ASSUME NEW w \in Processes, OpenSweep(w) PROVE RunsStand'
  BY <1>1, <1>3 DEF OpenSweep
<1>4. ASSUME NEW w \in Processes, Refresh(w) PROVE RunsStand'
  BY <1>0, <1>4, RestRuns DEF Refresh
<1>5. ASSUME NEW w \in Processes, EndRules(w) PROVE RunsStand'
  BY <1>0, <1>5, RestRuns DEF EndRules, Records
<1>6. ASSUME NEW w \in Processes, Commit(w) PROVE RunsStand'
  BY <1>6, CommitRuns DEF Commit
<1>7. ASSUME NEW w \in Processes, CommitProfile(w) PROVE RunsStand'
  BY <1>7, CommitRuns DEF CommitProfile
<1>8. QED
  BY <1>0, <1>2, <1>3, <1>4, <1>5, <1>6, <1>7, PressRuns, SaveProfileRuns, BeginRulesRuns,
     RuleStepRuns, ProposeRuns, RefuseRuns DEF Next

LEMMA InitRuns == Init => RunsStand
BY DEF Init, RunsStand, RunStands, Idle, Undisturbed


----------------------------------------------------------------------------
(* Theorems: windows and runs of the rules, a key anywhere.                 *)

LEMMA SpecStands == Spec => [](IInv /\ RunsStand)
<1>1. Init => IInv /\ RunsStand
  BY InitStands, InitRuns
<1>2. (IInv /\ RunsStand) /\ [Next]_vars => (IInv /\ RunsStand)'
  BY NextStands, NextRuns
<1>3. QED
  BY <1>1, <1>2, PTL DEF Spec

\* Every variable holds what the code keeps there.
THEOREM TypeCorrect == Spec => []TypeOK
<1>1. IInv => TypeOK
  BY DEF IInv
<1>2. QED
  BY <1>1, SpecStands, PTL

\* However windows and runs of the rules race, insert_interpretation and
\* insert_profile leave a passage one current reading and the original one
\* current profile.
THEOREM OneReadingHolds == Spec => []OneReading
<1>1. QED
  BY InvariantGivesOneReading, SpecStands, PTL

\* A candidate of the rules is the first version of its passage.
THEOREM RulesSpeakFirstHolds == Spec => []RulesSpeakFirst
<1>1. IInv => RulesSpeakFirst
  BY InvariantGivesTheRest
<1>2. QED
  BY <1>1, SpecStands, PTL

\* What field_provenance says of a value is true of it, whatever was copied,
\* refused, undone or inherited on the way.
THEOREM ProvenanceIsTrueHolds == Spec => []ProvenanceIsTrue
<1>1. QED
  BY InvariantGivesProvenance, SpecStands, PTL

\* A report rests on an earlier passage, decided when it was tied to it.
THEOREM ParentsStandAboveHolds == Spec => []ParentsStandAbove
<1>1. IInv => ParentsStandAbove
  BY InvariantGivesTheRest
<1>2. QED
  BY <1>1, SpecStands, PTL

\* A run of the rules that nobody wrote beside does not fail.
THEOREM OnlyRacesFailHolds == Spec => []OnlyRacesFail
<1>1. IInv /\ RunsStand => OnlyRacesFail
  BY DEF RunsStand, RunStands, OnlyRacesFail
<1>2. QED
  BY <1>1, SpecStands, PTL



----------------------------------------------------------------------------
(* Sessions: the same file, written by keys that know a cursor and a mark.  *)

Value == [field : Columns \cup {"materiality"}, value : Known \cup {"boilerplate", "text"}]

Session ==
  [column : Columns \cup {"form"}, cursor : Nat, mark : Nat, marked : Passage \cup {None},
   last : Value \cup {None}, basis : BOOLEAN,
   pending : {None, "entity", "time", "span", "search"}, command : BOOLEAN]

SweepTypeOK ==
  /\ session \in [Processes -> Session \cup {None}]
  /\ hoped \in [Processes -> Session \cup {None}]
  /\ keys \in Nat

\* What `.` would repeat is a value of version x.
Repeats(s, x) == x.value[s.last.field] = s.last.value

LastIsKept(s) ==
  s.last # None /\ s.last.field \in Fields => \E v \in DOMAIN readings : Repeats(s, readings[v])

\* The batch is one stretch of the rows of w, or a report and what it reports.
IsStretch(w, batch) ==
  \A i, j \in DOMAIN batch :
    i < j => \E a, b \in DOMAIN rows[w] :
      /\ a < b
      /\ b = a + (j - i) \/ batch[j].parent # 0
      /\ rows[w][a].passage = batch[i].passage
      /\ rows[w][b].passage = batch[j].passage

SessionStands(w) ==
  session[w] # None =>
    /\ Shows(w)
    /\ session[w].cursor = Within(session[w].cursor, rows[w])
    /\ LastIsKept(session[w])

\* What the key of w that is under way will leave when it is written.
HopeStands(w) ==
  /\ doing[w].op \in {"idle", "append", "refresh"}
  /\ doing[w].op = "idle" => hoped[w] = None
  /\ doing[w].op # "idle" => Shows(w)
  /\ doing[w].op = "refresh" => hoped[w] \in Session /\ LastIsKept(hoped[w])
  /\ doing[w].op = "append" =>
       /\ doing[w].then.refused = Idle
       /\ doing[w].then.written.op = "idle" => hoped[w] = None
       /\ doing[w].then.written.op # "idle" =>
            /\ doing[w].then.written.op = "refresh"
            /\ hoped[w] \in Session
            /\ \/ LastIsKept(hoped[w])
               \/ \E i \in DOMAIN doing[w].batch : Repeats(hoped[w], doing[w].batch[i])
            /\ doing[w].batch = <<>> => session[w].pending = "span"
            /\ IsStretch(w, doing[w].batch)

SessionsStand ==
  /\ SweepTypeOK
  /\ \A w \in Processes : SessionStands(w) /\ HopeStands(w)

\* Sessions over any file that windows and rules may have left, with nobody
\* in a call.
SessionInit ==
  /\ IInv
  /\ \A w \in Processes : doing[w] = Idle /\ rows[w] = None
  /\ SweepInit

SweepSpec == SessionInit /\ [][SweepNext]_<<vars, sweepVars>>

----------------------------------------------------------------------------
(* Places in the rows.                                                      *)

LEMMA LesserOfTwo ==
  ASSUME NEW a \in Nat, NEW b \in Nat
  PROVE  Min({a, b}) = IF a <= b THEN a ELSE b
<1> DEFINE m == IF a <= b THEN a ELSE b
<1>1. m \in {a, b} /\ \A y \in {a, b} : m <= y
  OBVIOUS
<1>2. \A x \in {a, b} : (\A y \in {a, b} : x <= y) => x = m
  OBVIOUS
<1>3. QED
  BY <1>1, <1>2 DEF Min

LEMMA GreaterOfTwo ==
  ASSUME NEW a \in Nat, NEW b \in Nat
  PROVE  Max({a, b}) = IF a >= b THEN a ELSE b
<1> DEFINE m == IF a >= b THEN a ELSE b
<1>1. m \in {a, b} /\ \A y \in {a, b} : m >= y
  OBVIOUS
<1>2. \A x \in {a, b} : (\A y \in {a, b} : x >= y) => x = m
  OBVIOUS
<1>3. QED
  BY <1>1, <1>2 DEF Max

LEMMA WithinIs ==
  ASSUME NEW n \in Nat, NEW shown, Len(shown) \in Nat
  PROVE  /\ Within(n, shown) \in Nat
         /\ Within(n, shown) >= 1
         /\ Len(shown) = 0 => Within(n, shown) = 1
         /\ Len(shown) # 0 => Within(n, shown) <= Len(shown)
         /\ n >= 1 /\ n <= Len(shown) => Within(n, shown) = n
         /\ n > Len(shown) /\ Len(shown) # 0 => Within(n, shown) = Len(shown)
         /\ n = 1 => Within(n, shown) = 1
<1> DEFINE least == Min({n, Len(shown)})
<1>1. least = IF n <= Len(shown) THEN n ELSE Len(shown)
  BY LesserOfTwo
<1> HIDE DEF least
<1>2. least \in Nat
  BY <1>1
<1>3. Within(n, shown) = IF 1 >= least THEN 1 ELSE least
  BY <1>2, GreaterOfTwo DEF Within, least
<1>4. PICK k \in Nat : k = Len(shown)
  OBVIOUS
<1>5. QED
  BY <1>1, <1>3, <1>4

LEMMA WithinIsWithin ==
  ASSUME NEW n \in Nat, NEW shown, Len(shown) \in Nat
  PROVE  Within(Within(n, shown), shown) = Within(n, shown)
<1> DEFINE k == Within(n, shown)
<1>1. k \in Nat /\ k >= 1 /\ (Len(shown) = 0 => k = 1) /\ (Len(shown) # 0 => k <= Len(shown))
  BY WithinIs
<1> HIDE DEF k
<1>2. Within(k, shown) = k
  BY <1>1, WithinIs
<1>3. QED
  BY <1>2 DEF k

\* A key's range lies among the rows, whatever the mark was set on.
LEMMA RangeIsShown ==
  ASSUME NEW s \in Session, NEW shown \in Seq(RowType), s.cursor \in DOMAIN shown, NEW shift \in BOOLEAN
  PROVE  LET range == RangeOf(s, shown, shift)
         IN  range[1] \in DOMAIN shown /\ range[2] \in DOMAIN shown /\ range[1] <= range[2]
<1> DEFINE range == RangeOf(s, shown, shift)
<1>1. /\ s.cursor \in Nat /\ s.mark \in Nat /\ Len(shown) \in Nat
      /\ DOMAIN shown = 1 .. Len(shown)
      /\ s.cursor >= 1 /\ s.cursor <= Len(shown)
  BY DEF Session
<1>2. CASE s.mark # 0
  <2> DEFINE far == Max({s.mark, s.cursor})
  <2>1. range[1] = Min({s.mark, s.cursor}) /\ range[2] = Within(far, shown)
    BY <1>2 DEF RangeOf
  <2>2. far \in Nat /\ far >= s.cursor
    BY <1>1, GreaterOfTwo
  <2>3. range[1] \in 1 .. s.cursor
    <3>1. Min({s.mark, s.cursor}) = IF s.mark <= s.cursor THEN s.mark ELSE s.cursor
      BY <1>1, LesserOfTwo
    <3>2. QED
      BY <1>1, <1>2, <2>1, <3>1
  <2> HIDE DEF far
  <2>4. Within(far, shown) \in Nat /\ Within(far, shown) >= s.cursor /\ Within(far, shown) <= Len(shown)
    <3>1. PICK k \in Nat : k = Len(shown)
      BY <1>1
    <3>2. k >= 1 /\ s.cursor <= k /\ s.cursor >= 1
      BY <1>1, <3>1
    <3>3. /\ far >= 1 /\ far <= k => Within(far, shown) = far
          /\ far > k /\ k # 0 => Within(far, shown) = k
      BY <2>2, <3>1, WithinIs
    <3>4. QED
      BY <1>1, <2>2, <3>1, <3>2, <3>3
  <2> HIDE DEF range
  <2>5. QED
    BY <1>1, <2>1, <2>3, <2>4 DEF range
<1>3. CASE s.mark = 0 /\ shift
  <2> DEFINE S == {j \in s.cursor .. Len(shown) : \A i \in s.cursor .. j :
                     Pages[shown[i].passage] = Pages[shown[s.cursor].passage]}
  <2>1. range[1] = s.cursor /\ range[2] = Max(S)
    BY <1>3 DEF RangeOf
  <2>2. S \in SUBSET (1 .. Len(shown)) /\ s.cursor \in S
    BY <1>1
  <2> HIDE DEF S, range
  <2>3. Max(S) \in S /\ Max(S) >= s.cursor
    BY <1>1, <2>2, MaxIsGreatest
  <2>4. QED
    BY <1>1, <2>1, <2>2, <2>3 DEF range
<1>4. CASE s.mark = 0 /\ ~ shift
  BY <1>1, <1>4 DEF RangeOf
<1>5. QED
  BY <1>2, <1>3, <1>4

----------------------------------------------------------------------------
(* Keys that only move or ask.                                              *)

\* What stood stands: the file has only grown.
FileGrows ==
  /\ \A row : RowStands(row) => RowStands(row)'
  /\ \A v \in DOMAIN readings : v \in DOMAIN readings' /\ readings'[v] = readings[v]

LEMMA SameFileGrows ==
  ASSUME readings' = readings, profiles' = profiles
  PROVE  FileGrows
BY FileStays DEF FileGrows

LEMMA CommitGrows ==
  ASSUME IInv, NEW w \in Processes, Commit(w)
  PROVE  /\ FileGrows
         /\ \A i \in DOMAIN doing[w].batch : \E v \in DOMAIN readings' : readings'[v] = doing[w].batch[i]
<1> DEFINE b == doing[w].batch
<1>1. b \in Seq(Version) /\ readings' = readings \o b /\ profiles' = profiles
  BY CallFields DEF Commit, IInv
<1>2. SoundBatch(b) /\ \A i \in DOMAIN b : Accepts(b[i])
  BY DEF Commit, IInv, CallsStand
<1> HIDE DEF b
<1>3. Appended(b)
  BY <1>1, AppendedFacts
<1>4. \A p, u : u \in History(p) => u \in History(p)'
  BY <1>1, <1>2, <1>3, HistoryGrows
<1>5. \A row : RowStands(row) => RowStands(row)'
  BY <1>1, <1>4 DEF RowStands
<1>6. \A v \in DOMAIN readings : v \in DOMAIN readings' /\ readings'[v] = readings[v]
  BY <1>3 DEF Appended
<1>7. \A i \in DOMAIN b : \E v \in DOMAIN readings' : readings'[v] = b[i]
  BY <1>3 DEF Appended
<1>8. QED
  BY <1>5, <1>6, <1>7 DEF FileGrows, b

\* The value a session remembers stays in the file.
LEMMA LastStays ==
  ASSUME FileGrows, NEW s, LastIsKept(s)
  PROVE  LastIsKept(s)'
<1>1. SUFFICES ASSUME s.last # None, s.last.field \in Fields
      PROVE  \E v \in DOMAIN readings' : Repeats(s, readings'[v])
  BY DEF LastIsKept, Repeats
<1>2. PICK v \in DOMAIN readings : Repeats(s, readings[v])
  BY <1>1 DEF LastIsKept
<1>3. QED
  BY <1>2 DEF FileGrows

LEMMA ShowsStays ==
  ASSUME FileGrows, NEW w \in Processes, Shows(w), rows'[w] = rows[w]
  PROVE  Shows(w)'
<1>1. /\ \A row : RowStands(row) => RowStands(row)'
      /\ \A i \in DOMAIN rows[w] : RowStands(rows[w][i])
  BY DEF Shows, FileGrows
<1>2. (\A i \in DOMAIN rows[w] : RowStands(rows[w][i]))'
  BY <1>1
<1>3. QED
  BY <1>2 DEF Shows, Above

\* What another process does leaves a session as it was.
LEMMA OtherSessionStands ==
  ASSUME FileGrows, NEW x \in Processes, SessionStands(x), HopeStands(x),
         rows'[x] = rows[x], session'[x] = session[x], hoped'[x] = hoped[x], doing'[x] = doing[x]
  PROVE  SessionStands(x)' /\ HopeStands(x)'
<1>1. SessionStands(x)'
  <2>1. SUFFICES ASSUME session[x] # None
        PROVE  /\ Shows(x)' /\ LastIsKept(session[x])'
               /\ session[x].cursor = Within(session[x].cursor, rows[x])
    BY DEF SessionStands, Within
  <2>2. Shows(x) /\ session[x].cursor = Within(session[x].cursor, rows[x]) /\ LastIsKept(session[x])
    BY <2>1 DEF SessionStands
  <2>3. PICK s : s = session[x]
    OBVIOUS
  <2>4. LastIsKept(s)'
    BY <2>2, <2>3, LastStays
  <2>5. LastIsKept(session[x])'
    BY <2>3, <2>4 DEF LastIsKept, Repeats
  <2>6. QED
    BY <2>2, <2>5, ShowsStays
<1>2. HopeStands(x)'
  <2>1. doing[x].op # "idle" => Shows(x)'
    BY ShowsStays DEF HopeStands
  <2>2. PICK s : s = hoped[x]
    OBVIOUS
  <2>3. LastIsKept(hoped[x]) => LastIsKept(hoped[x])'
    <3>1. LastIsKept(s) => LastIsKept(s)'
      BY LastStays
    <3>2. LastIsKept(hoped[x])' <=> LastIsKept(s)'
      BY <2>2 DEF LastIsKept, Repeats
    <3>3. QED
      BY <2>2, <3>1, <3>2
  <2>4. \A b : IsStretch(x, b)' <=> IsStretch(x, b)
    BY DEF IsStretch
  <2>5. \A y : Repeats(hoped[x], y)' <=> Repeats(hoped[x], y)
    BY DEF Repeats
  <2>6. QED
    BY <2>1, <2>3, <2>4, <2>5 DEF HopeStands
<1>3. QED
  BY <1>1, <1>2

\* One process steps.
LEMMA OneSteps ==
  ASSUME SessionsStand, FileGrows, SweepTypeOK', NEW w \in Processes,
         \A x \in Processes : x # w => /\ rows'[x] = rows[x] /\ session'[x] = session[x]
                                       /\ hoped'[x] = hoped[x] /\ doing'[x] = doing[x],
         SessionStands(w)', HopeStands(w)'
  PROVE  SessionsStand'
<1>1. ASSUME NEW x \in Processes PROVE SessionStands(x)' /\ HopeStands(x)'
  BY <1>1, OtherSessionStands DEF SessionsStand
<1>2. QED
  BY <1>1 DEF SessionsStand

\* A session that stands where the rows are.
Stays(w, s) ==
  s \in Session /\ s.cursor = Within(s.cursor, rows[w]) /\ s.last = session[w].last

LEMMA MovesStand ==
  ASSUME IInv, SessionsStand, NEW w \in Processes, session[w] # None, NEW s, Stays(w, s), Moves(w, s)
  PROVE  IInv' /\ SessionsStand'
<1>1. /\ session' = [session EXCEPT ![w] = s] /\ hoped' = hoped /\ keys' = keys + 1
      /\ UNCHANGED vars /\ doing[w] = Idle
  BY DEF Moves, Becomes, Press
<1>2. /\ readings' = readings /\ profiles' = profiles /\ rows' = rows /\ doing' = doing
  BY <1>1 DEF vars
<1>3. IInv'
  BY <1>1, StillStands
<1>4. FileGrows
  BY <1>2, SameFileGrows
<1>5. SweepTypeOK'
  BY <1>1 DEF SessionsStand, SweepTypeOK, Stays
<1>6. session'[w] = s /\ \A x \in Processes : x # w => session'[x] = session[x]
  BY <1>1 DEF SessionsStand, SweepTypeOK
<1>7. Shows(w) /\ LastIsKept(session[w])
  BY DEF SessionsStand, SessionStands
<1>8. SessionStands(w)'
  <2>1. Shows(w)'
    BY <1>2, <1>4, <1>7, ShowsStays
  <2>2. LastIsKept(s)
    BY <1>7 DEF LastIsKept, Repeats, Stays
  <2>3. LastIsKept(s)'
    BY <1>4, <2>2, LastStays
  <2>4. LastIsKept(session[w])'
    BY <1>6, <2>3 DEF LastIsKept, Repeats
  <2>5. QED
    BY <1>2, <1>6, <2>1, <2>4 DEF SessionStands, Stays, Within
<1>9. HopeStands(w)'
  BY <1>1, <1>2 DEF HopeStands, Idle, SessionsStand
<1>10. QED
  BY <1>1, <1>2, <1>3, <1>4, <1>5, <1>6, <1>8, <1>9, OneSteps

\* The changes a key makes to a session.
LEMMA SessionFields ==
  ASSUME NEW s \in Session
  PROVE  /\ \A c \in Nat : [s EXCEPT !.cursor = c] \in Session
         /\ \A p \in {None, "entity", "time", "span", "search"} : [s EXCEPT !.pending = p] \in Session
         /\ \A c \in Columns \cup {"form"} : [s EXCEPT !.column = c] \in Session
         /\ \A b \in BOOLEAN : [s EXCEPT !.command = b] \in Session
         /\ \A b \in BOOLEAN : [s EXCEPT !.basis = b] \in Session
         /\ \A v \in Value : [s EXCEPT !.last = v] \in Session
         /\ \A m \in Nat, p \in Passage \cup {None} : [s EXCEPT !.mark = m, !.marked = p] \in Session
<1> HIDE DEF Value
<1>1. QED
  BY DEF Session

\* Escape and the rest forget nothing a reviewer relies on.
LEMMA SessionFacts ==
  ASSUME SessionsStand, NEW w \in Processes, session[w] # None
  PROVE  /\ session[w] \in Session /\ Shows(w)
         /\ Stays(w, session[w])
         /\ session[w].cursor \in Nat /\ session[w].cursor >= 1
         /\ rows[w] \in Seq(RowType) /\ Len(rows[w]) \in Nat
         /\ Forgetful(w) \in Session /\ Stays(w, Forgetful(w))
         /\ Forgetful(w).cursor = session[w].cursor /\ Forgetful(w).last = session[w].last
<1>1. session[w] \in Session
  BY DEF SessionsStand, SweepTypeOK
<1>2. Shows(w) /\ session[w].cursor = Within(session[w].cursor, rows[w])
  BY DEF SessionsStand, SessionStands
<1>3. rows[w] \in Seq(RowType) /\ Len(rows[w]) \in Nat
  BY <1>2 DEF Shows
<1>4. session[w].cursor \in Nat
  BY <1>1 DEF Session
<1>5. session[w].cursor >= 1
  BY <1>2, <1>3, <1>4, WithinIs
<1>6. Forgetful(w) \in Session
  BY <1>1, SessionFields DEF Forgetful
<1>7. Forgetful(w).cursor = session[w].cursor /\ Forgetful(w).last = session[w].last
  BY <1>1 DEF Forgetful, Session
<1>8. QED
  BY <1>1, <1>2, <1>3, <1>4, <1>5, <1>6, <1>7 DEF Stays

----------------------------------------------------------------------------
(* Keys that write.                                                         *)

LEMMA WritesStand ==
  ASSUME IInv, SessionsStand, NEW w \in Processes, session[w] # None,
         NEW batch, NEW atOnce, NEW written, Stays(w, atOnce), written \in Session,
         LastIsKept(written) \/ \E i \in DOMAIN batch : Repeats(written, batch[i]),
         batch = <<>> => atOnce.pending = "span", IsStretch(w, batch),
         Key(w, batch), UNCHANGED Records, Writes(w, atOnce, written)
  PROVE  SessionsStand'
<1> DEFINE call == [op |-> "append", batch |-> batch, then |-> AfterKey]
           accepted == \A i \in DOMAIN batch : Accepts(batch[i])
<1>1. /\ session' = [session EXCEPT ![w] = atOnce] /\ keys' = keys + 1 /\ doing[w] = Idle
      /\ hoped' = [hoped EXCEPT ![w] = IF doing'[w] = Idle THEN None ELSE written]
  BY DEF Writes, Becomes, Press
<1>2. readings' = readings /\ profiles' = profiles /\ rows' = rows
  BY DEF Records
<1>3. FileGrows
  BY <1>2, SameFileGrows
<1>4. SweepTypeOK'
  BY <1>1 DEF SessionsStand, SweepTypeOK, Stays
<1>5. Begin(w, accepted, call) /\ accepted \in BOOLEAN
  BY DEF Key, Write
<1>6. /\ call.op = "append" /\ call.batch = batch /\ call.then = AfterKey
      /\ AfterKey.refused = Idle /\ AfterKey.written.op = "refresh" /\ Idle.op = "idle"
  BY DEF AfterKey, Then, Idle
<1> HIDE DEF call, accepted
<1>7. /\ \A x \in Processes : x # w => doing'[x] = doing[x]
      /\ accepted => doing'[w] = call
      /\ ~ accepted => doing'[w] = Idle
  BY <1>5, <1>6, BeginMoves DEF IInv
<1>8. /\ session'[w] = atOnce
      /\ hoped'[w] = IF doing'[w] = Idle THEN None ELSE written
      /\ \A x \in Processes : x # w => session'[x] = session[x] /\ hoped'[x] = hoped[x]
  BY <1>1 DEF SessionsStand, SweepTypeOK
<1>9. Shows(w)'
  BY <1>2, <1>3, SessionFacts, ShowsStays
<1>10. SessionStands(w)'
  <2>1. LastIsKept(session[w])
    BY DEF SessionsStand, SessionStands
  <2>2. LastIsKept(atOnce)
    BY <2>1 DEF LastIsKept, Repeats, Stays
  <2>3. LastIsKept(atOnce)'
    BY <1>3, <2>2, LastStays
  <2>4. LastIsKept(session[w])'
    BY <1>8, <2>3 DEF LastIsKept, Repeats
  <2>5. QED
    BY <1>2, <1>8, <1>9, <2>4 DEF SessionStands, Stays, Within
<1>11. HopeStands(w)'
  <2>1. CASE accepted
    <3>1. doing'[w] = call /\ hoped'[w] = written
      BY <1>6, <1>7, <1>8, <2>1
    <3>2. LastIsKept(written) => LastIsKept(hoped[w])'
      <4>1. LastIsKept(written) => LastIsKept(written)'
        BY <1>3, LastStays
      <4>2. LastIsKept(hoped[w])' <=> LastIsKept(written)'
        BY <3>1 DEF LastIsKept, Repeats
      <4>3. QED
        BY <4>1, <4>2
    <3>3. \A y : Repeats(hoped[w], y)' <=> Repeats(written, y)
      BY <3>1 DEF Repeats
    <3>4. IsStretch(w, batch)'
      BY <1>2 DEF IsStretch
    <3>5. \/ LastIsKept(hoped[w])'
          \/ \E i \in DOMAIN call.batch : Repeats(hoped[w], call.batch[i])'
      BY <1>6, <3>2, <3>3
    <3>6. QED
      BY <1>6, <1>8, <1>9, <3>1, <3>3, <3>4, <3>5 DEF HopeStands
  <2>2. CASE ~ accepted
    <3>1. doing'[w] = Idle /\ hoped'[w] = None
      BY <1>7, <1>8, <2>2
    <3>2. QED
      BY <1>6, <3>1 DEF HopeStands
  <2>3. QED
    BY <2>1, <2>2
<1>12. QED
  BY <1>2, <1>3, <1>4, <1>7, <1>8, <1>10, <1>11, OneSteps

LEMMA OneIsAStretch ==
  ASSUME NEW w \in Processes, NEW x
  PROVE  IsStretch(w, <<x>>) /\ <<x>> # <<>> /\ DOMAIN <<x>> = {1} /\ <<x>>[1] = x
BY DEF IsStretch

LEMMA EntryIsKept ==
  ASSUME IInv, NEW row \in RowType, RowStands(row), NEW entry, entry.field \in Fields
  PROVE  Apply(Snapshot(row), entry).value[entry.field] = entry.value
<1> DEFINE s == Snapshot(row)
<1>1. SnapshotOf(s, row)
  BY SnapshotFacts
<1> HIDE DEF s
<1>2. s \in Version
  BY <1>1 DEF SnapshotOf
<1>3. s.value \in [Fields -> Known] /\ DOMAIN s.value = Fields
  BY <1>2 DEF Version
<1> DEFINE value == [s.value EXCEPT ![entry.field] = entry.value]
           from == [s.from EXCEPT ![entry.field] = Label("entered", 0)]
<1>4. Apply(s, entry) = [s EXCEPT !.value = value, !.from = from]
  BY <1>2 DEF Apply, Version
<1>5. value[entry.field] = entry.value
  BY <1>3
<1> HIDE DEF value, from
<1>6. Apply(s, entry).value = value
  BY <1>2, <1>4 DEF Version
<1>7. QED
  BY <1>5, <1>6 DEF s

\* What a session is after a value, a decision or a time.
LEMMA PastIsSession ==
  ASSUME NEW s \in Session, NEW i \in Nat
  PROVE  /\ Past(s, i) \in Session /\ Past(s, i).last = s.last
         /\ \A v \in Value : Past([s EXCEPT !.last = v], i) \in Session
         /\ \A v \in Value : Past([s EXCEPT !.last = v], i).last = v
<1>1. i + 1 \in Nat
  OBVIOUS
<1>2. ASSUME NEW t \in Session PROVE Past(t, i) \in Session /\ Past(t, i).last = t.last
  <2>1. Past(t, i) \in Session
    BY <1>1, SessionFields DEF Past
  <2>2. QED
    BY <2>1 DEF Past, Session
<1>3. ASSUME NEW v \in Value PROVE [s EXCEPT !.last = v] \in Session /\ [s EXCEPT !.last = v].last = v
  <2>1. [s EXCEPT !.last = v] \in Session
    BY SessionFields
  <2> HIDE DEF Value
  <2>2. QED
    BY <2>1 DEF Session
<1>4. QED
  BY <1>2, <1>3

LEMMA StretchIsWhole ==
  ASSUME NEW w \in Processes, Shows(w),
         NEW from \in DOMAIN rows[w], NEW to \in DOMAIN rows[w], from <= to,
         NEW batch, DOMAIN batch = 1 .. (to - from + 1),
         \A i \in DOMAIN batch : batch[i].passage = rows[w][from + i - 1].passage
  PROVE  IsStretch(w, batch) /\ 1 \in DOMAIN batch /\ batch # <<>>
<1>1. from \in Nat /\ to \in Nat /\ \A i \in DOMAIN batch : i \in Nat /\ from + i - 1 \in DOMAIN rows[w]
  BY RowFacts
<1>2. ASSUME NEW i \in DOMAIN batch, NEW j \in DOMAIN batch, i < j
      PROVE  \E a, b \in DOMAIN rows[w] :
               /\ a < b
               /\ b = a + (j - i) \/ batch[j].parent # 0
               /\ rows[w][a].passage = batch[i].passage
               /\ rows[w][b].passage = batch[j].passage
  <2>1. PICK a \in DOMAIN rows[w], b \in DOMAIN rows[w] : a = from + i - 1 /\ b = from + j - 1
    BY <1>1
  <2>2. a < b /\ b = a + (j - i)
    BY <1>1, <1>2, <2>1
  <2>3. rows[w][a].passage = batch[i].passage /\ rows[w][b].passage = batch[j].passage
    BY <2>1
  <2>4. QED
    BY <2>2, <2>3
<1>3. 1 \in DOMAIN batch
  BY <1>1
<1>4. batch # <<>>
  <2>1. DOMAIN << >> = {}
    OBVIOUS
  <2>2. QED
    BY <1>3, <2>1
<1>5. QED
  BY <1>2, <1>3, <1>4 DEF IsStretch

LEMMA ValuesStand ==
  ASSUME IInv, SessionsStand, NEW w \in Processes, session[w] # None,
         NEW range, range[1] \in DOMAIN rows[w], range[2] \in DOMAIN rows[w], range[1] <= range[2],
         NEW value \in Value, value.field \in Fields => value.value \in Known,
         NEW s, Stays(w, s), Values(w, range, value, s)
  PROVE  IInv' /\ SessionsStand'
<1> DEFINE from == range[1]
           to == range[2]
           n == to - from + 1
           entered == [i \in 1 .. n |-> Apply(Snapshot(rows[w][from + i - 1]), value)]
           repeated == [i \in 1 .. n |-> Snapshot(rows[w][from + i - 1])]
           written == Past([s EXCEPT !.last = value], to)
<1>1. Shows(w) /\ from \in Nat /\ to \in Nat /\ \A i \in 1 .. n : i \in Nat /\ from + i - 1 \in DOMAIN rows[w]
  BY SessionFacts, RowFacts
<1>2. written \in Session /\ written.last = value
  BY <1>1, PastIsSession DEF Stays
<1>3. Writes(w, s, written)
  BY DEF Values
<1>4. \A i \in 1 .. n : rows[w][from + i - 1] \in RowType /\ RowStands(rows[w][from + i - 1])
  BY <1>1, RowFacts
<1>5. CASE value.field \in Fields
  <2>1. Enter(w, from, to, value)
    BY <1>5 DEF Values
  <2>2. Key(w, entered) /\ UNCHANGED Records
    BY <2>1 DEF Enter
  <2>3. IInv'
    BY <1>1, <1>5, <2>1, EnterStands
  <2>4. \A i \in 1 .. n : entered[i].passage = rows[w][from + i - 1].passage
    <3> SUFFICES ASSUME NEW i \in 1 .. n PROVE entered[i].passage = rows[w][from + i - 1].passage
      OBVIOUS
    <3>1. PICK row \in RowType : row = rows[w][from + i - 1] /\ RowStands(row)
      BY <1>4
    <3>2. entered[i] = Apply(Snapshot(row), value)
      BY <3>1
    <3> HIDE DEF entered
    <3>3. QED
      BY <1>5, <3>1, <3>2, EntryIsSound
  <2>5. Repeats(written, entered[1])
    <3>1. PICK row \in RowType : row = rows[w][from + 1 - 1] /\ RowStands(row)
      BY <1>1, <1>4
    <3>2. entered[1] = Apply(Snapshot(row), value)
      BY <1>1, <3>1
    <3> HIDE DEF entered, written
    <3>3. entered[1].value[value.field] = value.value
      BY <1>5, <3>1, <3>2, EntryIsKept
    <3>4. QED
      BY <1>2, <3>3 DEF Repeats
  <2>6. DOMAIN entered = 1 .. n
    OBVIOUS
  <2> HIDE DEF entered, written
  <2>7. IsStretch(w, entered) /\ 1 \in DOMAIN entered /\ entered # <<>>
    <3>1. \A i \in DOMAIN entered : entered[i].passage = rows[w][from + i - 1].passage
      BY <2>4, <2>6
    <3>2. QED
      BY <1>1, <2>6, <3>1, StretchIsWhole
  <2>8. SessionsStand'
    BY <1>2, <1>3, <2>2, <2>5, <2>7, WritesStand
  <2>9. QED
    BY <2>3, <2>8
<1>6. CASE value.field \notin Fields
  <2>1. Key(w, repeated) /\ UNCHANGED Records
    BY <1>6 DEF Values
  <2>2. \A i \in 1 .. n :
          /\ repeated[i] \in Version /\ repeated[i].passage = rows[w][from + i - 1].passage
          /\ Sound(repeated[i])
          /\ repeated[i].parent # 0 => MayBeReported(repeated[i].parent, repeated[i])
    <3> SUFFICES ASSUME NEW i \in 1 .. n
        PROVE  /\ repeated[i] \in Version /\ repeated[i].passage = rows[w][from + i - 1].passage
               /\ Sound(repeated[i])
               /\ repeated[i].parent # 0 => MayBeReported(repeated[i].parent, repeated[i])
      OBVIOUS
    <3>1. PICK row \in RowType : row = rows[w][from + i - 1] /\ RowStands(row)
      BY <1>4
    <3>2. repeated[i] = Snapshot(row)
      BY <3>1
    <3> HIDE DEF repeated
    <3>3. SnapshotOf(repeated[i], row)
      BY <3>1, <3>2, SnapshotFacts
    <3>4. QED
      BY <3>1, <3>3 DEF SnapshotOf
  <2>3. DOMAIN repeated = 1 .. n /\ repeated = [i \in 1 .. n |-> repeated[i]]
    OBVIOUS
  <2> HIDE DEF repeated, written
  <2>4. IInv'
    BY <1>1, <2>1, <2>2, <2>3, StretchStands
  <2>5. IsStretch(w, repeated) /\ 1 \in DOMAIN repeated /\ repeated # <<>>
    <3>1. \A i \in DOMAIN repeated : repeated[i].passage = rows[w][from + i - 1].passage
      BY <2>2, <2>3
    <3>2. DOMAIN repeated = 1 .. n
      BY <2>3
    <3>3. QED
      BY <1>1, <3>1, <3>2, StretchIsWhole
  <2>6. LastIsKept(written)
    BY <1>2, <1>6 DEF LastIsKept
  <2>7. SessionsStand'
    BY <1>2, <1>3, <2>1, <2>5, <2>6, WritesStand
  <2>8. QED
    BY <2>4, <2>7
<1>7. QED
  BY <1>5, <1>6

\* One version of the row under the cursor, which changes no value.
LEMMA SingleKeeps ==
  ASSUME IInv, SessionsStand, NEW w \in Processes, session[w] # None,
         NEW x, NEW atOnce, NEW written, Stays(w, atOnce), written \in Session,
         written.last = session[w].last,
         Key(w, <<x>>), UNCHANGED Records, Writes(w, atOnce, written)
  PROVE  SessionsStand'
<1>1. LastIsKept(session[w])
  BY DEF SessionsStand, SessionStands
<1>2. LastIsKept(written)
  BY <1>1 DEF LastIsKept, Repeats
<1> DEFINE batch == <<x>>
<1>3. IsStretch(w, batch) /\ batch # <<>>
  BY OneIsAStretch
<1>4. Key(w, batch)
  OBVIOUS
<1> HIDE DEF batch
<1>5. QED
  BY <1>2, <1>3, <1>4, WritesStand

\* Each key writes values on rows it shows, with what it enters in the file.
LEMMA TypeLetterStands ==
  ASSUME IInv, SessionsStand, NEW w \in Processes, session[w] # None, TypeLetter(w)
  PROVE  IInv' /\ SessionsStand'
<1> DEFINE s == [Forgetful(w) EXCEPT !.mark = 0, !.marked = None]
           column == session[w].column
<1>1. /\ session[w] \in Session /\ Here(w) /\ column \in DOMAIN Letters
      /\ session[w].cursor \in DOMAIN rows[w] /\ rows[w] \in Seq(RowType)
  BY SessionFacts DEF TypeLetter, Here
<1>2. PICK letter \in DOMAIN Letters[column], shift \in BOOLEAN :
        Values(w, RangeOf(session[w], rows[w], shift), [field |-> column, value |-> Letters[column][letter]], s)
  BY DEF TypeLetter
<1> DEFINE range == RangeOf(session[w], rows[w], shift)
           value == [field |-> column, value |-> Letters[column][letter]]
<1>3. range[1] \in DOMAIN rows[w] /\ range[2] \in DOMAIN rows[w] /\ range[1] <= range[2]
  BY <1>1, RangeIsShown
<1>4. value.value \in Known /\ value \in Value
  <2>1. Letters[column][letter] \in Range(Letters[column])
    BY DEF Range
  <2>2. Letters[column][letter] \in Known
    BY <1>1, <2>1 DEF Known
  <2>3. column \in Columns
    BY <1>1, SweepAssumption
  <2>4. QED
    BY <2>2, <2>3 DEF Value
<1>5. Stays(w, s)
  <2>1. Forgetful(w) \in Session /\ Stays(w, Forgetful(w))
    BY SessionFacts
  <2>2. s \in Session
    BY <2>1, SessionFields
  <2>3. s.cursor = Forgetful(w).cursor /\ s.last = Forgetful(w).last
    BY <2>1 DEF Session
  <2>4. QED
    BY <2>1, <2>2, <2>3 DEF Stays
<1> HIDE DEF range, value, s
<1>6. Values(w, range, value, s)
  BY <1>2 DEF range, value, s
<1>7. QED
  BY <1>3, <1>4, <1>5, <1>6, ValuesStand

\* A value on the row under the cursor.
LEMMA ValueHereStands ==
  ASSUME IInv, SessionsStand, NEW w \in Processes, session[w] # None, Here(w),
         NEW value \in Value, value.field \in Fields => value.value \in Known,
         Values(w, <<session[w].cursor, session[w].cursor>>, value, Forgetful(w))
  PROVE  IInv' /\ SessionsStand'
<1> DEFINE range == <<session[w].cursor, session[w].cursor>>
<1>1. /\ range[1] \in DOMAIN rows[w] /\ range[2] \in DOMAIN rows[w] /\ range[1] <= range[2]
      /\ Stays(w, Forgetful(w))
  BY SessionFacts DEF Here
<1>2. Values(w, range, value, Forgetful(w))
  OBVIOUS
<1> HIDE DEF range
<1>3. QED
  BY <1>1, <1>2, ValuesStand

\* `.` enters again only what the file was given before.
LEMMA RepeatStands ==
  ASSUME IInv, SessionsStand, NEW w \in Processes, session[w] # None, Repeat(w)
  PROVE  IInv' /\ SessionsStand'
<1>1. /\ Here(w) /\ session[w].last # None
      /\ Values(w, <<session[w].cursor, session[w].cursor>>, session[w].last, Forgetful(w))
  BY DEF Repeat
<1>2. session[w].last \in Value
  BY <1>1, SessionFacts DEF Session
<1>3. session[w].last.field \in Fields => session[w].last.value \in Known
  <2>1. SUFFICES ASSUME session[w].last.field \in Fields PROVE session[w].last.value \in Known
    OBVIOUS
  <2>2. PICK v \in DOMAIN readings : readings[v].value[session[w].last.field] = session[w].last.value
    BY <1>1, <2>1 DEF SessionsStand, SessionStands, LastIsKept, Repeats
  <2>3. readings[v] \in Version
    BY DEF IInv, TypeOK
  <2>4. readings[v].value \in [Fields -> Known]
    BY <2>3 DEF Version
  <2>5. QED
    BY <2>1, <2>2, <2>4
<1>4. PICK value \in Value : value = session[w].last
  BY <1>2
<1>5. QED
  BY <1>1, <1>3, <1>4, ValueHereStands

LEMMA BoilerplateStands ==
  ASSUME IInv, SessionsStand, NEW w \in Processes, session[w] # None, Boilerplate(w)
  PROVE  IInv' /\ SessionsStand'
<1> DEFINE value == [field |-> "materiality", value |-> "boilerplate"]
<1>1. Here(w) /\ Values(w, <<session[w].cursor, session[w].cursor>>, value, Forgetful(w))
  BY DEF Boilerplate
<1>2. value \in Value /\ value.field \notin Fields
  BY DEF Value, Fields
<1> HIDE DEF value
<1>3. QED
  BY <1>1, <1>2, ValueHereStands

LEMMA SubmitEntityStands ==
  ASSUME IInv, SessionsStand, NEW w \in Processes, session[w] # None, SubmitEntity(w)
  PROVE  IInv' /\ SessionsStand'
<1>1. Here(w) /\ session[w].column \in {"speaker", "attributed", "location"}
  BY DEF SubmitEntity
<1>2. PICK who \in People :
        Values(w, <<session[w].cursor, session[w].cursor>>, [field |-> session[w].column, value |-> who],
               Forgetful(w))
  BY DEF SubmitEntity
<1> DEFINE value == [field |-> session[w].column, value |-> who]
<1>3. who \in Known
  BY DEF Known
<1>4. session[w].column \in Columns
  BY <1>1, SessionFacts DEF Session
<1>5. value \in Value /\ value.value \in Known
  BY <1>3, <1>4 DEF Value
<1>6. Values(w, <<session[w].cursor, session[w].cursor>>, value, Forgetful(w))
  BY <1>2
<1> HIDE DEF value
<1>7. QED
  BY <1>1, <1>5, <1>6, ValueHereStands

LEMMA SubmitLocationStands ==
  ASSUME IInv, SessionsStand, NEW w \in Processes, session[w] # None, SubmitLocation(w)
  PROVE  IInv' /\ SessionsStand'
<1> DEFINE value == [field |-> "location", value |-> "text"]
<1>1. /\ Here(w) /\ session[w].column = "location"
      /\ Values(w, <<session[w].cursor, session[w].cursor>>, value, Forgetful(w))
  BY DEF SubmitLocation
<1>2. "location" \in Columns
  BY <1>1, SessionFacts DEF Session
<1>3. value \in Value /\ value.field \notin Fields
  BY <1>2 DEF Value, Fields
<1> HIDE DEF value
<1>4. QED
  BY <1>1, <1>3, ValueHereStands

LEMMA AnswerStands ==
  ASSUME IInv, SessionsStand, NEW w \in Processes, session[w] # None, AnswerCandidate(w)
  PROVE  IInv' /\ SessionsStand'
<1> DEFINE i == session[w].cursor
           written == Past(Forgetful(w), i)
<1>1. /\ i \in DOMAIN rows[w]
      /\ Accept(w, i) \/ Reject(w, i)
      /\ Writes(w, Forgetful(w), written)
  BY DEF AnswerCandidate, Here
<1>2. Shows(w) /\ i \in Nat /\ Forgetful(w) \in Session /\ Stays(w, Forgetful(w))
      /\ Forgetful(w).last = session[w].last
  BY SessionFacts
<1>3. written \in Session /\ written.last = session[w].last
  BY <1>2, PastIsSession
<1> HIDE DEF written
<1>4. PICK k \in DOMAIN rows[w] : k = i /\ (Accept(w, k) \/ Reject(w, k))
  BY <1>1
<1>5. IInv'
  BY <1>2, <1>4, AcceptStands, RejectStands
<1>6. UNCHANGED Records /\ \E x : Key(w, <<x>>)
  BY <1>4 DEF Accept, Reject
<1>7. SessionsStand'
  BY <1>1, <1>2, <1>3, <1>6, SingleKeeps
<1>8. QED
  BY <1>5, <1>7

LEMMA UndoRowStands ==
  ASSUME IInv, SessionsStand, NEW w \in Processes, session[w] # None, UndoRow(w)
  PROVE  IInv' /\ SessionsStand'
<1> DEFINE i == session[w].cursor
           no == FALSE
           written == [Forgetful(w) EXCEPT !.command = no]
<1>1. i \in DOMAIN rows[w] /\ Undo(w, i) /\ Writes(w, Forgetful(w), written)
  BY DEF UndoRow, Here
<1>2. Shows(w) /\ Forgetful(w) \in Session /\ Stays(w, Forgetful(w))
      /\ Forgetful(w).last = session[w].last
  BY SessionFacts
<1>3. no \in BOOLEAN
  OBVIOUS
<1> HIDE DEF no
<1>4. written \in Session
  BY <1>2, <1>3, SessionFields
<1>5. written.last = session[w].last
  BY <1>2 DEF Session
<1> HIDE DEF written
<1>6. PICK k \in DOMAIN rows[w] : k = i /\ Undo(w, k)
  BY <1>1
<1>7. IInv'
  BY <1>2, <1>6, UndoStands
<1>8. UNCHANGED Records /\ \E x : Key(w, <<x>>)
  BY <1>6 DEF Undo
<1>9. SessionsStand'
  BY <1>1, <1>2, <1>4, <1>5, <1>8, SingleKeeps
<1>10. QED
  BY <1>7, <1>9

\* A report and what it reports lie in the rows, the report below.
LEMMA TieToParentStands ==
  ASSUME IInv, SessionsStand, NEW w \in Processes, session[w] # None, TieToParent(w)
  PROVE  IInv' /\ SessionsStand'
<1> DEFINE written == Past(Forgetful(w), session[w].cursor)
<1>1. PICK i \in DOMAIN rows[w] : i = session[w].cursor
  BY DEF TieToParent, Here
<1>2. SetParent(w, i) /\ Writes(w, Forgetful(w), written)
  BY <1>1 DEF TieToParent
<1>3. Shows(w) /\ session[w].cursor \in Nat /\ Forgetful(w) \in Session /\ Stays(w, Forgetful(w))
      /\ Forgetful(w).last = session[w].last
  BY SessionFacts
<1>4. written \in Session /\ written.last = session[w].last
  BY <1>3, PastIsSession
<1> HIDE DEF written
<1>5. IInv'
  BY <1>2, <1>3, SetParentStands
<1> DEFINE row == rows[w][i]
           above == rows[w][ParentRow(w, i)]
           child == Snapshot(row)
           first == Snapshot(above)
           alone == [child EXCEPT !.parent = above.current]
           tied == [child EXCEPT !.parent = Len(readings) + 1]
           batch == <<first, tied>>
<1>6. /\ UNCHANGED Records /\ ParentRow(w, i) # 0
      /\ Key(w, <<alone>>) \/ Key(w, batch)
  BY <1>2 DEF SetParent
<1>7. ASSUME Key(w, <<alone>>) PROVE SessionsStand'
  <2> HIDE DEF alone, batch
  <2>1. QED
    BY <1>2, <1>3, <1>4, <1>6, <1>7, SingleKeeps
<1>8. ASSUME Key(w, batch) PROVE SessionsStand'
  <2>1. /\ ParentRow(w, i) \in DOMAIN rows[w] /\ ParentRow(w, i) < i
        /\ row \in RowType /\ RowStands(row) /\ above \in RowType /\ RowStands(above)
    BY <1>3, <1>6, ParentRowIsAbove, RowFacts
  <2> HIDE DEF row, above
  <2>2. SnapshotOf(child, row) /\ SnapshotOf(first, above)
    BY <2>1, SnapshotFacts
  <2> HIDE DEF child, first
  <2>3. /\ first.passage = above.passage
        /\ tied.passage = row.passage /\ tied.parent = Len(readings) + 1
    BY <2>2 DEF SnapshotOf, Version
  <2>4. tied.parent # 0
    <3>1. Len(readings) \in Nat
      BY DEF IInv, TypeOK
    <3>2. QED
      BY <2>3, <3>1
  <2> HIDE DEF tied
  <2>5. batch # <<>> /\ DOMAIN batch = {1, 2} /\ batch[1] = first /\ batch[2] = tied
    OBVIOUS
  <2> HIDE DEF batch
  <2>6. IsStretch(w, batch)
    <3> SUFFICES ASSUME NEW m \in DOMAIN batch, NEW n \in DOMAIN batch, m < n
        PROVE  \E a, b \in DOMAIN rows[w] :
                 /\ a < b
                 /\ b = a + (n - m) \/ batch[n].parent # 0
                 /\ rows[w][a].passage = batch[m].passage
                 /\ rows[w][b].passage = batch[n].passage
      BY DEF IsStretch
    <3>1. m = 1 /\ n = 2
      BY <2>5
    <3>2. batch[n].parent # 0 /\ batch[m].passage = above.passage /\ batch[n].passage = row.passage
      BY <2>3, <2>4, <2>5, <3>1
    <3>3. QED
      BY <2>1, <3>2 DEF row, above
  <2>7. LastIsKept(written)
    <3>1. LastIsKept(session[w])
      BY DEF SessionsStand, SessionStands
    <3>2. QED
      BY <1>4, <3>1 DEF LastIsKept, Repeats
  <2>8. QED
    BY <1>2, <1>3, <1>4, <1>6, <1>8, <2>5, <2>6, <2>7, WritesStand
<1>9. QED
  BY <1>5, <1>6, <1>7, <1>8

LEMMA SubmitTimeStands ==
  ASSUME IInv, SessionsStand, NEW w \in Processes, session[w] # None, SubmitTime(w)
  PROVE  IInv' /\ SessionsStand'
<1> DEFINE row == rows[w][session[w].cursor]
           x == Snapshot(row)
           Asked(b) == [session[w] EXCEPT !.basis = b]
           Done(b) == Past([Asked(b) EXCEPT !.pending = None], Asked(b).cursor)
<1>1. /\ session[w] \in Session /\ Shows(w) /\ Stays(w, session[w]) /\ session[w].cursor \in Nat
      /\ session[w].basis \in BOOLEAN
  BY SessionFacts DEF Session
<1>2. PICK kind \in {"asserted", "with basis", "kept basis"} :
        LET asked == [session[w] EXCEPT !.basis = @ \/ kind = "with basis"]
        IN  /\ Key(w, <<Snapshot(Selected(w))>>)
            /\ UNCHANGED Records
            /\ Writes(w, asked, Past([asked EXCEPT !.pending = None], asked.cursor))
  BY DEF SubmitTime
<1>3. PICK b \in BOOLEAN : b = (session[w].basis \/ kind = "with basis")
  BY <1>1
<1>4. [session[w] EXCEPT !.basis = @ \/ kind = "with basis"] = Asked(b)
  BY <1>3
<1>5. Key(w, <<x>>) /\ UNCHANGED Records /\ Writes(w, Asked(b), Done(b)) /\ Here(w)
  BY <1>2, <1>4 DEF SubmitTime, Selected
<1>6. Asked(b) \in Session
  BY <1>1, SessionFields
<1>7. Asked(b).cursor = session[w].cursor /\ Asked(b).last = session[w].last
  BY <1>1 DEF Session
<1>8. Stays(w, Asked(b))
  BY <1>1, <1>6, <1>7 DEF Stays
<1> HIDE DEF Asked
<1> DEFINE s == [Asked(b) EXCEPT !.pending = None]
<1>9. s \in Session
  BY <1>6, SessionFields
<1>10. s.last = session[w].last
  BY <1>6, <1>7 DEF Session
<1> HIDE DEF s
<1>11. Past(s, Asked(b).cursor) \in Session /\ Past(s, Asked(b).cursor).last = session[w].last
  BY <1>1, <1>7, <1>9, <1>10, PastIsSession
<1>12. Done(b) \in Session /\ Done(b).last = session[w].last
  BY <1>11 DEF s
<1> HIDE DEF Done
<1>13. row \in RowType /\ RowStands(row)
  BY <1>1, <1>5, RowFacts DEF Here
<1> HIDE DEF row
<1>14. SnapshotOf(x, row)
  BY <1>13, SnapshotFacts
<1> HIDE DEF x
<1>15. IInv'
  BY <1>5, <1>14, SingleStands DEF SnapshotOf
<1>16. SessionsStand'
  BY <1>5, <1>8, <1>12, SingleKeeps
<1>17. QED
  BY <1>15, <1>16

LEMMA SubmitSpanStands ==
  ASSUME IInv, SessionsStand, NEW w \in Processes, session[w] # None, SubmitSpan(w)
  PROVE  IInv' /\ SessionsStand'
<1> DEFINE batch == << >>
<1>1. /\ Key(w, batch) /\ UNCHANGED Records /\ session[w].pending = "span"
      /\ Writes(w, session[w], Forgetful(w))
  BY DEF SubmitSpan
<1>2. batch \in Seq(Version) /\ DOMAIN batch = {}
  OBVIOUS
<1>3. Write(w, batch, AfterKey)
  BY <1>1 DEF Key
<1> HIDE DEF batch
<1>4. SoundBatch(batch) /\ IsStretch(w, batch)
  BY <1>2 DEF SoundBatch, IsStretch
<1>5. IInv'
  BY <1>1, <1>2, <1>3, <1>4, CallTypes, WriteStands
<1>6. /\ Stays(w, session[w]) /\ Forgetful(w) \in Session
      /\ Forgetful(w).last = session[w].last
  BY SessionFacts
<1>7. LastIsKept(Forgetful(w))
  <2>1. LastIsKept(session[w])
    BY DEF SessionsStand, SessionStands
  <2>2. QED
    BY <1>6, <2>1 DEF LastIsKept, Repeats
<1>8. PICK s : s = session[w]
  OBVIOUS
<1>9. SessionsStand'
  BY <1>1, <1>4, <1>6, <1>7, <1>8, WritesStand
<1>10. QED
  BY <1>5, <1>9

\* A group writes no version: the session only forgets what was asked.
LEMMA GroupStands ==
  ASSUME IInv, SessionsStand, NEW w \in Processes, session[w] # None, GroupWithNext(w)
  PROVE  IInv' /\ SessionsStand'
<1> DEFINE batch == << >>
           then == Then(Idle, Idle)
           call == [op |-> "append", batch |-> batch, then |-> then]
           accepted == \A i \in DOMAIN batch : Accepts(batch[i])
<1>1. /\ Write(w, batch, then) /\ UNCHANGED Records /\ doing[w] = Idle /\ hoped' = hoped
      /\ keys' = keys + 1 /\ session' = [session EXCEPT ![w] = Forgetful(w)]
  BY DEF GroupWithNext, Press, Becomes
<1>2. batch \in Seq(Version) /\ DOMAIN batch = {}
  OBVIOUS
<1>3. Begin(w, accepted, call) /\ accepted \in BOOLEAN
  BY <1>1 DEF Write
<1>4. /\ call.op = "append" /\ call.then = then /\ then \in Thens
      /\ then.refused = Idle /\ then.written = Idle /\ Idle.op = "idle"
  BY CallTypes DEF Then, Idle
<1> HIDE DEF batch, call, then
<1>5. accepted
  BY <1>2
<1> HIDE DEF accepted
<1>6. SoundBatch(batch)
  BY <1>2 DEF SoundBatch
<1>7. IInv'
  BY <1>1, <1>2, <1>4, <1>6, WriteStands
<1>8. doing'[w] = call /\ \A x \in Processes : x # w => doing'[x] = doing[x]
  BY <1>3, <1>5, BeginMoves DEF IInv
<1>9. readings' = readings /\ profiles' = profiles /\ rows' = rows /\ FileGrows
  BY <1>1, SameFileGrows DEF Records
<1>10. Shows(w) /\ Forgetful(w) \in Session /\ Stays(w, Forgetful(w)) /\ LastIsKept(session[w])
  BY SessionFacts DEF SessionsStand, SessionStands
<1>11. SweepTypeOK'
  BY <1>1, <1>10 DEF SessionsStand, SweepTypeOK
<1>12. session'[w] = Forgetful(w) /\ \A x \in Processes : x # w => session'[x] = session[x]
  BY <1>1 DEF SessionsStand, SweepTypeOK
<1>13. Shows(w)'
  BY <1>9, <1>10, ShowsStays
<1>14. PICK s : s = Forgetful(w)
  OBVIOUS
<1>15. SessionStands(w)'
  <2>1. LastIsKept(s)
    BY <1>10, <1>14 DEF LastIsKept, Repeats, Stays
  <2>2. LastIsKept(s)'
    BY <1>9, <2>1, LastStays
  <2>3. LastIsKept(session[w])'
    BY <1>12, <1>14, <2>2 DEF LastIsKept, Repeats
  <2>4. QED
    BY <1>9, <1>10, <1>12, <1>13, <2>3 DEF SessionStands, Stays, Within
<1>16. HopeStands(w)'
  <2>1. hoped[w] = None
    BY <1>1, <1>4 DEF SessionsStand, HopeStands
  <2>2. QED
    BY <1>1, <1>4, <1>8, <1>13, <2>1 DEF HopeStands
<1>17. SessionsStand'
  BY <1>1, <1>8, <1>9, <1>11, <1>12, <1>15, <1>16, OneSteps
<1>18. QED
  BY <1>7, <1>17

----------------------------------------------------------------------------
(* Keys that move or ask, and the steps of the file.                        *)

LEMMA PlaceKeepsLast ==
  ASSUME SessionsStand, NEW w \in Processes, session[w] # None,
         NEW c \in Nat, c = Within(c, rows[w])
  PROVE  Stays(w, [Forgetful(w) EXCEPT !.cursor = c])
<1>1. Forgetful(w) \in Session /\ Forgetful(w).last = session[w].last
  BY SessionFacts
<1>2. [Forgetful(w) EXCEPT !.cursor = c] \in Session
  BY <1>1, SessionFields
<1>3. /\ [Forgetful(w) EXCEPT !.cursor = c].cursor = c
      /\ [Forgetful(w) EXCEPT !.cursor = c].last = session[w].last
  BY <1>1 DEF Session
<1>4. QED
  BY <1>2, <1>3 DEF Stays

LEMMA OtherFieldsStay ==
  ASSUME SessionsStand, NEW w \in Processes, session[w] # None
  PROVE  /\ \A p \in {None, "entity", "time", "span", "search"} : Stays(w, [Forgetful(w) EXCEPT !.pending = p])
         /\ \A c \in Columns \cup {"form"} : Stays(w, [Forgetful(w) EXCEPT !.column = c])
         /\ \A b \in BOOLEAN : Stays(w, [Forgetful(w) EXCEPT !.command = b])
         /\ \A m \in Nat, p \in Passage \cup {None} : Stays(w, [Forgetful(w) EXCEPT !.mark = m, !.marked = p])
<1>1. Forgetful(w) \in Session /\ Stays(w, Forgetful(w))
  BY SessionFacts
<1> DEFINE s == Forgetful(w)
<1> HIDE DEF s
<1>2. s \in Session /\ s.cursor = Within(s.cursor, rows[w]) /\ s.last = session[w].last
  BY <1>1 DEF Stays, s
<1>3. ASSUME NEW p \in {None, "entity", "time", "span", "search"} PROVE Stays(w, [s EXCEPT !.pending = p])
  <2>1. [s EXCEPT !.pending = p] \in Session
    BY <1>2, SessionFields
  <2>2. [s EXCEPT !.pending = p].cursor = s.cursor /\ [s EXCEPT !.pending = p].last = s.last
    BY <1>2 DEF Session
  <2>3. QED
    BY <1>2, <2>1, <2>2 DEF Stays
<1>4. ASSUME NEW c \in Columns \cup {"form"} PROVE Stays(w, [s EXCEPT !.column = c])
  <2>1. [s EXCEPT !.column = c] \in Session
    BY <1>2, SessionFields
  <2>2. [s EXCEPT !.column = c].cursor = s.cursor /\ [s EXCEPT !.column = c].last = s.last
    BY <1>2 DEF Session
  <2>3. QED
    BY <1>2, <2>1, <2>2 DEF Stays
<1>5. ASSUME NEW b \in BOOLEAN PROVE Stays(w, [s EXCEPT !.command = b])
  <2>1. [s EXCEPT !.command = b] \in Session
    BY <1>2, SessionFields
  <2>2. [s EXCEPT !.command = b].cursor = s.cursor /\ [s EXCEPT !.command = b].last = s.last
    BY <1>2 DEF Session
  <2>3. QED
    BY <1>2, <2>1, <2>2 DEF Stays
<1>6. ASSUME NEW m \in Nat, NEW p \in Passage \cup {None}
      PROVE  Stays(w, [s EXCEPT !.mark = m, !.marked = p])
  <2>1. [s EXCEPT !.mark = m, !.marked = p] \in Session
    BY <1>2, SessionFields
  <2>2. [s EXCEPT !.mark = m, !.marked = p].cursor = s.cursor /\ [s EXCEPT !.mark = m, !.marked = p].last = s.last
    BY <1>2 DEF Session
  <2>3. QED
    BY <1>2, <2>1, <2>2 DEF Stays
<1>7. QED
  BY <1>3, <1>4, <1>5, <1>6 DEF s

LEMMA WalkStands ==
  ASSUME IInv, SessionsStand, NEW w \in Processes, session[w] # None,
         StepRow(w) \/ WalkToWork(w) \/ SelectRow(w)
  PROVE  IInv' /\ SessionsStand'
<1>1. /\ session[w].cursor \in Nat /\ session[w].cursor >= 1
      /\ rows[w] \in Seq(RowType) /\ Len(rows[w]) \in Nat
      /\ Forgetful(w) \in Session /\ Forgetful(w).cursor = session[w].cursor
  BY SessionFacts
<1>2. CASE StepRow(w)
  <2>1. PICK by \in {-1, 1} : Moves(w, [Forgetful(w) EXCEPT !.cursor = Within(@ + by, rows[w])])
    BY <1>2 DEF StepRow
  <2> DEFINE n == Forgetful(w).cursor + by
             c == Within(n, rows[w])
  <2>2. n \in Nat
    BY <1>1
  <2>3. [Forgetful(w) EXCEPT !.cursor = Within(@ + by, rows[w])] = [Forgetful(w) EXCEPT !.cursor = c]
    BY <1>1 DEF Session
  <2> HIDE DEF n
  <2>4. c \in Nat /\ c = Within(c, rows[w])
    BY <1>1, <2>2, WithinIs, WithinIsWithin
  <2> HIDE DEF c
  <2>5. QED
    BY <2>1, <2>3, <2>4, PlaceKeepsLast, MovesStand
<1>3. CASE WalkToWork(w) \/ SelectRow(w)
  <2>1. PICK i \in DOMAIN rows[w] : Moves(w, [Forgetful(w) EXCEPT !.cursor = i])
    BY <1>3 DEF WalkToWork, SelectRow
  <2>2. i \in Nat /\ i >= 1 /\ i <= Len(rows[w])
    BY <1>1
  <2>3. i = Within(i, rows[w])
    BY <1>1, <2>2, WithinIs
  <2>4. QED
    BY <2>1, <2>2, <2>3, PlaceKeepsLast, MovesStand
<1>4. QED
  BY <1>2, <1>3

LEMMA AskingStands ==
  ASSUME IInv, SessionsStand, NEW w \in Processes, session[w] # None,
         SwitchColumn(w) \/ Escape(w) \/ MarkRow(w) \/ Ask(w) \/ Mistype(w)
  PROVE  IInv' /\ SessionsStand'
<1>1. CASE SwitchColumn(w)
  <2>1. PICK c \in Columns \cup {"form"} : Moves(w, [Forgetful(w) EXCEPT !.column = c])
    BY <1>1 DEF SwitchColumn
  <2>2. QED
    BY <2>1, OtherFieldsStay, MovesStand
<1>2. CASE Escape(w)
  <2> DEFINE yes == TRUE
  <2>1. Moves(w, [Forgetful(w) EXCEPT !.command = yes]) /\ yes \in BOOLEAN
    BY <1>2 DEF Escape
  <2> HIDE DEF yes
  <2>2. QED
    BY <2>1, OtherFieldsStay, MovesStand
<1>3. CASE MarkRow(w)
  <2> DEFINE p == IF Here(w) THEN Selected(w).passage ELSE None
  <2>1. session[w].cursor \in Nat /\ Shows(w)
    BY SessionFacts
  <2>2. p \in Passage \cup {None}
    <3>1. ASSUME Here(w) PROVE Selected(w).passage \in Passage
      <4>1. Selected(w) \in RowType
        BY <2>1, <3>1, RowFacts DEF Selected, Here
      <4>2. QED
        BY <4>1 DEF RowType
    <3>2. QED
      BY <3>1
  <2>3. Moves(w, [Forgetful(w) EXCEPT !.mark = session[w].cursor, !.marked = p])
    BY <1>3 DEF MarkRow
  <2> HIDE DEF p
  <2>4. PICK m \in Nat : m = session[w].cursor
    BY <2>1
  <2>5. QED
    BY <2>2, <2>3, <2>4, OtherFieldsStay, MovesStand
<1>4. CASE Ask(w)
  <2>1. PICK p \in {None, "entity", "time", "span", "search"} : Moves(w, [Forgetful(w) EXCEPT !.pending = p])
    BY <1>4 DEF Ask
  <2>2. QED
    BY <2>1, OtherFieldsStay, MovesStand
<1>5. CASE Mistype(w)
  <2>1. Stays(w, Forgetful(w)) /\ Stays(w, session[w])
    BY SessionFacts
  <2>2. Stays(w, [Forgetful(w) EXCEPT !.mark = 0, !.marked = None])
    BY OtherFieldsStay
  <2>3. PICK s : Stays(w, s) /\ Moves(w, s)
    BY <1>5, <2>1, <2>2 DEF Mistype
  <2>4. QED
    BY <2>3, MovesStand
<1>6. QED
  BY <1>1, <1>2, <1>3, <1>4, <1>5

\* The rows as the file has them.
LEMMA ShowsRead ==
  ASSUME IInv, readings' = readings, profiles' = profiles, NEW w \in Processes, rows'[w] = Read
  PROVE  Shows(w)'
<1>1. /\ Read \in Seq(RowType)
      /\ \A i \in DOMAIN Read : RowStands(Read[i])
      /\ \A i, j \in DOMAIN Read : i < j => Above(Read[i].passage, Read[j].passage)
  BY ReadStands DEF IInv
<1>2. \A row : RowStands(row)' <=> RowStands(row)
  BY FileStays
<1>3. PICK shown : shown = Read
  OBVIOUS
<1>4. /\ shown \in Seq(RowType) /\ rows'[w] = shown
      /\ \A i \in DOMAIN shown : RowStands(shown[i])'
      /\ \A i, j \in DOMAIN shown : i < j => Above(shown[i].passage, shown[j].passage)
  BY <1>1, <1>2, <1>3
<1>5. (\A i \in DOMAIN rows[w] : RowStands(rows[w][i]))'
  <2>1. ASSUME NEW i \in DOMAIN rows'[w] PROVE RowStands(rows[w][i])'
    <3>1. PICK row : row = shown[i]
      OBVIOUS
    <3>2. RowStands(row)' /\ rows'[w][i] = row
      BY <1>4, <3>1
    <3>3. QED
      BY <3>2
  <2>2. QED
    BY <2>1
<1>6. QED
  BY <1>4, <1>5 DEF Shows, Above

LEMMA OpenSessionStands ==
  ASSUME IInv, SessionsStand, NEW w \in Processes, OpenSession(w)
  PROVE  IInv' /\ SessionsStand'
<1> DEFINE no == FALSE
           s == [column |-> "form", cursor |-> 1, mark |-> 0, marked |-> None,
                 last |-> None, basis |-> no, pending |-> None, command |-> no]
<1>1. /\ OpenSweep(w) /\ doing[w] = Idle /\ hoped' = hoped /\ keys' = keys + 1
      /\ session' = [session EXCEPT ![w] = s]
  BY DEF OpenSession, Becomes
<1>2. IInv'
  BY <1>1, OpenSweepStands
<1>3. /\ readings' = readings /\ profiles' = profiles /\ doing' = doing /\ FileGrows
      /\ rows' = [rows EXCEPT ![w] = Read]
  BY <1>1, SameFileGrows DEF OpenSweep
<1>4. no \in BOOLEAN
  OBVIOUS
<1> HIDE DEF no
<1>5. s \in Session /\ s.cursor = 1 /\ s.last = None
  BY <1>4 DEF Session
<1> HIDE DEF s
<1>6. SweepTypeOK'
  BY <1>1, <1>5 DEF SessionsStand, SweepTypeOK
<1>7. /\ session'[w] = s /\ rows'[w] = Read
      /\ \A x \in Processes : x # w => session'[x] = session[x] /\ rows'[x] = rows[x]
  BY <1>1, <1>3 DEF SessionsStand, SweepTypeOK, IInv, TypeOK
<1>8. Shows(w)'
  BY <1>3, <1>7, ShowsRead
<1>9. SessionStands(w)'
  <2>1. Len(rows'[w]) \in Nat
    BY <1>8 DEF Shows
  <2>2. Within(1, rows'[w]) = 1
    BY <2>1, WithinIs
  <2>3. LastIsKept(session[w])'
    BY <1>5, <1>7 DEF LastIsKept
  <2>4. QED
    BY <1>5, <1>7, <1>8, <2>2, <2>3 DEF SessionStands, Within
<1>10. HopeStands(w)'
  BY <1>1, <1>3 DEF SessionsStand, HopeStands, Idle
<1>11. QED
  BY <1>1, <1>2, <1>3, <1>6, <1>7, <1>9, <1>10, OneSteps

\* A written key finds its rows again, wherever the others have moved.
LEMMA SessionRefreshStands ==
  ASSUME IInv, SessionsStand, NEW w \in Processes, SessionRefresh(w)
  PROVE  IInv' /\ SessionsStand'
<1> DEFINE s == Lands(hoped[w], rows'[w])
<1>1. /\ Refresh(w) /\ hoped' = [hoped EXCEPT ![w] = None] /\ keys' = keys
      /\ session' = [session EXCEPT ![w] = s]
  BY DEF SessionRefresh, Becomes
<1>2. IInv'
  BY <1>1, RefreshStands
<1>3. /\ readings' = readings /\ profiles' = profiles /\ FileGrows /\ doing[w].op = "refresh"
      /\ rows' = [rows EXCEPT ![w] = IF rows[w] = None THEN None ELSE Read]
      /\ doing' = [doing EXCEPT ![w] = Idle]
  BY <1>1, SameFileGrows, RestMoves DEF Refresh, IInv, Become
<1>4. hoped[w] \in Session /\ LastIsKept(hoped[w]) /\ Shows(w)
  BY <1>3 DEF SessionsStand, HopeStands
<1>5. /\ rows'[w] = rows[w] \/ rows'[w] = Read
      /\ doing'[w] = Idle
      /\ \A x \in Processes : x # w => rows'[x] = rows[x] /\ doing'[x] = doing[x]
  BY <1>3 DEF IInv, TypeOK
<1>6. Shows(w)'
  BY <1>3, <1>4, <1>5, ShowsStays, ShowsRead
<1>7. Len(rows'[w]) \in Nat
  BY <1>6 DEF Shows
<1> DEFINE n == hoped[w].cursor
           c == Within(n, rows'[w])
<1>8. n \in Nat
  BY <1>4 DEF Session
<1>9. s = [hoped[w] EXCEPT !.cursor = c]
  BY <1>4 DEF Lands, Session
<1> HIDE DEF n
<1>10. c \in Nat /\ Within(c, rows'[w]) = c
  BY <1>7, <1>8, WithinIs, WithinIsWithin
<1> HIDE DEF c, s
<1>11. s \in Session /\ s.cursor = c /\ s.last = hoped[w].last
  <2>1. s \in Session
    BY <1>4, <1>9, <1>10, SessionFields
  <2>2. QED
    BY <1>4, <1>9, <2>1 DEF Session
<1>12. SweepTypeOK'
  BY <1>1, <1>11 DEF SessionsStand, SweepTypeOK
<1>13. /\ session'[w] = s /\ hoped'[w] = None
       /\ \A x \in Processes : x # w => session'[x] = session[x] /\ hoped'[x] = hoped[x]
  BY <1>1 DEF SessionsStand, SweepTypeOK
<1>14. SessionStands(w)'
  <2>0. PICK landed : landed = s
    OBVIOUS
  <2>1. LastIsKept(landed)
    BY <1>4, <1>11, <2>0 DEF LastIsKept, Repeats
  <2>2. LastIsKept(landed)'
    BY <1>3, <2>1, LastStays
  <2>3. LastIsKept(session[w])'
    BY <1>13, <2>0, <2>2 DEF LastIsKept, Repeats
  <2>4. s.cursor = Within(s.cursor, rows'[w])
    BY <1>10, <1>11
  <2>5. QED
    BY <1>6, <1>13, <2>3, <2>4 DEF SessionStands, Within
<1>15. HopeStands(w)'
  BY <1>5, <1>13 DEF HopeStands, Idle
<1>16. QED
  BY <1>2, <1>3, <1>5, <1>12, <1>13, <1>14, <1>15, OneSteps

\* What a key promised the session is in the file when the key is.
LEMMA KeyIsCommittedStands ==
  ASSUME IInv, SessionsStand, NEW w \in Processes, KeyIsCommitted(w)
  PROVE  IInv' /\ SessionsStand'
<1>1. Commit(w) /\ session' = session /\ hoped' = hoped /\ keys' = keys
  BY DEF KeyIsCommitted, sweepVars
<1>2. IInv'
  BY <1>1, CommitStands
<1>3. /\ FileGrows
      /\ \A i \in DOMAIN doing[w].batch : \E v \in DOMAIN readings' : readings'[v] = doing[w].batch[i]
  BY <1>1, CommitGrows
<1>4. doing[w].op = "append" /\ rows' = rows /\ Written(w)
  BY <1>1 DEF Commit
<1>5. /\ doing'[w] = doing[w].then.written
      /\ \A x \in Processes : x # w => doing'[x] = doing[x]
  BY <1>4, WrittenMoves
<1>6. SweepTypeOK'
  BY <1>1 DEF SessionsStand, SweepTypeOK
<1>7. SessionStands(w) /\ HopeStands(w)
  BY DEF SessionsStand
<1>8. Shows(w)'
  BY <1>3, <1>4, <1>7, ShowsStays DEF HopeStands
<1>9. SessionStands(w)'
  <2>1. PICK s : s = session[w]
    OBVIOUS
  <2>2. LastIsKept(s) => LastIsKept(s)'
    BY <1>3, LastStays
  <2>3. LastIsKept(session[w]) => LastIsKept(session[w])'
    <3>1. LastIsKept(session[w])' <=> LastIsKept(s)'
      BY <1>1, <2>1 DEF LastIsKept, Repeats
    <3>2. QED
      BY <2>1, <2>2, <3>1
  <2>4. QED
    BY <1>1, <1>4, <1>7, <1>8, <2>3 DEF SessionStands, Within
<1>10. HopeStands(w)'
  <2>1. CASE doing[w].then.written.op = "idle"
    <3>1. doing'[w].op = "idle" /\ hoped'[w] = None
      BY <1>1, <1>4, <1>5, <1>7, <2>1 DEF HopeStands
    <3>2. QED
      BY <3>1 DEF HopeStands
  <2>2. CASE doing[w].then.written.op # "idle"
    <3>1. /\ doing'[w].op = "refresh" /\ hoped[w] \in Session
          /\ \/ LastIsKept(hoped[w])
             \/ \E i \in DOMAIN doing[w].batch : Repeats(hoped[w], doing[w].batch[i])
      BY <1>4, <1>5, <1>7, <2>2 DEF HopeStands
    <3>2. PICK s : s = hoped[w]
      OBVIOUS
    <3>3. LastIsKept(s)'
      <4>1. CASE LastIsKept(s)
        BY <1>3, <4>1, LastStays
      <4>2. CASE \E i \in DOMAIN doing[w].batch : Repeats(s, doing[w].batch[i])
        <5>1. PICK i \in DOMAIN doing[w].batch : Repeats(s, doing[w].batch[i])
          BY <4>2
        <5>2. PICK v \in DOMAIN readings' : readings'[v] = doing[w].batch[i]
          BY <1>3
        <5>3. Repeats(s, readings'[v])
          BY <5>1, <5>2
        <5>4. QED
          BY <5>3 DEF LastIsKept, Repeats
      <4>3. QED
        BY <3>1, <3>2, <4>1, <4>2
    <3>4. LastIsKept(hoped[w])'
      BY <1>1, <3>2, <3>3 DEF LastIsKept, Repeats
    <3>5. QED
      BY <1>1, <1>8, <3>1, <3>4 DEF HopeStands
  <2>3. QED
    BY <2>1, <2>2
<1>11. QED
  BY <1>1, <1>2, <1>3, <1>4, <1>5, <1>6, <1>9, <1>10, OneSteps

LEMMA KeyIsRefusedStands ==
  ASSUME IInv, SessionsStand, NEW w \in Processes, KeyIsRefused(w)
  PROVE  IInv' /\ SessionsStand'
<1>1. Refuse(w) /\ hoped' = [hoped EXCEPT ![w] = None] /\ session' = session /\ keys' = keys
  BY DEF KeyIsRefused
<1>2. IInv'
  BY <1>1, RefuseStands
<1>3. /\ readings' = readings /\ profiles' = profiles /\ rows' = rows /\ FileGrows
      /\ doing[w].op \in {"append", "save"}
  BY <1>1, SameFileGrows DEF Refuse, Records
<1>4. SessionStands(w) /\ HopeStands(w)
  BY DEF SessionsStand
<1>5. doing[w].then.refused = Idle /\ Shows(w)
  BY <1>3, <1>4 DEF HopeStands
<1>6. Become(w, Idle)
  BY <1>1, <1>5 DEF Refuse, Rest
<1>7. doing'[w] = Idle /\ \A x \in Processes : x # w => doing'[x] = doing[x]
  BY <1>6 DEF Become, IInv, TypeOK
<1>8. SweepTypeOK'
  BY <1>1 DEF SessionsStand, SweepTypeOK
<1>9. hoped'[w] = None /\ \A x \in Processes : x # w => hoped'[x] = hoped[x]
  BY <1>1 DEF SessionsStand, SweepTypeOK
<1>10. SessionStands(w)'
  <2>1. Shows(w)'
    BY <1>3, <1>5, ShowsStays
  <2>2. LastIsKept(session[w])' <=> LastIsKept(session[w])
    BY <1>1, <1>3 DEF LastIsKept, Repeats
  <2>3. QED
    BY <1>1, <1>3, <1>4, <2>1, <2>2 DEF SessionStands, Within
<1>11. HopeStands(w)'
  BY <1>7, <1>9 DEF HopeStands, Idle
<1>12. QED
  BY <1>1, <1>2, <1>3, <1>7, <1>8, <1>9, <1>10, <1>11, OneSteps

\* Nothing the sessions know changes.
LEMMA SessionsStay ==
  ASSUME SessionsStand, readings' = readings, profiles' = profiles, rows' = rows, doing' = doing,
         UNCHANGED sweepVars
  PROVE  SessionsStand'
<1>1. FileGrows
  BY SameFileGrows
<1>2. session' = session /\ hoped' = hoped /\ keys' = keys
  BY DEF sweepVars
<1>3. SweepTypeOK'
  BY <1>2 DEF SessionsStand, SweepTypeOK
<1>4. ASSUME NEW x \in Processes PROVE SessionStands(x)' /\ HopeStands(x)'
  BY <1>1, <1>2, OtherSessionStands DEF SessionsStand
<1>5. QED
  BY <1>3, <1>4 DEF SessionsStand

LEMMA WithholdStands ==
  ASSUME IInv, SessionsStand, NEW w \in Processes, NEW p \in Passage, Withhold(w, p)
  PROVE  IInv' /\ SessionsStand'
<1>1. /\ readings' = readings /\ profiles' = profiles /\ rows' = rows /\ doing' = doing
      /\ UNCHANGED sweepVars /\ withheld' = withheld \cup {p}
      /\ moved' = [x \in Processes |->
                     IF x = w \/ doing[x] = Idle THEN moved[x] ELSE [run |-> TRUE, read |-> TRUE]]
  BY DEF Withhold
<1>2. \A x \in Processes : moved'[x] = moved[x] \/ (moved'[x] = [run |-> TRUE, read |-> TRUE])
  BY <1>1
<1>3. moved' \in [Processes -> [run : BOOLEAN, read : BOOLEAN]]
  <2>1. moved \in [Processes -> [run : BOOLEAN, read : BOOLEAN]]
    BY DEF IInv, TypeOK
  <2>2. [run |-> TRUE, read |-> TRUE] \in [run : BOOLEAN, read : BOOLEAN]
    BY Zenon
  <2>3. QED
    BY <1>1, <2>1, <2>2
<1>4. TypeOK'
  BY <1>1, <1>3 DEF IInv, TypeOK
<1>5. \A x \in Processes : ~ moved'[x].read => ~ moved[x].read /\ doing'[x] = doing[x]
  BY <1>1, <1>2
<1>6. IInv'
  BY <1>1, <1>4, <1>5, QuietStep
<1>7. SessionsStand'
  BY <1>1, SessionsStay
<1>8. QED
  BY <1>6, <1>7

LEMMA SweepNextStands ==
  IInv /\ SessionsStand /\ [SweepNext]_<<vars, sweepVars>> => (IInv /\ SessionsStand)'
<1> SUFFICES ASSUME IInv, SessionsStand, [SweepNext]_<<vars, sweepVars>>
             PROVE  IInv' /\ SessionsStand'
  OBVIOUS
<1>1. CASE UNCHANGED <<vars, sweepVars>>
  <2>1. IInv'
    BY <1>1, StillStands
  <2>2. SessionsStand'
    BY <1>1, SessionsStay DEF vars
  <2>3. QED
    BY <2>1, <2>2
<1>2. ASSUME NEW w \in Processes, session[w] # None,
             \/ StepRow(w) \/ WalkToWork(w) \/ SelectRow(w) \/ SwitchColumn(w)
             \/ Escape(w) \/ MarkRow(w) \/ Ask(w) \/ Mistype(w)
      PROVE  IInv' /\ SessionsStand'
  BY <1>2, WalkStands, AskingStands
<1>3. ASSUME NEW w \in Processes, session[w] # None,
             \/ TypeLetter(w) \/ Repeat(w) \/ Boilerplate(w)
             \/ AnswerCandidate(w) \/ TieToParent(w) \/ UndoRow(w) \/ GroupWithNext(w)
             \/ SubmitEntity(w) \/ SubmitLocation(w) \/ SubmitTime(w) \/ SubmitSpan(w)
      PROVE  IInv' /\ SessionsStand'
  BY <1>3, TypeLetterStands, RepeatStands, BoilerplateStands, AnswerStands, TieToParentStands,
     UndoRowStands, GroupStands, SubmitEntityStands, SubmitLocationStands, SubmitTimeStands,
     SubmitSpanStands
<1>4. ASSUME NEW w \in Processes,
             OpenSession(w) \/ SessionRefresh(w) \/ KeyIsCommitted(w) \/ KeyIsRefused(w)
      PROVE  IInv' /\ SessionsStand'
  BY <1>4, OpenSessionStands, SessionRefreshStands, KeyIsCommittedStands, KeyIsRefusedStands
<1>5. ASSUME NEW w \in Processes, NEW p \in Passage, Withhold(w, p)
      PROVE  IInv' /\ SessionsStand'
  BY <1>5, WithholdStands
<1>6. QED
  BY <1>1, <1>2, <1>3, <1>4, <1>5 DEF SweepNext

LEMMA SessionInitStands == SessionInit => IInv /\ SessionsStand
<1> SUFFICES ASSUME SessionInit PROVE IInv /\ SessionsStand
  OBVIOUS
<1>1. /\ session = [w \in Processes |-> None] /\ hoped = [w \in Processes |-> None] /\ keys = 0
      /\ \A w \in Processes : doing[w] = Idle
  BY DEF SessionInit, SweepInit
<1>2. SweepTypeOK
  BY <1>1 DEF SweepTypeOK
<1>3. \A w \in Processes : SessionStands(w) /\ HopeStands(w)
  BY <1>1 DEF SessionStands, HopeStands, Idle
<1>4. QED
  BY <1>2, <1>3 DEF SessionInit, SessionsStand

LEMMA StandingSessionsFollow == IInv /\ SessionsStand => SessionFollowsTheFile
<1> SUFFICES ASSUME IInv, SessionsStand, NEW w \in Processes
    PROVE
      /\ session[w] # None /\ session[w].last # None /\ session[w].last.field \in Fields =>
           \E v \in DOMAIN readings :
             readings[v].value[session[w].last.field] = session[w].last.value
      /\ session[w] # None => session[w].cursor = Within(session[w].cursor, rows[w])
      /\ session[w] # None /\ doing[w].op = "append" /\ hoped[w] # None =>
           /\ doing[w].batch = <<>> => session[w].pending = "span"
           /\ IsStretch(w, doing[w].batch)
  BY DEF SessionFollowsTheFile, RepeatsWhatWasWritten, CursorIsOnARow, StretchesAreWhole, IsStretch
<1>1. SessionStands(w) /\ HopeStands(w)
  BY DEF SessionsStand
<1>2. session[w] # None => /\ session[w].cursor = Within(session[w].cursor, rows[w])
                           /\ LastIsKept(session[w])
  BY <1>1 DEF SessionStands
<1>3. doing[w].op = "append" /\ hoped[w] # None =>
        /\ doing[w].batch = <<>> => session[w].pending = "span"
        /\ IsStretch(w, doing[w].batch)
  BY <1>1 DEF HopeStands
<1>4. QED
  BY <1>2, <1>3 DEF LastIsKept, Repeats

----------------------------------------------------------------------------
(* Theorems: sessions over a file that is not their own.                    *)

LEMMA SweepStands == SweepSpec => [](IInv /\ SessionsStand)
<1>1. SessionInit => IInv /\ SessionsStand
  BY SessionInitStands
<1>2. (IInv /\ SessionsStand) /\ [SweepNext]_<<vars, sweepVars>> => (IInv /\ SessionsStand)'
  BY SweepNextStands
<1>3. QED
  BY <1>1, <1>2, PTL DEF SweepSpec

\* Whatever other windows write and reviewers withhold while a key is under
\* way, the cursor stays on a row, `.` repeats a value the file was given, and
\* a range is written as one stretch of the rows.
THEOREM SessionsFollowTheFile == SweepSpec => []SessionFollowsTheFile
<1>1. QED
  BY StandingSessionsFollow, SweepStands, PTL

\* Keys that know where they are leave the file as keys anywhere do.
THEOREM SessionsKeepTheFile ==
  SweepSpec => [](OneReading /\ RulesSpeakFirst /\ ProvenanceIsTrue /\ ParentsStandAbove)
<1>1. IInv => OneReading /\ RulesSpeakFirst /\ ProvenanceIsTrue /\ ParentsStandAbove
  BY InvariantGivesOneReading, InvariantGivesProvenance, InvariantGivesTheRest
<1>2. QED
  BY <1>1, SweepStands, PTL
=============================================================================
