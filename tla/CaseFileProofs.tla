--------------------------- MODULE CaseFileProofs ---------------------------
(***************************************************************************)
(* Theorems about the case file, for any number of connections, records,   *)
(* batches and decisions: about human review by itself first (Spec, of the *)
(* module Review), then with imports and the finder index beside it        *)
(* (CaseSpec).                                                             *)
(***************************************************************************)
EXTENDS CaseFile, WellFoundedInduction, TLAPS

\* A decision names its target whatever its other fields say.
LEMMA DecisionKinds ==
  ASSUME TypeOK, NEW w \in Connections, deciding[w] # NoDecision
  PROVE  /\ deciding[w] \in Events
         /\ deciding[w].target \in Records
         /\ deciding[w].to \in ReviewStates
BY DEF TypeOK, Events

LEMMA InitType == Init => TypeOK
BY DEF Init, TypeOK

LEMMA NextType == TypeOK /\ [Next]_vars => TypeOK'
<1> SUFFICES ASSUME TypeOK, [Next]_vars
             PROVE  TypeOK'
  OBVIOUS
<1>1. CASE \E r \in Records : EnterByMachine(r) \/ EnterByPerson(r)
  <2>1. PICK r \in Records, s \in ReviewStates : Enter(r, s)
    BY <1>1 DEF EnterByMachine, EnterByPerson, ReviewStates, IntakeStates
  <2>2. QED
    BY <2>1 DEF TypeOK, Enter
<1>2. CASE \E w \in Connections, d \in Decisions : Decide(w, d)
  <2>1. PICK w \in Connections, d \in Decisions : Decide(w, d)
    BY <1>2
  <2> DEFINE e == [target |-> d.target, from |-> reviewState[d.target], to |-> d.to, by |-> w]
  <2>2. d.target \in Records /\ d.to \in ReviewStates
    BY DEF Decisions
  <2>3. reviewState[d.target] \in ReviewStates
    BY <2>1, <2>2 DEF TypeOK, Decide
  <2>4. e \in Events
    BY <2>2, <2>3 DEF Events
  <2>5. deciding' = [deciding EXCEPT ![w] = e] /\ UNCHANGED <<reviewState, trail, imported>>
    BY <2>1 DEF Decide
  <2>6. QED
    BY <2>4, <2>5 DEF TypeOK
<1>3. CASE \E w \in Connections : Record(w)
  <2>1. PICK w \in Connections : Record(w)
    BY <1>3
  <2>2. /\ deciding[w] \in Events
        /\ deciding[w].target \in Records
        /\ deciding[w].to \in ReviewStates
    BY <2>1, DecisionKinds DEF Record
  <2>3. Append(trail, deciding[w]) \in Seq(Events)
    BY <2>2 DEF TypeOK
  <2>4. QED
    BY <2>1, <2>2, <2>3 DEF TypeOK, Record
<1>4. CASE \E w \in Connections : Lose(w)
  BY <1>4 DEF TypeOK, Lose
<1>5. CASE UNCHANGED vars
  BY <1>5 DEF TypeOK, vars
<1>6. QED
  BY <1>1, <1>2, <1>3, <1>4, <1>5 DEF Next

\* Columns and events keep their types: no decision is recorded about a record
\* the case does not hold.
THEOREM TypeCorrect == Spec => []TypeOK
<1>1. QED
  BY InitType, NextType, PTL DEF Spec

----------------------------------------------------------------------------
(* The cached state is the last decision on the trail.  The step that needs *)
(* an invariant is the entry of a record: nobody has decided about it yet.  *)

\* Decisions, recorded or about to be, are about records that have entered.
DecidedHaveEntered ==
  /\ \A i \in DOMAIN trail : reviewState[trail[i].target] # "absent"
  /\ \A w \in Connections :
       deciding[w] # NoDecision => reviewState[deciding[w].target] # "absent"

IInv == TypeOK /\ DecidedHaveEntered /\ StateIsLatestDecision

LEMMA InitIInv == Init => IInv
<1> SUFFICES ASSUME Init PROVE IInv
  OBVIOUS
<1>1. TypeOK
  BY InitType
<1>2. DOMAIN trail = {}
  BY DEF Init
<1>3. DecidedHaveEntered /\ StateIsLatestDecision
  BY <1>2 DEF Init, DecidedHaveEntered, StateIsLatestDecision, IsAbout
<1>4. QED
  BY <1>1, <1>3 DEF IInv

LEMMA EnterMany ==
  ASSUME IInv, NEW S \in SUBSET Records, NEW e,
         \A r \in S : reviewState[r] = "absent" /\ e[r] \in ReviewStates,
         reviewState' = [r \in Records |-> IF r \in S THEN e[r] ELSE reviewState[r]],
         imported' = [r \in Records |-> IF r \in S THEN e[r] ELSE imported[r]],
         UNCHANGED <<trail, deciding>>
  PROVE  IInv'
<1>1. TypeOK'
  BY DEF IInv, TypeOK
<1>2. \A r \in S : ~ \E i \in DOMAIN trail : IsAbout(i, r)
  BY DEF IInv, DecidedHaveEntered, IsAbout
<1>3. DecidedHaveEntered'
  <2>0. \A i \in DOMAIN trail : trail[i] \in Events
    BY DEF IInv, TypeOK
  <2>1. \A i \in DOMAIN trail : trail[i].target \in Records /\ trail[i].target \notin S
    BY <2>0 DEF IInv, DecidedHaveEntered, Events
  <2>2. \A w \in Connections :
          deciding[w] # NoDecision => deciding[w].target \in Records /\ deciding[w].target \notin S
    BY DecisionKinds DEF IInv, DecidedHaveEntered
  <2>3. QED
    BY <2>1, <2>2 DEF IInv, TypeOK, DecidedHaveEntered
<1>4. StateIsLatestDecision'
  <2> SUFFICES ASSUME NEW q \in Records
               PROVE  IF \E i \in DOMAIN trail : IsAbout(i, q)
                      THEN \E i \in DOMAIN trail : IsLastAbout(i, q) /\ reviewState'[q] = trail[i].to
                      ELSE reviewState'[q] = imported'[q]
    BY DEF StateIsLatestDecision, IsAbout, IsLastAbout
  <2>1. CASE q \in S
    BY <2>1, <1>2 DEF IInv, TypeOK
  <2>2. CASE q \notin S
    BY <2>2 DEF IInv, TypeOK, StateIsLatestDecision
  <2>3. QED
    BY <2>1, <2>2
<1>5. QED
  BY <1>1, <1>3, <1>4 DEF IInv

LEMMA EnterStep ==
  ASSUME IInv, NEW r \in Records, NEW s \in ReviewStates, Enter(r, s)
  PROVE  IInv'
<1> DEFINE e == [q \in Records |-> s]
<1>1. /\ {r} \in SUBSET Records
      /\ \A q \in {r} : reviewState[q] = "absent" /\ e[q] \in ReviewStates
      /\ reviewState' = [q \in Records |-> IF q \in {r} THEN e[q] ELSE reviewState[q]]
      /\ imported' = [q \in Records |-> IF q \in {r} THEN e[q] ELSE imported[q]]
      /\ UNCHANGED <<trail, deciding>>
  BY DEF IInv, TypeOK, Enter
<1> HIDE DEF e
<1>2. QED
  BY <1>1, EnterMany

LEMMA RecordStep ==
  ASSUME IInv, TypeOK', NEW w \in Connections, Record(w)
  PROVE  IInv'
<1> DEFINE e == deciding[w]
           r == deciding[w].target
           n == Len(trail)
<1>1. /\ e \in Events /\ r \in Records /\ e.to \in ReviewStates /\ e # NoDecision
      /\ reviewState' = [reviewState EXCEPT ![r] = e.to]
      /\ trail' = Append(trail, e)
      /\ deciding' = [deciding EXCEPT ![w] = NoDecision]
      /\ imported' = imported
  BY DecisionKinds DEF IInv, Record
<1>2. /\ n \in Nat
      /\ DOMAIN trail = 1 .. n /\ DOMAIN trail' = 1 .. n + 1
      /\ trail'[n + 1] = e
      /\ \A i \in 1 .. n : trail'[i] = trail[i] /\ trail[i] \in Events
  BY <1>1 DEF IInv, TypeOK
<1>3. DecidedHaveEntered'
  <2>1. e.to # "absent"
    BY <1>1 DEF ReviewStates, IntakeStates, Decided
  <2>2. \A q \in Records : reviewState[q] # "absent" => reviewState'[q] # "absent"
    BY <1>1, <2>1 DEF IInv, TypeOK
  <2>3. ASSUME NEW i \in DOMAIN trail'
        PROVE  reviewState'[trail'[i].target] # "absent"
    <3>1. CASE i = n + 1
      BY <3>1, <1>1, <1>2, <2>2 DEF IInv, DecidedHaveEntered
    <3>2. CASE i \in 1 .. n
      BY <3>2, <1>2, <2>2 DEF IInv, DecidedHaveEntered, Events
    <3>3. QED
      BY <3>1, <3>2, <1>2
  <2>4. ASSUME NEW v \in Connections, deciding'[v] # NoDecision
        PROVE  reviewState'[deciding'[v].target] # "absent"
    <3>1. deciding'[v] = deciding[v] /\ deciding[v] # NoDecision
      BY <2>4, <1>1 DEF IInv, TypeOK
    <3>2. deciding[v].target \in Records /\ reviewState[deciding[v].target] # "absent"
      BY <3>1, DecisionKinds DEF IInv, DecidedHaveEntered
    <3>3. QED
      BY <3>1, <3>2, <2>2
  <2>5. QED
    BY <2>3, <2>4 DEF DecidedHaveEntered
<1>4. StateIsLatestDecision'
  <2> SUFFICES ASSUME NEW q \in Records
               PROVE  IF \E i \in 1 .. n + 1 : trail'[i].target = q
                      THEN \E i \in 1 .. n + 1 :
                             /\ trail'[i].target = q
                             /\ \A k \in 1 .. n + 1 : k > i => trail'[k].target # q
                             /\ reviewState'[q] = trail'[i].to
                      ELSE reviewState'[q] = imported'[q]
    BY <1>2 DEF StateIsLatestDecision, IsAbout, IsLastAbout
  <2>1. CASE q = r
    <3>1. reviewState'[q] = trail'[n + 1].to /\ trail'[n + 1].target = q
      BY <2>1, <1>1, <1>2 DEF IInv, TypeOK
    <3>2. n + 1 \in 1 .. n + 1 /\ \A k \in 1 .. n + 1 : ~ (k > n + 1)
      BY <1>2
    <3>3. QED
      BY <3>1, <3>2
  <2>2. CASE q # r
    <3>1. reviewState'[q] = reviewState[q] /\ imported'[q] = imported[q]
      BY <2>2, <1>1 DEF IInv, TypeOK
    <3>2. /\ trail'[n + 1].target # q
          /\ \A i \in 1 .. n : trail'[i] = trail[i]
          /\ \A i \in 1 .. n + 1 : i = n + 1 \/ i \in 1 .. n
          /\ \A i \in 1 .. n : i \in 1 .. n + 1
      BY <2>2, <1>2
    <3>3. IF \E i \in 1 .. n : trail[i].target = q
          THEN \E i \in 1 .. n :
                 /\ trail[i].target = q
                 /\ \A k \in 1 .. n : k > i => trail[k].target # q
                 /\ reviewState[q] = trail[i].to
          ELSE reviewState[q] = imported[q]
      BY <1>2 DEF IInv, StateIsLatestDecision, IsAbout, IsLastAbout
    <3>4. CASE \E i \in 1 .. n : trail[i].target = q
      <4>1. PICK i \in 1 .. n :
              /\ trail[i].target = q
              /\ \A k \in 1 .. n : k > i => trail[k].target # q
              /\ reviewState[q] = trail[i].to
        BY <3>3, <3>4
      <4>2. QED
        BY <4>1, <3>1, <3>2
    <3>5. CASE ~ \E i \in 1 .. n : trail[i].target = q
      BY <3>1, <3>2, <3>3, <3>5
    <3>6. QED
      BY <3>4, <3>5
  <2>3. QED
    BY <2>1, <2>2
<1>5. QED
  BY <1>3, <1>4 DEF IInv

LEMMA NextIInv == IInv /\ [Next]_vars => IInv'
<1> SUFFICES ASSUME IInv, [Next]_vars
             PROVE  IInv'
  OBVIOUS
<1>0. TypeOK /\ TypeOK'
  BY NextType DEF IInv
<1>1. CASE \E r \in Records : EnterByMachine(r) \/ EnterByPerson(r)
  <2>1. PICK r \in Records, s \in ReviewStates : Enter(r, s)
    BY <1>1 DEF EnterByMachine, EnterByPerson, ReviewStates, IntakeStates
  <2>2. QED
    BY <2>1, <1>0, EnterStep
<1>2. CASE \E w \in Connections : Record(w)
  BY <1>2, <1>0, RecordStep
<1>3. CASE \/ \E w \in Connections : (\E d \in Decisions : Decide(w, d)) \/ Lose(w)
           \/ UNCHANGED vars
  <2>1. UNCHANGED <<reviewState, trail, imported>>
    BY <1>3 DEF Decide, Lose, vars
  <2>2. ASSUME NEW v \in Connections, deciding'[v] # NoDecision
        PROVE  reviewState[deciding'[v].target] # "absent"
    <3>1. CASE deciding'[v] = deciding[v]
      BY <3>1, <2>2 DEF IInv, DecidedHaveEntered
    <3>2. CASE deciding'[v] # deciding[v]
      BY <3>2, <2>2, <1>3, <1>0 DEF TypeOK, Decide, Lose, vars
    <3>3. QED
      BY <3>1, <3>2
  <2>3. DecidedHaveEntered'
    BY <2>1, <2>2 DEF IInv, DecidedHaveEntered
  <2>4. StateIsLatestDecision'
    BY <2>1 DEF IInv, StateIsLatestDecision, IsAbout, IsLastAbout
  <2>5. QED
    BY <2>3, <2>4, <1>0 DEF IInv
<1>4. QED
  BY <1>1, <1>2, <1>3 DEF Next

\* "Review state is a cache of the latest decision", however many connections
\* decide about the same record at once.
THEOREM StateIsLatestDecisionHolds == Spec => []StateIsLatestDecision
<1>1. IInv => StateIsLatestDecision
  BY DEF IInv
<1>2. QED
  BY <1>1, InitIInv, NextIInv, PTL DEF Spec

----------------------------------------------------------------------------
(* The trail only grows, and a state moves only together with its event.    *)

MoveIsRecorded ==
  /\ \A i \in DOMAIN trail : i \in DOMAIN trail' /\ trail'[i] = trail[i]
  /\ \A r \in Records :
       reviewState[r] # "absent" /\ reviewState'[r] # reviewState[r] =>
         /\ Len(trail') = Len(trail) + 1
         /\ trail'[Len(trail')].target = r
         /\ trail'[Len(trail')].to = reviewState'[r]

LEMMA MoveStep ==
  ASSUME TypeOK, [Next]_vars
  PROVE  MoveIsRecorded
<1>1. CASE \E r \in Records : EnterByMachine(r) \/ EnterByPerson(r)
  BY <1>1 DEF TypeOK, EnterByMachine, EnterByPerson, Enter, MoveIsRecorded
<1>2. CASE \E w \in Connections : Record(w)
  <2>1. PICK w \in Connections : Record(w)
    BY <1>2
  <2>2. deciding[w] \in Events /\ deciding[w].target \in Records
    BY <2>1, DecisionKinds DEF Record
  <2>3. /\ trail' = Append(trail, deciding[w])
        /\ reviewState' = [reviewState EXCEPT ![deciding[w].target] = deciding[w].to]
    BY <2>1 DEF Record
  <2>4. /\ Len(trail') = Len(trail) + 1
        /\ trail'[Len(trail')] = deciding[w]
        /\ \A i \in DOMAIN trail : i \in DOMAIN trail' /\ trail'[i] = trail[i]
    BY <2>2, <2>3 DEF TypeOK
  <2>5. QED
    BY <2>2, <2>3, <2>4 DEF TypeOK, MoveIsRecorded
<1>3. CASE \/ \E w \in Connections : (\E d \in Decisions : Decide(w, d)) \/ Lose(w)
           \/ UNCHANGED vars
  BY <1>3 DEF Decide, Lose, vars, MoveIsRecorded
<1>4. QED
  BY <1>1, <1>2, <1>3 DEF Next

\* No event is changed or removed, and no state moves without one.
THEOREM EveryMoveIsOnTheTrailHolds == Spec => EveryMoveIsOnTheTrail
<1>1. TypeOK /\ [Next]_vars => [MoveIsRecorded]_vars
  BY MoveStep
<1>2. Spec => [][MoveIsRecorded]_vars
  BY <1>1, TypeCorrect, PTL DEF Spec
<1>3. QED
  BY <1>2 DEF EveryMoveIsOnTheTrail, MoveIsRecorded

----------------------------------------------------------------------------
(* What a decision starts from.  A connection that decides reads the state  *)
(* the last event wrote; until it records, only others write events.        *)

\* Among the first n events of tr there is the one that d starts from, or the
\* import is, and the connection of d wrote none about its record since.
Saw(d, n, tr, im) ==
  \E i \in 0 .. n :
    /\ i = 0 \/ tr[i].target = d.target
    /\ d.from = IF i = 0 THEN im[d.target] ELSE tr[i].to
    /\ \A m \in 1 .. n : i < m /\ tr[m].target = d.target => tr[m].by # d.by

Moves(d) == d.to # d.from

SeenWhenRecorded ==
  \A k \in DOMAIN trail : Saw(trail[k], k - 1, trail, imported) /\ Moves(trail[k])

SeenWhenDecided ==
  \A w \in Connections :
    deciding[w] # NoDecision =>
      Saw(deciding[w], Len(trail), trail, imported) /\ Moves(deciding[w]) /\ deciding[w].by = w

HInv == IInv /\ SeenWhenRecorded /\ SeenWhenDecided

\* What was seen stays seen while the trail grows beyond n.
LEMMA SawStays ==
  ASSUME NEW d, NEW n \in Nat, NEW tr, NEW im, NEW trNext, NEW imNext,
         Saw(d, n, tr, im),
         imNext[d.target] = im[d.target],
         \A i \in 1 .. n : trNext[i] = tr[i]
  PROVE  Saw(d, n, trNext, imNext)
<1>1. PICK i \in 0 .. n :
        /\ i = 0 \/ tr[i].target = d.target
        /\ d.from = IF i = 0 THEN im[d.target] ELSE tr[i].to
        /\ \A m \in 1 .. n : i < m /\ tr[m].target = d.target => tr[m].by # d.by
  BY DEF Saw
<1>2. i = 0 \/ trNext[i] = tr[i]
  OBVIOUS
<1>3. QED
  BY <1>1, <1>2 DEF Saw

LEMMA InitHInv == Init => HInv
<1> SUFFICES ASSUME Init PROVE HInv
  OBVIOUS
<1>1. DOMAIN trail = {} /\ \A w \in Connections : deciding[w] = NoDecision
  BY DEF Init
<1>2. QED
  BY <1>1, InitIInv DEF HInv, SeenWhenRecorded, SeenWhenDecided

LEMMA EnterHands ==
  ASSUME HInv, NEW r \in Records, NEW s \in ReviewStates, Enter(r, s)
  PROVE  SeenWhenRecorded' /\ SeenWhenDecided'
<1>1. /\ reviewState[r] = "absent"
      /\ imported' = [imported EXCEPT ![r] = s]
      /\ trail' = trail /\ deciding' = deciding
  BY DEF Enter
<1>2. \A q \in Records : q # r => imported'[q] = imported[q]
  BY <1>1 DEF HInv, IInv, TypeOK
<1>3. ASSUME NEW k \in DOMAIN trail
      PROVE  Saw(trail'[k], k - 1, trail', imported') /\ Moves(trail'[k])
  <2>1. trail[k] \in Events /\ k \in Nat \ {0} /\ DOMAIN trail = 1 .. Len(trail)
    BY DEF HInv, IInv, TypeOK
  <2>2. trail[k].target \in Records /\ trail[k].target # r
    BY <1>1, <2>1 DEF HInv, IInv, DecidedHaveEntered, Events
  <2>3. /\ Saw(trail[k], k - 1, trail, imported) /\ Moves(trail[k])
        /\ imported'[trail[k].target] = imported[trail[k].target]
        /\ k - 1 \in Nat
    BY <1>2, <2>1, <2>2 DEF HInv, SeenWhenRecorded
  <2>4. QED
    BY <1>1, <2>3, SawStays
<1>4. ASSUME NEW w \in Connections, deciding[w] # NoDecision
      PROVE  Saw(deciding[w], Len(trail), trail', imported')
  <2>1. deciding[w].target \in Records /\ deciding[w].target # r
    BY <1>1, <1>4, DecisionKinds DEF HInv, IInv, DecidedHaveEntered
  <2>2. imported'[deciding[w].target] = imported[deciding[w].target]
    BY <1>2, <2>1
  <2>3. Saw(deciding[w], Len(trail), trail, imported)
    BY <1>4 DEF HInv, SeenWhenDecided
  <2>4. Len(trail) \in Nat
    BY DEF HInv, IInv, TypeOK
  <2>5. QED
    BY <1>1, <2>2, <2>3, <2>4, SawStays
<1>5. QED
  BY <1>1, <1>3, <1>4 DEF HInv, SeenWhenRecorded, SeenWhenDecided, Moves

\* The state just read is the one the last event wrote, or the import.
LEMMA DecideHands ==
  ASSUME HInv, NEW w \in Connections, NEW d \in Decisions, Decide(w, d)
  PROVE  SeenWhenRecorded' /\ SeenWhenDecided'
<1> DEFINE e == [target |-> d.target, from |-> reviewState[d.target], to |-> d.to, by |-> w]
           n == Len(trail)
<1>1. /\ UNCHANGED <<trail, imported>>
      /\ deciding' = [deciding EXCEPT ![w] = e]
      /\ d.to # reviewState[d.target]
      /\ d.target \in Records
  BY DEF Decide, TransitionAllowed, Decisions
<1>2. n \in Nat /\ DOMAIN trail = 1 .. n /\ e.target = d.target
  BY DEF HInv, IInv, TypeOK
<1>3. Saw(e, n, trail, imported)
  <2>1. CASE \E i \in DOMAIN trail : IsAbout(i, d.target)
    <3>1. PICK i \in DOMAIN trail :
            IsLastAbout(i, d.target) /\ reviewState[d.target] = trail[i].to
      BY <1>1, <2>1 DEF HInv, IInv, StateIsLatestDecision
    <3>2. /\ i \in 0 .. n /\ i # 0 /\ trail[i].target = d.target
          /\ \A m \in 1 .. n : i < m => trail[m].target # d.target
      BY <1>2, <3>1 DEF IsLastAbout, IsAbout
    <3>3. QED
      BY <1>2, <3>1, <3>2 DEF Saw
  <2>2. CASE ~ \E i \in DOMAIN trail : IsAbout(i, d.target)
    <3>1. reviewState[d.target] = imported[d.target]
      BY <1>1, <2>2 DEF HInv, IInv, StateIsLatestDecision
    <3>2. \A m \in 1 .. n : trail[m].target # d.target
      BY <1>2, <2>2 DEF IsAbout
    <3>3. QED
      BY <1>2, <3>1, <3>2 DEF Saw
  <2>3. QED
    BY <2>1, <2>2
<1>4. SeenWhenRecorded'
  BY <1>1 DEF HInv, SeenWhenRecorded, Saw, Moves
<1>5. ASSUME NEW v \in Connections, deciding'[v] # NoDecision
      PROVE  Saw(deciding'[v], n, trail, imported) /\ Moves(deciding'[v]) /\ deciding'[v].by = v
  <2>1. CASE v = w
    <3>1. deciding'[v] = e
      BY <1>1, <2>1 DEF HInv, IInv, TypeOK
    <3>2. Moves(e) /\ e.by = w
      BY <1>1 DEF Moves
    <3>3. QED
      BY <1>3, <2>1, <3>1, <3>2
  <2>2. CASE v # w
    <3>1. deciding'[v] = deciding[v]
      BY <1>1, <2>2 DEF HInv, IInv, TypeOK
    <3>2. QED
      BY <1>5, <3>1 DEF HInv, SeenWhenDecided
  <2>3. QED
    BY <2>1, <2>2
<1>6. SeenWhenDecided'
  BY <1>1, <1>5 DEF SeenWhenDecided, Saw, Moves
<1>7. QED
  BY <1>4, <1>6

\* The event just written is another connection's to everybody who still decides.
LEMMA RecordHands ==
  ASSUME HInv, NEW w \in Connections, Record(w)
  PROVE  SeenWhenRecorded' /\ SeenWhenDecided'
<1> DEFINE e == deciding[w]
           n == Len(trail)
<1>1. /\ e \in Events /\ e # NoDecision /\ e.by = w
      /\ Saw(e, n, trail, imported) /\ Moves(e)
      /\ trail' = Append(trail, e)
      /\ deciding' = [deciding EXCEPT ![w] = NoDecision]
      /\ imported' = imported
  BY DecisionKinds DEF HInv, IInv, SeenWhenDecided, Record
<1>2. /\ n \in Nat
      /\ DOMAIN trail = 1 .. n /\ DOMAIN trail' = 1 .. n + 1 /\ Len(trail') = n + 1
      /\ trail'[n + 1] = e
      /\ \A i \in 1 .. n : trail'[i] = trail[i]
  BY <1>1 DEF HInv, IInv, TypeOK
<1>3. ASSUME NEW k \in DOMAIN trail'
      PROVE  Saw(trail'[k], k - 1, trail', imported') /\ Moves(trail'[k])
  <2>1. CASE k = n + 1
    <3>1. k - 1 = n
      BY <1>2, <2>1
    <3>2. Saw(e, n, trail', imported')
      <4>1. PICK d \in Events, l \in Nat : d = e /\ l = n
        BY <1>1, <1>2
      <4>2. Saw(d, l, trail, imported) /\ imported'[d.target] = imported[d.target]
        BY <1>1, <4>1
      <4>3. \A i \in 1 .. l : trail'[i] = trail[i]
        BY <1>2, <4>1
      <4>4. Saw(d, l, trail', imported')
        BY ONLY <4>1, <4>2, <4>3, SawStays
      <4>5. QED
        BY <4>1, <4>4
    <3>3. QED
      BY <1>1, <1>2, <2>1, <3>1, <3>2
  <2>2. CASE k \in 1 .. n
    <3>1. /\ trail'[k] = trail[k] /\ k - 1 \in Nat
          /\ Saw(trail[k], k - 1, trail, imported) /\ Moves(trail[k])
          /\ \A i \in 1 .. k - 1 : i \in 1 .. n /\ trail'[i] = trail[i]
      BY <1>2, <2>2 DEF HInv, SeenWhenRecorded
    <3>2. imported'[trail[k].target] = imported[trail[k].target]
      BY <1>1
    <3>3. Saw(trail[k], k - 1, trail', imported')
      BY ONLY <3>1, <3>2, SawStays
    <3>4. QED
      BY <3>1, <3>3
  <2>3. QED
    BY <1>2, <2>1, <2>2
<1>4. ASSUME NEW v \in Connections, deciding'[v] # NoDecision
      PROVE  Saw(deciding'[v], n + 1, trail', imported') /\ Moves(deciding'[v]) /\ deciding'[v].by = v
  <2>1. deciding'[v] = deciding[v] /\ deciding[v] # NoDecision /\ v # w
    BY <1>1, <1>4 DEF HInv, IInv, TypeOK
  <2>2. Saw(deciding[v], n, trail, imported) /\ Moves(deciding[v]) /\ deciding[v].by = v
    BY <2>1 DEF HInv, SeenWhenDecided
  <2>3. Saw(deciding[v], n + 1, trail', imported')
    <3>1. PICK i \in 0 .. n :
            /\ i = 0 \/ trail[i].target = deciding[v].target
            /\ deciding[v].from = IF i = 0 THEN imported[deciding[v].target] ELSE trail[i].to
            /\ \A m \in 1 .. n : i < m /\ trail[m].target = deciding[v].target
                                   => trail[m].by # deciding[v].by
      BY <2>2 DEF Saw
    <3>2. i \in 0 .. n + 1 /\ (i = 0 \/ trail'[i] = trail[i])
      BY <1>2
    <3>3. \A m \in 1 .. n + 1 : i < m /\ trail'[m].target = deciding[v].target
                                  => trail'[m].by # deciding[v].by
      <4>1. trail'[n + 1].by # deciding[v].by
        BY <1>1, <1>2, <2>1, <2>2
      <4>2. \A m \in 1 .. n + 1 : m = n + 1 \/ m \in 1 .. n
        BY <1>2
      <4>3. QED
        BY <1>2, <3>1, <4>1, <4>2
    <3>4. QED
      BY <1>1, <2>1, <3>1, <3>2, <3>3 DEF Saw
  <2>4. QED
    BY <2>1, <2>2, <2>3
<1>5. QED
  BY <1>2, <1>3, <1>4 DEF SeenWhenRecorded, SeenWhenDecided, Moves

LEMMA LoseHands ==
  ASSUME HInv, NEW w \in Connections, Lose(w)
  PROVE  SeenWhenRecorded' /\ SeenWhenDecided'
<1>1. /\ UNCHANGED <<trail, imported>>
      /\ \A v \in Connections : deciding'[v] \in {deciding[v], NoDecision}
  BY DEF HInv, IInv, TypeOK, Lose
<1>2. QED
  BY <1>1 DEF HInv, SeenWhenRecorded, SeenWhenDecided, Saw, Moves

LEMMA NextHInv == HInv /\ [Next]_vars => HInv'
<1> SUFFICES ASSUME HInv, [Next]_vars
             PROVE  HInv'
  OBVIOUS
<1>0. IInv'
  BY NextIInv DEF HInv
<1>1. CASE \E r \in Records : EnterByMachine(r) \/ EnterByPerson(r)
  <2>1. PICK r \in Records, s \in ReviewStates : Enter(r, s)
    BY <1>1 DEF EnterByMachine, EnterByPerson, ReviewStates, IntakeStates
  <2>2. QED
    BY <2>1, <1>0, EnterHands DEF HInv
<1>2. CASE \E w \in Connections, d \in Decisions : Decide(w, d)
  BY <1>0, <1>2, DecideHands DEF HInv
<1>3. CASE \E w \in Connections : Record(w)
  BY <1>0, <1>3, RecordHands DEF HInv
<1>4. CASE \E w \in Connections : Lose(w)
  BY <1>0, <1>4, LoseHands DEF HInv
<1>5. CASE UNCHANGED vars
  BY <1>0, <1>5 DEF HInv, SeenWhenRecorded, SeenWhenDecided, Saw, Moves, vars
<1>6. QED
  BY <1>1, <1>2, <1>3, <1>4, <1>5 DEF Next

\* An event names a state its record did hold, and held after the last decision
\* of the same connection: an overtaken decision is late, never invented.
THEOREM StartsWhereItWasHolds == Spec => []StartsWhereItWas
<1>1. HInv => StartsWhereItWas
  <2> SUFFICES ASSUME HInv, NEW r \in Records, NEW k \in DOMAIN trail, IsAbout(k, r)
               PROVE  \E i \in 0 .. k - 1 : (i = 0 \/ IsAbout(i, r)) /\ StartsFrom(i, k, r)
    BY DEF StartsWhereItWas
  <2>1. DOMAIN trail = 1 .. Len(trail) /\ Len(trail) \in Nat /\ trail[k].target = r
    BY DEF HInv, IInv, TypeOK, IsAbout
  <2>2. PICK i \in 0 .. k - 1 :
          /\ i = 0 \/ trail[i].target = r
          /\ trail[k].from = IF i = 0 THEN imported[r] ELSE trail[i].to
          /\ \A m \in 1 .. k - 1 : i < m /\ trail[m].target = r => trail[m].by # trail[k].by
    BY <2>1 DEF HInv, SeenWhenRecorded, Saw
  <2>3. i = 0 \/ IsAbout(i, r)
    BY <2>1, <2>2 DEF IsAbout
  <2>4. StartsFrom(i, k, r)
    BY <2>1, <2>2 DEF StartsFrom, IsAbout
  <2>5. QED
    BY <2>3, <2>4
<1>2. QED
  BY <1>1, InitHInv, NextHInv, PTL DEF Spec

\* "repeating a decision is refused": by the connection that repeats itself.
THEOREM OneHandNeverRepeatsHolds == Spec => []OneHandNeverRepeats
<1>1. HInv => OneHandNeverRepeats
  <2> SUFFICES ASSUME HInv, NEW r \in Records, NEW i \in DOMAIN trail, NEW k \in DOMAIN trail,
                      FollowsOn(i, k, r), trail[i].by = trail[k].by
               PROVE  trail[i].to # trail[k].to
    BY DEF OneHandNeverRepeats
  <2>1. /\ DOMAIN trail = 1 .. Len(trail) /\ Len(trail) \in Nat
        /\ trail[i].target = r /\ trail[k].target = r /\ i < k
        /\ \A m \in DOMAIN trail : i < m /\ m < k => trail[m].target # r
    BY DEF HInv, IInv, TypeOK, FollowsOn, IsAbout
  <2>2. Saw(trail[k], k - 1, trail, imported) /\ trail[k].to # trail[k].from
    BY DEF HInv, SeenWhenRecorded, Moves
  <2>3. PICK j \in 0 .. k - 1 :
          /\ j = 0 \/ trail[j].target = r
          /\ trail[k].from = IF j = 0 THEN imported[r] ELSE trail[j].to
          /\ \A m \in 1 .. k - 1 : j < m /\ trail[m].target = r => trail[m].by # trail[k].by
    BY <2>1, <2>2 DEF Saw
  <2>4. ~ (j < i)
    BY <2>1, <2>3
  <2>5. ~ (i < j)
    BY <2>1, <2>3
  <2>6. j = i
    BY <2>1, <2>4, <2>5
  <2>7. QED
    BY <2>1, <2>2, <2>3, <2>6
<1>2. QED
  BY <1>1, InitHInv, NextHInv, PTL DEF Spec


----------------------------------------------------------------------------
(* Batches.  What a turn finds and leaves is said table by table: a row     *)
(* that is held keeps its value, a row that is new is its turn's.           *)

LEMMA LeastTurn ==
  ASSUME NEW S \in SUBSET Nat, S # {}
  PROVE  \E n \in S : \A m \in S : ~ (m < n)
<1> DEFINE Less == OpToRel(<, Nat)
<1>1. IsWellFoundedOn(Less, Nat)
  BY NatLessThanWellFounded
<1>2. \A x, y \in Nat : x < y => <<x, y>> \in Less
  BY DEF OpToRel
<1> HIDE DEF Less
<1>3. PICK n \in S : \A m \in S : <<m, n>> \notin Less
  BY <1>1, WFMin
<1>4. \A m \in S : m \in Nat /\ n \in Nat
  OBVIOUS
<1>5. QED
  BY <1>2, <1>3, <1>4

LEMMA Held ==
  ASSUME NEW f, NEW b, NEW turns
  PROVE  /\ \A id \in DOMAIN f.sources :
              /\ id \in DOMAIN SourcesAfter(f, b, turns)
              /\ SourcesAfter(f, b, turns)[id] = f.sources[id]
         /\ \A id \in DOMAIN f.contents :
              /\ id \in DOMAIN ContentsAfter(f, b)
              /\ ContentsAfter(f, b)[id] = f.contents[id]
         /\ \A id \in DOMAIN f.edges :
              /\ id \in DOMAIN EdgesAfter(f, b, turns)
              /\ EdgesAfter(f, b, turns)[id] = f.edges[id]
BY DEF SourcesAfter, ContentsAfter, EdgesAfter, With

SourceRow(b, i) ==
  [case |-> b.case, production |-> b.sources[i].production, hash |-> b.sources[i].hash]
PassageRow(b, t) ==
  [case |-> b.case, source |-> b.sources[t[1]].id, shows |-> b.sources[t[1]].hash,
   parent |-> PassageAt(b, t).parent, speaker |-> PassageAt(b, t).speaker]
EdgeRow(b, i) ==
  [case |-> b.case, from |-> b.edges[i].from, relation |-> b.edges[i].relation,
   to |-> b.edges[i].to]

LEMMA NewSourceRows ==
  ASSUME NEW f, NEW b, NEW turns, NEW id \in DOMAIN SourcesAfter(f, b, turns),
         id \notin DOMAIN f.sources
  PROVE  \E i \in NewSources(f, b, turns) :
           b.sources[i].id = id /\ SourcesAfter(f, b, turns)[id] = SourceRow(b, i)
<1> DEFINE new == NewSources(f, b, turns)
           j == CHOOSE i \in new : b.sources[i].id = id
<1>1. id \in DOMAIN f.sources \cup {b.sources[i].id : i \in new}
  BY DEF SourcesAfter, With
<1>2. SourcesAfter(f, b, turns)[id] = SourceRow(b, j)
  BY <1>1 DEF SourcesAfter, With, SourceRow
<1>3. \E i \in new : b.sources[i].id = id
  BY <1>1
<1> HIDE DEF new
<1>4. j \in new /\ b.sources[j].id = id
  BY <1>3
<1>5. QED
  BY <1>2, <1>4 DEF new

LEMMA NewPassageRows ==
  ASSUME NEW f, NEW b, NEW id \in DOMAIN ContentsAfter(f, b), id \notin DOMAIN f.contents
  PROVE  \E t \in Turns(b) :
           PassageAt(b, t).id = id /\ ContentsAfter(f, b)[id] = PassageRow(b, t)
<1> DEFINE new == Turns(b)
           u == CHOOSE t \in new : PassageAt(b, t).id = id
<1>1. id \in DOMAIN f.contents \cup {PassageAt(b, t).id : t \in new}
  BY DEF ContentsAfter, With
<1>2. ContentsAfter(f, b)[id] = PassageRow(b, u)
  BY <1>1 DEF ContentsAfter, With, PassageRow
<1>3. \E t \in new : PassageAt(b, t).id = id
  BY <1>1
<1> HIDE DEF new
<1>4. u \in new /\ PassageAt(b, u).id = id
  BY <1>3
<1>5. QED
  BY <1>2, <1>4 DEF new

LEMMA NewEdgeRows ==
  ASSUME NEW f, NEW b, NEW turns, NEW id \in DOMAIN EdgesAfter(f, b, turns),
         id \notin DOMAIN f.edges
  PROVE  \E i \in turns :
           b.edges[i].id = id /\ EdgesAfter(f, b, turns)[id] = EdgeRow(b, i)
<1> DEFINE j == CHOOSE i \in turns : b.edges[i].id = id
<1>1. id \in DOMAIN f.edges \cup {b.edges[i].id : i \in turns}
  BY DEF EdgesAfter, With
<1>2. EdgesAfter(f, b, turns)[id] = EdgeRow(b, j)
  BY <1>1 DEF EdgesAfter, With, EdgeRow
<1>3. \E i \in turns : b.edges[i].id = id
  BY <1>1
<1>4. j \in turns /\ b.edges[j].id = id
  BY <1>3
<1>5. QED
  BY <1>2, <1>4

\* A source is known by the first turn that names it.
LEMMA FirstTurnIsOne ==
  ASSUME NEW f, NEW b, NEW S \in SUBSET Nat, NEW T \in SUBSET S,
         \A n \in T : Earlier(S, n) \subseteq T,
         NEW i \in NewSources(f, b, T), NEW k \in NewSources(f, b, S),
         b.sources[i].id = b.sources[k].id
  PROVE  i = k
<1>1. i \in Nat /\ k \in Nat /\ i \in S /\ k \in S /\ i \in T
  BY DEF NewSources
<1>2. ~ (i < k)
  BY <1>1 DEF NewSources, Earlier
<1>3. ~ (k < i)
  BY <1>1 DEF NewSources, Earlier
<1>4. QED
  BY <1>1, <1>2, <1>3

LEMMA Comes ==
  ASSUME NEW f, NEW b, DOMAIN b.sources \subseteq Nat, NEW i \in DOMAIN b.sources,
         AcceptsSource(f, b, i)
  PROVE  LET after == SourcesAfter(f, b, DOMAIN b.sources)
             s == b.sources[i]
         IN  /\ s.id \in DOMAIN after
             /\ Matches(after[s.id], b, s)
<1> DEFINE S == DOMAIN b.sources
           T == Earlier(S, i)
           s == b.sources[i]
           rows == SourcesAfter(f, b, T)
           after == SourcesAfter(f, b, S)
<1>0. /\ S \in SUBSET Nat /\ T \in SUBSET S /\ T \in SUBSET Nat
      /\ \A n \in T : Earlier(S, n) \subseteq T
  <2>1. ASSUME NEW n \in T, NEW m \in Earlier(S, n) PROVE m \in T
    <3>1. m \in Nat /\ n \in Nat /\ i \in Nat /\ m < n /\ n < i /\ m \in S
      BY DEF Earlier
    <3>2. QED
      BY <3>1 DEF Earlier
  <2>2. QED
    BY <2>1 DEF Earlier
<1>1. ASSUME NEW k \in NewSources(f, b, S)
      PROVE  LET id == b.sources[k].id IN id \in DOMAIN after /\ after[id] = SourceRow(b, k)
  <2> DEFINE id == b.sources[k].id
  <2>1. id \in DOMAIN after /\ id \notin DOMAIN f.sources
    BY <1>1 DEF SourcesAfter, With, NewSources
  <2>2. PICK j \in NewSources(f, b, S) : b.sources[j].id = id /\ after[id] = SourceRow(b, j)
    BY <2>1, NewSourceRows
  <2>3. \A n \in S : Earlier(S, n) \subseteq S
    BY DEF Earlier
  <2>4. j = k
    BY <1>0, <2>2, <2>3, FirstTurnIsOne
  <2>5. QED
    BY <2>1, <2>2, <2>4
<1>2. CASE s.id \in DOMAIN rows
  <2>1. Matches(rows[s.id], b, s)
    BY <1>2 DEF AcceptsSource
  <2>2. s.id \in DOMAIN after /\ after[s.id] = rows[s.id]
    <3>1. CASE s.id \in DOMAIN f.sources
      BY <3>1, Held
    <3>2. CASE s.id \notin DOMAIN f.sources
      <4>1. PICK j \in NewSources(f, b, T) : b.sources[j].id = s.id /\ rows[s.id] = SourceRow(b, j)
        BY <1>2, <3>2, NewSourceRows
      <4>2. j \in NewSources(f, b, S)
        <5>1. j \in T /\ j \in S /\ Earlier(S, j) \subseteq T /\ j \in Nat
          BY <1>0, <4>1 DEF NewSources
        <5>2. \A k \in Earlier(S, j) : k \in Earlier(T, j)
          BY <5>1 DEF Earlier
        <5>3. QED
          BY <4>1, <5>1, <5>2 DEF NewSources
      <4>3. QED
        BY <1>1, <4>1, <4>2
    <3>3. QED
      BY <3>1, <3>2
  <2>3. QED
    BY <2>1, <2>2
<1>3. CASE s.id \notin DOMAIN rows
  <2>1. s.id \notin DOMAIN f.sources
    BY <1>3, Held
  <2>2. \A k \in T : b.sources[k].id # s.id
    <3> DEFINE named == {k \in T : b.sources[k].id = s.id}
    <3>1. ASSUME named # {} PROVE FALSE
      <4>1. named \in SUBSET Nat
        BY <1>0
      <4>2. PICK n \in named : \A m \in named : ~ (m < n)
        BY <3>1, <4>1, LeastTurn
      <4>3. n \in NewSources(f, b, T)
        BY <2>1, <4>2 DEF NewSources, Earlier
      <4>4. s.id \in DOMAIN rows
        BY <4>2, <4>3 DEF SourcesAfter, With
      <4>5. QED
        BY <1>3, <4>4
    <3>2. QED
      BY <3>1
  <2>3. i \in NewSources(f, b, S)
    BY <2>1, <2>2 DEF NewSources
  <2>4. s.id \in DOMAIN after /\ after[s.id] = SourceRow(b, i)
    BY <1>1, <2>3
  <2>5. QED
    BY <2>4 DEF Matches, SameText, SourceRow
<1>4. QED
  BY <1>2, <1>3

----------------------------------------------------------------------------
(* The invariant: the properties, what BeginImport has checked about a batch *)
(* before its transaction, and one dimension for each model of a case.       *)

FileHasTables ==
  \E s, c, e, v : file = [sources |-> s, contents |-> c, edges |-> e, vectors |-> v]

SpeakersAreOfTheCase(b) ==
  \A c \in PassagesOf(b) : c.speaker # None => CaseOf[c.speaker] = b.case

ImportsAreChecked ==
  /\ importing \in [Connections -> Batches \cup {NoBatch}]
  /\ allowance \in [imports : Nat, batches : SUBSET Batches, decisions : Nat,
                    decidable : SUBSET Records]
  /\ \A w \in Connections :
       importing[w] # NoBatch => Valid(importing[w]) /\ SpeakersAreOfTheCase(importing[w])

\* The key of keyframe_embeddings: a still and a model.
KeysArePairs == \A k \in DOMAIN file.vectors : k = <<k[1], k[2]>>

OneDimension ==
  \A k, l \in DOMAIN file.vectors :
    file.vectors[k].case = file.vectors[l].case /\ k[2] = l[2] =>
      file.vectors[k].dim = file.vectors[l].dim

CaseInv ==
  /\ FileHasTables
  /\ ImportsAreChecked
  /\ NothingCrossesCases
  /\ PassagesShowTheirSource
  /\ PairsStandOnce
  /\ KeysArePairs
  /\ OneDimension

LEMMA InitCaseInv == CaseInit => CaseInv
<1> SUFFICES ASSUME CaseInit PROVE CaseInv
  OBVIOUS
<1>1. /\ file = [sources |-> <<>>, contents |-> <<>>, edges |-> <<>>, vectors |-> <<>>]
      /\ DOMAIN <<>> = {}
  BY DEF CaseInit
<1>2. ImportsAreChecked
  BY AllowanceAssumption DEF CaseInit, ImportsAreChecked
<1>3. QED
  BY <1>1, <1>2 DEF CaseInv, FileHasTables, NothingCrossesCases, SourcesKeepTheirCase,
       PassagesKeepTheirCase, EdgesKeepTheirCase, VectorsKeepTheirCase,
       PassagesShowTheirSource, PairsStandOnce, KeysArePairs, OneDimension

\* What a transaction that commits has checked, and what it leaves.
LEMMA ImportWrites ==
  ASSUME CaseInv, NEW w \in Connections, CommitImport(w)
  PROVE  \E b \in Batches :
           /\ b = importing[w]
           /\ Valid(b) /\ SpeakersAreOfTheCase(b)
           /\ file' = [sources |-> SourcesAfter(file, b, DOMAIN b.sources),
                       contents |-> ContentsAfter(file, b),
                       edges |-> EdgesAfter(file, b, DOMAIN b.edges),
                       vectors |-> file.vectors]
           /\ \A i \in DOMAIN b.sources : AcceptsSource(file, b, i)
           /\ \A t \in Turns(b) : AcceptsPassage(file, b, t)
           /\ \A i \in DOMAIN b.edges :
                /\ b.edges[i].id \notin DOMAIN file.edges
                /\ EndpointStands(file', b, b.edges[i].from)
                /\ EndpointStands(file', b, b.edges[i].to)
                /\ ~ PairIsHeld(EdgesAfter(file, b, Earlier(DOMAIN b.edges, i)), b, b.edges[i])
<1> DEFINE b == importing[w]
           g == WithEvidence(file, b)
<1>1. /\ b \in Batches
      /\ Valid(b) /\ SpeakersAreOfTheCase(b)
      /\ Accepted(file, b)
      /\ file' = Imported(file, b)
  BY DEF CommitImport, CaseInv, ImportsAreChecked
<1> HIDE DEF b
<1>2. g = [sources |-> SourcesAfter(file, b, DOMAIN b.sources),
           contents |-> ContentsAfter(file, b), edges |-> file.edges, vectors |-> file.vectors]
  <2>1. PICK s, c, e, v : file = [sources |-> s, contents |-> c, edges |-> e, vectors |-> v]
    BY DEF CaseInv, FileHasTables
  <2> DEFINE sources == SourcesAfter(file, b, DOMAIN b.sources)
             contents == ContentsAfter(file, b)
  <2>2. g = [file EXCEPT !.sources = sources, !.contents = contents]
    BY DEF WithEvidence
  <2> HIDE DEF g, sources, contents
  <2>3. g = [sources |-> sources, contents |-> contents, edges |-> file.edges,
             vectors |-> file.vectors]
    BY <2>1, <2>2
  <2>4. QED
    BY <2>3 DEF sources, contents
<1> HIDE DEF g
<1>3. \A turns : EdgesAfter(g, b, turns) = EdgesAfter(file, b, turns)
  <2>1. g.edges = file.edges
    BY <1>2
  <2>2. QED
    BY <2>1 DEF EdgesAfter
<1>4. file' = [sources |-> SourcesAfter(file, b, DOMAIN b.sources),
               contents |-> ContentsAfter(file, b),
               edges |-> EdgesAfter(file, b, DOMAIN b.edges),
               vectors |-> file.vectors]
  BY <1>1, <1>2, <1>3 DEF Imported, g
<1>5. \A id : EndpointStands(g, b, id) <=> EndpointStands(file', b, id)
  BY <1>2, <1>4 DEF EndpointStands
<1>6. \A i \in DOMAIN b.sources : AcceptsSource(file, b, i)
  BY <1>1 DEF Accepted
<1>7. \A t \in Turns(b) : AcceptsPassage(file, b, t)
  BY <1>1 DEF Accepted
<1>8. ASSUME NEW i \in DOMAIN b.edges
      PROVE  /\ b.edges[i].id \notin DOMAIN file.edges
             /\ EndpointStands(file', b, b.edges[i].from)
             /\ EndpointStands(file', b, b.edges[i].to)
             /\ ~ PairIsHeld(EdgesAfter(file, b, Earlier(DOMAIN b.edges, i)), b, b.edges[i])
  <2>1. AcceptsEdge(g, b, i)
    BY <1>1, <1>8 DEF Accepted, g
  <2>2. g.edges = file.edges
    BY <1>2
  <2>3. QED
    BY <2>1, <2>2, <1>3, <1>5 DEF AcceptsEdge
<1>9. QED
  BY <1>1, <1>4, <1>6, <1>7, <1>8 DEF b

\* A row of a case stays one while a batch is imported.
LEMMA RowsStay ==
  ASSUME CaseInv, NEW b,
         file' = [sources |-> SourcesAfter(file, b, DOMAIN b.sources),
                  contents |-> ContentsAfter(file, b),
                  edges |-> EdgesAfter(file, b, DOMAIN b.edges),
                  vectors |-> file.vectors]
  PROVE  /\ \A id, k : Holds(file.sources, id, k) => Holds(file'.sources, id, k)
         /\ \A id, k : Holds(file.contents, id, k) => Holds(file'.contents, id, k)
<1> DEFINE sources == SourcesAfter(file, b, DOMAIN b.sources)
           contents == ContentsAfter(file, b)
<1>1. /\ \A id \in DOMAIN file.sources :
           id \in DOMAIN sources /\ sources[id] = file.sources[id]
      /\ \A id \in DOMAIN file.contents :
           id \in DOMAIN contents /\ contents[id] = file.contents[id]
  BY Held
<1>2. file'.sources = sources /\ file'.contents = contents
  OBVIOUS
<1> HIDE DEF sources, contents
<1>3. QED
  BY <1>1, <1>2 DEF Holds

LEMMA ImportedSources ==
  ASSUME CaseInv, NEW w \in Connections, CommitImport(w)
  PROVE  SourcesKeepTheirCase'
<1>1. PICK b \in Batches :
        /\ file'.sources = SourcesAfter(file, b, DOMAIN b.sources)
        /\ \A i \in DOMAIN b.sources : AcceptsSource(file, b, i)
  BY ImportWrites
<1>2. ASSUME NEW s \in DOMAIN file'.sources
      PROVE  CaseOf[file'.sources[s].production] = file'.sources[s].case
  <2>1. CASE s \in DOMAIN file.sources
    <3>1. file'.sources[s] = file.sources[s]
      BY <1>1, <2>1, Held
    <3>2. QED
      BY <2>1, <3>1 DEF CaseInv, NothingCrossesCases, SourcesKeepTheirCase
  <2>2. CASE s \notin DOMAIN file.sources
    <3>1. PICK i \in NewSources(file, b, DOMAIN b.sources) : file'.sources[s] = SourceRow(b, i)
      BY <1>1, <2>2, NewSourceRows
    <3>2. CaseOf[b.sources[i].production] = b.case
      BY <1>1 DEF NewSources, AcceptsSource
    <3>3. QED
      BY <3>1, <3>2 DEF SourceRow
  <2>3. QED
    BY <2>1, <2>2
<1>3. QED
  BY <1>2 DEF SourcesKeepTheirCase

\* A passage that is new stands under the source of its turn, which is held or
\* came in with the batch, and shows its bytes.
LEMMA ImportedPassages ==
  ASSUME CaseInv, NEW w \in Connections, CommitImport(w)
  PROVE  PassagesKeepTheirCase' /\ PassagesShowTheirSource'
<1>1. PICK b \in Batches :
        /\ SpeakersAreOfTheCase(b)
        /\ file' = [sources |-> SourcesAfter(file, b, DOMAIN b.sources),
                    contents |-> ContentsAfter(file, b),
                    edges |-> EdgesAfter(file, b, DOMAIN b.edges),
                    vectors |-> file.vectors]
        /\ \A i \in DOMAIN b.sources : AcceptsSource(file, b, i)
        /\ \A t \in Turns(b) : AcceptsPassage(file, b, t)
  BY ImportWrites
<1>2. /\ file'.sources = SourcesAfter(file, b, DOMAIN b.sources)
      /\ file'.contents = ContentsAfter(file, b)
      /\ \A id, k : Holds(file.sources, id, k) => Holds(file'.sources, id, k)
      /\ \A id, k : Holds(file.contents, id, k) => Holds(file'.contents, id, k)
  BY <1>1, RowsStay
<1>3. ASSUME NEW t \in Turns(b)
      PROVE  /\ t[1] \in DOMAIN b.sources
             /\ PassageAt(b, t) \in PassagesOf(b)
             /\ PassageAt(b, t).id \in DOMAIN file'.contents
             /\ file'.contents[PassageAt(b, t).id].case = b.case
  <2>1. PassageAt(b, t).id \in DOMAIN file'.contents /\ PassageAt(b, t).id \notin DOMAIN file.contents
    BY <1>1, <1>2 DEF ContentsAfter, With, AcceptsPassage
  <2>2. PICK u \in Turns(b) : file'.contents[PassageAt(b, t).id] = PassageRow(b, u)
    BY <1>2, <2>1, NewPassageRows
  <2>3. QED
    BY <2>1, <2>2 DEF Turns, PassagesOf, PassageRow
<1>4. ASSUME NEW c \in DOMAIN file'.contents
      PROVE  LET row == file'.contents[c]
             IN  /\ Holds(file'.sources, row.source, row.case)
                 /\ row.parent # None => Holds(file'.contents, row.parent, row.case)
                 /\ row.speaker # None => CaseOf[row.speaker] = row.case
                 /\ SameText(row.shows, file'.sources[row.source].hash)
  <2>1. CASE c \in DOMAIN file.contents
    <3>1. file'.contents[c] = file.contents[c]
      BY <1>2, <2>1, Held
    <3> DEFINE row == file.contents[c]
    <3>2. /\ Holds(file.sources, row.source, row.case)
          /\ row.parent # None => Holds(file.contents, row.parent, row.case)
          /\ row.speaker # None => CaseOf[row.speaker] = row.case
          /\ SameText(row.shows, file.sources[row.source].hash)
      BY <2>1 DEF CaseInv, NothingCrossesCases, PassagesKeepTheirCase, PassagesShowTheirSource
    <3>3. file'.sources[row.source] = file.sources[row.source]
      BY <1>2, <3>2, Held DEF Holds
    <3>4. QED
      BY <1>2, <3>1, <3>2, <3>3
  <2>2. CASE c \notin DOMAIN file.contents
    <3>1. PICK t \in Turns(b) : PassageAt(b, t).id = c /\ file'.contents[c] = PassageRow(b, t)
      BY <1>2, <2>2, NewPassageRows
    <3> DEFINE s == b.sources[t[1]]
               p == PassageAt(b, t)
    <3>2. s.id \in DOMAIN file'.sources /\ Matches(file'.sources[s.id], b, s)
      BY <1>1, <1>2, <1>3, BatchAssumption, Comes
    <3>3. Holds(file'.sources, s.id, b.case) /\ SameText(s.hash, file'.sources[s.id].hash)
      BY <3>2 DEF Holds, Matches, SameText
    <3>4. p.parent # None => Holds(file'.contents, p.parent, b.case)
      <4>1. AcceptsPassage(file, b, t)
        BY <1>1
      <4>2. \/ p.parent \in {None, p.id}
            \/ Holds(file.contents, p.parent, b.case)
            \/ \E u \in Turns(b) : PassageAt(b, u).id = p.parent
        BY <4>1 DEF AcceptsPassage, ParentStands
      <4>3. QED
        BY <1>2, <1>3, <4>2 DEF Holds
    <3>5. p.speaker # None => CaseOf[p.speaker] = b.case
      BY <1>1, <1>3 DEF SpeakersAreOfTheCase
    <3>6. /\ file'.contents[c].case = b.case /\ file'.contents[c].source = s.id
          /\ file'.contents[c].shows = s.hash /\ file'.contents[c].parent = p.parent
          /\ file'.contents[c].speaker = p.speaker
      BY <3>1 DEF PassageRow
    <3>7. QED
      BY <3>3, <3>4, <3>5, <3>6
  <2>3. QED
    BY <2>1, <2>2
<1>5. QED
  BY <1>4 DEF PassagesKeepTheirCase, PassagesShowTheirSource

LEMMA ImportedEdges ==
  ASSUME CaseInv, NEW w \in Connections, CommitImport(w)
  PROVE  EdgesKeepTheirCase'
<1>1. PICK b \in Batches :
        /\ file' = [sources |-> SourcesAfter(file, b, DOMAIN b.sources),
                    contents |-> ContentsAfter(file, b),
                    edges |-> EdgesAfter(file, b, DOMAIN b.edges),
                    vectors |-> file.vectors]
        /\ \A i \in DOMAIN b.edges :
             /\ EndpointStands(file', b, b.edges[i].from)
             /\ EndpointStands(file', b, b.edges[i].to)
  BY ImportWrites
<1>2. /\ file'.edges = EdgesAfter(file, b, DOMAIN b.edges)
      /\ \A id, k : Holds(file.sources, id, k) => Holds(file'.sources, id, k)
      /\ \A id, k : Holds(file.contents, id, k) => Holds(file'.contents, id, k)
  BY <1>1, RowsStay
<1>3. ASSUME NEW e \in DOMAIN file'.edges,
             NEW end \in {file'.edges[e].from, file'.edges[e].to}
      PROVE  \/ Holds(file'.sources, end, file'.edges[e].case)
             \/ Holds(file'.contents, end, file'.edges[e].case)
  <2>1. CASE e \in DOMAIN file.edges
    <3>1. file'.edges[e] = file.edges[e]
      BY <1>2, <2>1, Held
    <3>2. \/ Holds(file.sources, end, file.edges[e].case)
          \/ Holds(file.contents, end, file.edges[e].case)
      BY <2>1, <3>1 DEF CaseInv, NothingCrossesCases, EdgesKeepTheirCase
    <3>3. QED
      BY <1>2, <3>1, <3>2
  <2>2. CASE e \notin DOMAIN file.edges
    <3>1. PICK i \in DOMAIN b.edges : file'.edges[e] = EdgeRow(b, i)
      BY <1>2, <2>2, NewEdgeRows
    <3>2. EndpointStands(file', b, end) /\ file'.edges[e].case = b.case
      BY <1>1, <3>1 DEF EdgeRow
    <3>3. QED
      BY <3>2 DEF EndpointStands
  <2>3. QED
    BY <2>1, <2>2
<1>4. QED
  BY <1>3 DEF EdgesKeepTheirCase

\* Of two edges that relate one pair the later turn was refused.
LEMMA ImportedPairs ==
  ASSUME CaseInv, NEW w \in Connections, CommitImport(w)
  PROVE  PairsStandOnce'
<1>1. PICK b \in Batches :
        /\ Valid(b)
        /\ file'.edges = EdgesAfter(file, b, DOMAIN b.edges)
        /\ \A i \in DOMAIN b.edges :
             /\ b.edges[i].id \notin DOMAIN file.edges
             /\ ~ PairIsHeld(EdgesAfter(file, b, Earlier(DOMAIN b.edges, i)), b, b.edges[i])
  BY ImportWrites
<1> DEFINE Rival(x, y) == /\ x.case = y.case /\ x.relation = y.relation
                          /\ {x.from, x.to} = {y.from, y.to}
           rows(i) == EdgesAfter(file, b, Earlier(DOMAIN b.edges, i))
<1>2. ASSUME NEW i \in DOMAIN b.edges, NEW id \in DOMAIN rows(i)
      PROVE  ~ Rival(rows(i)[id], EdgeRow(b, i))
  <2> DEFINE x == rows(i)[id]
             e == b.edges[i]
  <2>1. ~ (x.case = b.case /\ x.relation = e.relation
             /\ <<x.from, x.to>> \in {<<e.from, e.to>>, <<e.to, e.from>>})
    BY <1>1, <1>2 DEF PairIsHeld
  <2> HIDE DEF x, rows
  <2>2. QED
    BY <2>1 DEF EdgeRow, x
<1>3. ASSUME NEW i \in DOMAIN b.edges, NEW id \in DOMAIN file.edges
      PROVE  ~ Rival(file.edges[id], EdgeRow(b, i))
  <2>1. id \in DOMAIN rows(i) /\ rows(i)[id] = file.edges[id]
    BY Held
  <2>2. QED
    BY <1>2, <2>1
<1>4. ASSUME NEW i \in DOMAIN b.edges, NEW k \in DOMAIN b.edges, k < i
      PROVE  ~ Rival(EdgeRow(b, k), EdgeRow(b, i))
  <2>1. k \in Earlier(DOMAIN b.edges, i) /\ b.edges[k].id \notin DOMAIN file.edges
    BY <1>1, <1>4 DEF Earlier
  <2>2. b.edges[k].id \in DOMAIN rows(i)
    BY <2>1 DEF EdgesAfter, With
  <2>3. PICK j \in Earlier(DOMAIN b.edges, i) :
          b.edges[j].id = b.edges[k].id /\ rows(i)[b.edges[k].id] = EdgeRow(b, j)
    BY <2>1, <2>2, NewEdgeRows
  <2>4. j = k
    BY <1>1, <2>3 DEF Earlier, Valid
  <2>5. QED
    BY <1>2, <2>2, <2>3, <2>4
<1> HIDE DEF rows
<1>5. ASSUME NEW e \in DOMAIN file'.edges, e \notin DOMAIN file.edges
      PROVE  \E i \in DOMAIN b.edges : b.edges[i].id = e /\ file'.edges[e] = EdgeRow(b, i)
  BY <1>1, <1>5, NewEdgeRows
<1>6. ASSUME NEW e \in DOMAIN file.edges
      PROVE  file'.edges[e] = file.edges[e]
  BY <1>1, <1>6, Held
<1>7. ASSUME NEW e \in DOMAIN file'.edges, NEW d \in DOMAIN file'.edges, e # d
      PROVE  ~ Rival(file'.edges[e], file'.edges[d])
  <2>1. CASE e \in DOMAIN file.edges /\ d \in DOMAIN file.edges
    BY <1>6, <1>7, <2>1 DEF CaseInv, PairsStandOnce
  <2>2. CASE e \in DOMAIN file.edges /\ d \notin DOMAIN file.edges
    <3>1. PICK i \in DOMAIN b.edges : file'.edges[d] = EdgeRow(b, i)
      BY <1>5, <2>2
    <3>2. ~ Rival(file.edges[e], EdgeRow(b, i)) /\ file'.edges[e] = file.edges[e]
      BY <1>3, <1>6, <2>2
    <3>3. QED
      BY <3>1, <3>2
  <2>3. CASE e \notin DOMAIN file.edges /\ d \in DOMAIN file.edges
    <3>1. PICK i \in DOMAIN b.edges : file'.edges[e] = EdgeRow(b, i)
      BY <1>5, <2>3
    <3>2. ~ Rival(file.edges[d], EdgeRow(b, i)) /\ file'.edges[d] = file.edges[d]
      BY <1>3, <1>6, <2>3
    <3>3. QED
      BY <3>1, <3>2
  <2>4. CASE e \notin DOMAIN file.edges /\ d \notin DOMAIN file.edges
    <3>1. PICK i \in DOMAIN b.edges : b.edges[i].id = e /\ file'.edges[e] = EdgeRow(b, i)
      BY <1>5, <2>4
    <3>2. PICK k \in DOMAIN b.edges : b.edges[k].id = d /\ file'.edges[d] = EdgeRow(b, k)
      BY <1>5, <2>4
    <3>3. i \in Nat /\ k \in Nat /\ i # k
      BY <1>7, <3>1, <3>2, BatchAssumption
    <3>4. CASE i < k
      BY <1>4, <3>1, <3>2, <3>4
    <3>5. CASE k < i
      <4>1. ~ Rival(EdgeRow(b, k), EdgeRow(b, i))
        BY <1>4, <3>5
      <4>2. QED
        BY <3>1, <3>2, <4>1
    <3>6. QED
      BY <3>3, <3>4, <3>5
  <2>5. QED
    BY <2>1, <2>2, <2>3, <2>4
<1>8. QED
  BY <1>7 DEF PairsStandOnce

LEMMA ImportKeepsCaseInv ==
  ASSUME CaseInv, NEW w \in Connections, CommitImport(w)
  PROVE  CaseInv'
<1>1. PICK b \in Batches :
        file' = [sources |-> SourcesAfter(file, b, DOMAIN b.sources),
                 contents |-> ContentsAfter(file, b),
                 edges |-> EdgesAfter(file, b, DOMAIN b.edges),
                 vectors |-> file.vectors]
  BY ImportWrites
<1>2. FileHasTables'
  BY <1>1 DEF FileHasTables
<1>3. ImportsAreChecked'
  <2>1. /\ importing' = [importing EXCEPT ![w] = NoBatch]
        /\ allowance' = [allowance EXCEPT !.imports = @ - 1]
        /\ allowance.imports > 0
    BY DEF CommitImport
  <2>2. QED
    BY <2>1 DEF CaseInv, ImportsAreChecked
<1>4. VectorsKeepTheirCase' /\ KeysArePairs' /\ OneDimension'
  <2>1. file'.vectors = file.vectors /\ \A id, k : Holds(file.sources, id, k) => Holds(file'.sources, id, k)
    BY <1>1, RowsStay
  <2>2. QED
    BY <2>1 DEF CaseInv, NothingCrossesCases, VectorsKeepTheirCase, KeysArePairs, OneDimension
<1>5. QED
  BY <1>2, <1>3, <1>4, ImportedSources, ImportedPassages, ImportedEdges, ImportedPairs
     DEF CaseInv, NothingCrossesCases

\* What an index leaves: every vector is one of the index, whose still and
\* dimension were checked against the file, or was there before.
LEMMA IndexWrites ==
  ASSUME CaseInv, NEW x, IndexKeyframes(x)
  PROVE  /\ \E v : file' = [sources |-> file.sources, contents |-> file.contents,
                            edges |-> file.edges, vectors |-> v]
         /\ \A k \in DOMAIN file'.vectors :
              \/ k \in DOMAIN file.vectors /\ file'.vectors[k] = file.vectors[k]
              \/ \E n \in DOMAIN x.items :
                   /\ file'.vectors[k] = [case |-> x.case, dim |-> x.items[n].dim]
                   /\ k = <<x.items[n].still, x.items[n].model>>
                   /\ AcceptsStill(file, x, x.items[n])
<1> DEFINE Key(n) == <<x.items[n].still, x.items[n].model>>
           keys == {Key(n) : n \in DOMAIN x.items}
           At(k) == CHOOSE n \in DOMAIN x.items : Key(n) = k
           v == [k \in DOMAIN file.vectors \cup keys |->
                   IF k \in keys THEN [case |-> x.case, dim |-> x.items[At(k)].dim]
                   ELSE file.vectors[k]]
<1>1. /\ file' = [file EXCEPT !.vectors = v]
      /\ \A n \in DOMAIN x.items : AcceptsStill(file, x, x.items[n])
  BY DEF IndexKeyframes, Indexed, ToSet
<1>2. \A k \in keys : At(k) \in DOMAIN x.items /\ Key(At(k)) = k
  OBVIOUS
<1>3. ASSUME NEW k \in DOMAIN v
      PROVE  \/ k \in DOMAIN file.vectors /\ v[k] = file.vectors[k]
             \/ k \in keys /\ v[k] = [case |-> x.case, dim |-> x.items[At(k)].dim]
  OBVIOUS
<1> HIDE DEF v, At
<1>4. file' = [sources |-> file.sources, contents |-> file.contents,
               edges |-> file.edges, vectors |-> v]
  <2>1. PICK s, c, e, u : file = [sources |-> s, contents |-> c, edges |-> e, vectors |-> u]
    BY DEF CaseInv, FileHasTables
  <2>2. QED
    BY <1>1, <2>1
<1>5. QED
  BY <1>1, <1>2, <1>3, <1>4

LEMMA IndexKeepsCaseInv ==
  ASSUME CaseInv, NEW x, IndexKeyframes(x)
  PROVE  CaseInv'
<1>1. PICK v : file' = [sources |-> file.sources, contents |-> file.contents,
                        edges |-> file.edges, vectors |-> v]
  BY IndexWrites
<1>2. /\ file'.sources = file.sources /\ file'.contents = file.contents
      /\ file'.edges = file.edges
  BY <1>1
<1> DEFINE Of(k, n) == /\ file'.vectors[k].case = x.case
                       /\ file'.vectors[k].dim = x.items[n].dim
                       /\ k[1] = x.items[n].still /\ k[2] = x.items[n].model
                       /\ AcceptsStill(file, x, x.items[n])
<1>3. \A k \in DOMAIN file'.vectors :
        \/ k \in DOMAIN file.vectors /\ file'.vectors[k] = file.vectors[k]
        \/ \E n \in DOMAIN x.items : Of(k, n)
  <2>1. ASSUME NEW k \in DOMAIN file'.vectors, NEW n \in DOMAIN x.items,
               file'.vectors[k] = [case |-> x.case, dim |-> x.items[n].dim],
               k = <<x.items[n].still, x.items[n].model>>,
               AcceptsStill(file, x, x.items[n])
        PROVE  Of(k, n)
    BY <2>1
  <2> HIDE DEF Of
  <2>2. QED
    BY <2>1, IndexWrites
<1> HIDE DEF Of
<1>4. VectorsKeepTheirCase'
  <2>1. ASSUME NEW k \in DOMAIN file'.vectors
        PROVE  Holds(file.sources, k[1], file'.vectors[k].case)
    BY <1>3 DEF CaseInv, NothingCrossesCases, VectorsKeepTheirCase, Of, AcceptsStill
  <2>2. QED
    BY <1>2, <2>1 DEF VectorsKeepTheirCase
\* A vector that is new fits any vector of its model that was there.
<1>5. ASSUME NEW k \in DOMAIN file'.vectors, NEW n \in DOMAIN x.items, Of(k, n),
             NEW l \in DOMAIN file.vectors, file.vectors[l].case = x.case, l[2] = k[2]
      PROVE  file.vectors[l].dim = x.items[n].dim
  <2>1. l \in IndexedIn(file, x.case, x.items[n].model)
    BY <1>5 DEF Of, IndexedIn
  <2>2. x.items[n].dim \in Dims(file, x.case, x.items[n].model)
    BY <2>1, <1>5 DEF Of, AcceptsStill, FitsTheModel, Dims
  <2>3. PICK m \in IndexedIn(file, x.case, x.items[n].model) : file.vectors[m].dim = x.items[n].dim
    BY <2>2 DEF Dims
  <2>4. QED
    BY <2>1, <2>3 DEF IndexedIn, CaseInv, OneDimension
<1>6. ASSUME NEW k \in DOMAIN file'.vectors, NEW l \in DOMAIN file'.vectors,
             file'.vectors[k].case = file'.vectors[l].case, k[2] = l[2]
      PROVE  file'.vectors[k].dim = file'.vectors[l].dim
  <2>1. CASE \E n, m \in DOMAIN x.items : Of(k, n) /\ Of(l, m)
    <3>1. PICK n \in DOMAIN x.items, m \in DOMAIN x.items : Of(k, n) /\ Of(l, m)
      BY <2>1
    <3>2. x.items[n].model = x.items[m].model => x.items[n].dim = x.items[m].dim
      BY DEF IndexKeyframes, ValidIndex
    <3>3. QED
      BY <1>6, <3>1, <3>2 DEF Of
  <2>2. CASE /\ \E n \in DOMAIN x.items : Of(k, n)
             /\ l \in DOMAIN file.vectors /\ file'.vectors[l] = file.vectors[l]
    BY <1>5, <1>6, <2>2 DEF Of
  <2>3. CASE /\ \E n \in DOMAIN x.items : Of(l, n)
             /\ k \in DOMAIN file.vectors /\ file'.vectors[k] = file.vectors[k]
    BY <1>5, <1>6, <2>3 DEF Of
  <2>4. CASE /\ k \in DOMAIN file.vectors /\ file'.vectors[k] = file.vectors[k]
             /\ l \in DOMAIN file.vectors /\ file'.vectors[l] = file.vectors[l]
    BY <1>6, <2>4 DEF CaseInv, OneDimension
  <2>5. QED
    BY <1>3, <2>1, <2>2, <2>3, <2>4
<1>7. FileHasTables' /\ KeysArePairs' /\ OneDimension'
  <2>1. FileHasTables'
    BY <1>1 DEF FileHasTables
  <2>2. KeysArePairs'
    <3>1. ASSUME NEW k \in DOMAIN file'.vectors PROVE k = <<k[1], k[2]>>
      <4>1. CASE k \in DOMAIN file.vectors
        BY <4>1 DEF CaseInv, KeysArePairs
      <4>2. CASE k \notin DOMAIN file.vectors
        <5>1. PICK n \in DOMAIN x.items : k = <<x.items[n].still, x.items[n].model>>
          BY <4>2, IndexWrites
        <5>2. QED
          BY <5>1
      <4>3. QED
        BY <4>1, <4>2
    <3>2. QED
      BY <3>1 DEF KeysArePairs
  <2>3. OneDimension'
    BY <1>6 DEF OneDimension
  <2>4. QED
    BY <2>1, <2>2, <2>3
<1>8. ImportsAreChecked'
  <2>1. /\ importing' = importing
        /\ allowance' = [allowance EXCEPT !.imports = @ - 1]
        /\ allowance.imports > 0
    BY DEF IndexKeyframes
  <2>2. QED
    BY <2>1 DEF CaseInv, ImportsAreChecked
<1>9. SourcesKeepTheirCase' /\ PassagesKeepTheirCase' /\ EdgesKeepTheirCase'
  BY <1>2 DEF CaseInv, NothingCrossesCases, SourcesKeepTheirCase, PassagesKeepTheirCase,
       EdgesKeepTheirCase
<1>10. PassagesShowTheirSource' /\ PairsStandOnce'
  BY <1>2 DEF CaseInv, PassagesShowTheirSource, PairsStandOnce
<1>11. QED
  BY <1>4, <1>7, <1>8, <1>9, <1>10 DEF CaseInv, NothingCrossesCases

LEMMA NextCaseInv == CaseInv /\ [CaseNext]_caseVars => CaseInv'
<1> SUFFICES ASSUME CaseInv, [CaseNext]_caseVars
             PROVE  CaseInv'
  OBVIOUS
<1>1. CASE \E w \in Connections : CommitImport(w)
  BY <1>1, ImportKeepsCaseInv
<1>2. CASE \E x \in Indexes : IndexKeyframes(x)
  BY <1>2, IndexKeepsCaseInv
<1>3. ASSUME file' = file, ImportsAreChecked'
      PROVE  CaseInv'
  <2>1. FileHasTables'
    BY <1>3 DEF CaseInv, FileHasTables
  <2>2. NothingCrossesCases'
    BY <1>3 DEF CaseInv, NothingCrossesCases, SourcesKeepTheirCase, PassagesKeepTheirCase,
         EdgesKeepTheirCase, VectorsKeepTheirCase
  <2>3. PassagesShowTheirSource' /\ PairsStandOnce' /\ KeysArePairs' /\ OneDimension'
    BY <1>3 DEF CaseInv, PassagesShowTheirSource, PairsStandOnce, KeysArePairs, OneDimension
  <2>4. QED
    BY <1>3, <2>1, <2>2, <2>3 DEF CaseInv
<1>4. CASE \E w \in Connections, b \in Batches : BeginImport(w, b)
  <2>1. PICK w \in Connections, b \in Batches : BeginImport(w, b)
    BY <1>4
  <2>2. /\ Valid(b) /\ SpeakersAreOfTheCase(b)
        /\ importing' = [importing EXCEPT ![w] = b]
        /\ UNCHANGED <<file, allowance>>
    BY <2>1 DEF BeginImport, KeepsToItsCase, SpeakersAreOfTheCase
  <2>3. ImportsAreChecked'
    BY <2>2 DEF CaseInv, ImportsAreChecked
  <2>4. QED
    BY <1>3, <2>2, <2>3
<1>5. CASE \E w \in Connections : LoseImport(w)
  <2>1. ImportsAreChecked'
    BY <1>5 DEF LoseImport, CaseInv, ImportsAreChecked
  <2>2. QED
    BY <1>3, <1>5, <2>1 DEF LoseImport
<1>6. CASE Reviewing \/ UNCHANGED caseVars
  <2>1. UNCHANGED <<file, importing, allowance>>
    BY <1>6 DEF Reviewing, caseVars
  <2>2. ImportsAreChecked'
    BY <2>1 DEF CaseInv, ImportsAreChecked
  <2>3. QED
    BY <1>3, <2>1, <2>2
<1>7. QED
  BY <1>1, <1>2, <1>4, <1>5, <1>6 DEF CaseNext

\* Imports and the finder keep two cases apart, whatever identifiers adapters
\* choose, however many batches are under way at once.
THEOREM NothingCrossesCasesHolds == CaseSpec => []NothingCrossesCases
<1>1. CaseInv => NothingCrossesCases
  BY DEF CaseInv
<1>2. QED
  BY <1>1, InitCaseInv, NextCaseInv, PTL DEF CaseSpec

\* A batch that adds passages to an original already held was made from the
\* bytes the file has on record for it.
THEOREM PassagesShowTheirSourceHolds == CaseSpec => []PassagesShowTheirSource
<1>1. CaseInv => PassagesShowTheirSource
  BY DEF CaseInv
<1>2. QED
  BY <1>1, InitCaseInv, NextCaseInv, PTL DEF CaseSpec

\* "The mirror image is not a second thing to review": within a batch, and
\* between batches whichever commits first.
THEOREM PairsStandOnceHolds == CaseSpec => []PairsStandOnce
<1>1. CaseInv => PairsStandOnce
  BY DEF CaseInv
<1>2. QED
  BY <1>1, InitCaseInv, NextCaseInv, PTL DEF CaseSpec

\* A search in the dimension of an indexed still is answered with the still,
\* whatever was imported, indexed or decided since, as long as a derivation of
\* it stands and it has a passage.
THEOREM FramesStayFindableHolds == CaseSpec => []FramesStayFindable
<1>1. CaseInv => FramesStayFindable
  <2> SUFFICES ASSUME CaseInv, NEW k \in DOMAIN file.vectors
               PROVE  LET vector == file.vectors[k]
                          answer == Search(vector.case, k[2], vector.dim)
                      IN  /\ ~ answer.refused
                          /\ \/ k[1] \in answer.hits
                             \/ \A e \in Derivations(file, vector.case, k[1]) :
                                  reviewState[e] = "rejected"
                             \/ \A c \in DOMAIN file.contents : file.contents[c].source # k[1]
    BY DEF FramesStayFindable
  <2> DEFINE case == file.vectors[k].case
             stills == Joined(case, k[2])
  <2>1. ASSUME NEW s \in stills
        PROVE  file.vectors[<<s, k[2]>>].dim = file.vectors[k].dim
    <3>1. PICK v \in IndexedIn(file, case, k[2]) : s = v[1]
      BY <2>1 DEF Joined
    <3>2. /\ v \in DOMAIN file.vectors /\ v = <<s, k[2]>>
          /\ file.vectors[v].case = case /\ v[2] = k[2]
      BY <3>1 DEF IndexedIn, CaseInv, KeysArePairs
    <3>3. file.vectors[v].dim = file.vectors[k].dim
      BY <3>2 DEF CaseInv, OneDimension
    <3>4. QED
      BY <3>2, <3>3
  <2>2. Search(case, k[2], file.vectors[k].dim) = [refused |-> FALSE, hits |-> stills]
    BY <2>1 DEF Search
  <2>3. \/ k[1] \in stills
        \/ \A e \in Derivations(file, case, k[1]) : reviewState[e] = "rejected"
        \/ \A c \in DOMAIN file.contents : file.contents[c].source # k[1]
    BY DEF Joined, IndexedIn
  <2>4. QED
    BY <2>2, <2>3
<1>2. QED
  BY <1>1, InitCaseInv, NextCaseInv, PTL DEF CaseSpec

----------------------------------------------------------------------------
(* Review beside imports.  A batch's rows enter all at once; nobody has      *)
(* decided about them, for what is not in the file has not entered.          *)

ImportedHaveRows ==
  \A r \in Records \cap Brought : reviewState[r] # "absent" => r \in Rows(file)

BothInv == CaseInv /\ IInv /\ ImportedHaveRows

LEMMA InitBothInv == CaseInit => BothInv
<1> SUFFICES ASSUME CaseInit PROVE BothInv
  OBVIOUS
<1>1. Init
  BY DEF CaseInit
<1>2. ImportedHaveRows
  BY <1>1 DEF Init, ImportedHaveRows
<1>3. QED
  BY <1>1, <1>2, InitCaseInv, InitIInv DEF BothInv

\* What an import adds to the tables is of its batch.
LEMMA NewRows ==
  ASSUME CaseInv, NEW w \in Connections, CommitImport(w)
  PROVE  /\ Rows(file) \subseteq Rows(file')
         /\ Rows(file') \ Rows(file) \subseteq Brought
<1>1. PICK b \in Batches :
        file' = [sources |-> SourcesAfter(file, b, DOMAIN b.sources),
                 contents |-> ContentsAfter(file, b),
                 edges |-> EdgesAfter(file, b, DOMAIN b.edges),
                 vectors |-> file.vectors]
  BY ImportWrites
<1>2. /\ file'.sources = SourcesAfter(file, b, DOMAIN b.sources)
      /\ file'.contents = ContentsAfter(file, b)
      /\ file'.edges = EdgesAfter(file, b, DOMAIN b.edges)
  BY <1>1
<1> DEFINE names == {b.sources[i].id : i \in DOMAIN b.sources} \cup {c.id : c \in PassagesOf(b)}
                      \cup {e.id : e \in ToSet(b.edges)}
<1>3. names \subseteq Brought
  BY DEF Brought
<1>4. /\ DOMAIN file'.sources \subseteq DOMAIN file.sources \cup names
      /\ DOMAIN file'.contents \subseteq DOMAIN file.contents \cup names
      /\ DOMAIN file'.edges \subseteq DOMAIN file.edges \cup names
  <2>1. ASSUME NEW id \in DOMAIN file'.sources, id \notin DOMAIN file.sources PROVE id \in names
    BY <1>2, <2>1, NewSourceRows DEF NewSources
  <2>2. ASSUME NEW id \in DOMAIN file'.contents, id \notin DOMAIN file.contents PROVE id \in names
    <3>1. PICK t \in Turns(b) : PassageAt(b, t).id = id
      BY <1>2, <2>2, NewPassageRows
    <3>2. QED
      BY <3>1 DEF PassagesOf
  <2>3. ASSUME NEW id \in DOMAIN file'.edges, id \notin DOMAIN file.edges PROVE id \in names
    <3>1. PICK i \in DOMAIN b.edges : b.edges[i].id = id
      BY <1>2, <2>3, NewEdgeRows
    <3>2. QED
      BY <3>1 DEF ToSet
  <2>4. QED
    BY <2>1, <2>2, <2>3
<1>5. /\ DOMAIN file.sources \subseteq DOMAIN file'.sources
      /\ DOMAIN file.contents \subseteq DOMAIN file'.contents
      /\ DOMAIN file.edges \subseteq DOMAIN file'.edges
  BY <1>2, Held
<1>6. QED
  BY <1>3, <1>4, <1>5 DEF Rows

LEMMA EntersInAState ==
  ASSUME NEW b \in Batches, NEW r
  PROVE  EntersAs(b, r) \in ReviewStates
<1>1. CASE \E c \in PassagesOf(b) : c.id = r
  <2> DEFINE p == CHOOSE c \in PassagesOf(b) : c.id = r
  <2>1. p \in PassagesOf(b)
    BY <1>1
  <2>2. EntersAs(b, r) = p.state
    BY <1>1 DEF EntersAs
  <2> HIDE DEF p
  <2>3. QED
    BY <2>1, <2>2, BatchAssumption
<1>2. CASE ~ \E c \in PassagesOf(b) : c.id = r
  BY <1>2 DEF EntersAs, ReviewStates, IntakeStates
<1>3. QED
  BY <1>1, <1>2

LEMMA ImportEnters ==
  ASSUME BothInv, NEW w \in Connections, CommitImport(w)
  PROVE  IInv' /\ ImportedHaveRows'
<1> DEFINE b == importing[w]
           new == Rows(file') \ Rows(file)
           S == new \cap Records
           e == [r \in Records |-> EntersAs(b, r)]
<1>1. b \in Batches
  BY DEF BothInv, CaseInv, ImportsAreChecked, CommitImport
<1>2. /\ reviewState' = [r \in Records |-> IF r \in new THEN EntersAs(b, r) ELSE reviewState[r]]
      /\ imported' = [r \in Records |-> IF r \in new THEN EntersAs(b, r) ELSE imported[r]]
      /\ UNCHANGED <<trail, deciding>>
  BY DEF CommitImport
<1>3. Rows(file) \subseteq Rows(file') /\ new \subseteq Brought
  BY NewRows DEF BothInv
<1> HIDE DEF b, new
<1>4. \A r \in S : reviewState[r] = "absent" /\ e[r] \in ReviewStates
  BY <1>1, <1>3, EntersInAState DEF BothInv, ImportedHaveRows, new
<1>5. /\ reviewState' = [r \in Records |-> IF r \in S THEN e[r] ELSE reviewState[r]]
      /\ imported' = [r \in Records |-> IF r \in S THEN e[r] ELSE imported[r]]
  BY <1>2
<1> HIDE DEF e
<1>6. IInv'
  BY <1>2, <1>4, <1>5, EnterMany DEF BothInv
<1>7. ImportedHaveRows'
  <2>1. ASSUME NEW r \in Records \cap Brought, reviewState'[r] # "absent"
        PROVE  r \in Rows(file')
    BY <1>2, <1>3, <2>1 DEF BothInv, ImportedHaveRows, new
  <2>2. QED
    BY <2>1 DEF ImportedHaveRows, Rows
<1>8. QED
  BY <1>6, <1>7

\* A decision moves records that have entered; a person enters others than
\* those the batches bring.
LEMMA ReviewingKeeps ==
  ASSUME BothInv, Reviewing
  PROVE  IInv' /\ ImportedHaveRows'
<1>1. Next /\ file' = file
  BY DEF Reviewing, Next, BothInv, CaseInv, ImportsAreChecked
<1>2. IInv'
  BY <1>1, NextIInv DEF BothInv
<1>3. ASSUME NEW r \in Records \cap Brought
      PROVE  reviewState[r] = "absent" => reviewState'[r] = "absent"
  <2>1. CASE \E q \in allowance.decidable \ Brought : EnterByMachine(q) \/ EnterByPerson(q)
    <3>1. PICK q \in allowance.decidable \ Brought : EnterByMachine(q) \/ EnterByPerson(q)
      BY <2>1
    <3>2. \E s : reviewState' = [reviewState EXCEPT ![q] = s]
      BY <3>1 DEF EnterByMachine, EnterByPerson, Enter
    <3>3. QED
      BY <3>1, <3>2 DEF BothInv, IInv, TypeOK
  <2>2. CASE \E w \in Connections : Record(w)
    <3>1. PICK w \in Connections : Record(w)
      BY <2>2
    <3>2. /\ reviewState[deciding[w].target] # "absent"
          /\ reviewState' = [reviewState EXCEPT ![deciding[w].target] = deciding[w].to]
      BY <3>1 DEF Record, BothInv, IInv, DecidedHaveEntered
    <3>3. QED
      BY <3>2 DEF BothInv, IInv, TypeOK
  <2>3. CASE \E w \in Connections : (\E d \in Decisions : Decide(w, d)) \/ Lose(w)
    BY <2>3 DEF Decide, Lose
  <2>4. QED
    BY <2>1, <2>2, <2>3 DEF Reviewing
<1>4. ImportedHaveRows'
  BY <1>1, <1>3 DEF BothInv, ImportedHaveRows, Rows
<1>5. QED
  BY <1>2, <1>4

LEMMA NextBothInv == BothInv /\ [CaseNext]_caseVars => BothInv'
<1> SUFFICES ASSUME BothInv, [CaseNext]_caseVars
             PROVE  BothInv'
  OBVIOUS
<1>1. CaseInv'
  BY NextCaseInv DEF BothInv
<1>2. CASE \E w \in Connections : CommitImport(w)
  BY <1>1, <1>2, ImportEnters DEF BothInv
<1>3. CASE Reviewing
  BY <1>1, <1>3, ReviewingKeeps DEF BothInv
<1>4. CASE \/ \E w \in Connections : (\E b \in Batches : BeginImport(w, b)) \/ LoseImport(w)
           \/ \E x \in Indexes : IndexKeyframes(x)
           \/ UNCHANGED caseVars
  <2>1. UNCHANGED vars
    BY <1>4 DEF BeginImport, LoseImport, IndexKeyframes, caseVars, vars
  <2>2. IInv'
    BY <2>1, NextIInv DEF BothInv
  <2>3. Rows(file)' = Rows(file)
    <3>1. CASE \E x \in Indexes : IndexKeyframes(x)
      <4>1. PICK v : file' = [sources |-> file.sources, contents |-> file.contents,
                              edges |-> file.edges, vectors |-> v]
        BY <3>1, IndexWrites DEF BothInv
      <4>2. /\ file'.sources = file.sources /\ file'.contents = file.contents
            /\ file'.edges = file.edges
        BY <4>1
      <4>3. QED
        BY <4>2 DEF Rows
    <3>2. CASE ~ \E x \in Indexes : IndexKeyframes(x)
      <4>1. file' = file
        BY <1>4, <3>2 DEF BeginImport, LoseImport, caseVars
      <4>2. QED
        BY <4>1 DEF Rows
    <3>3. QED
      BY <3>1, <3>2
  <2>4. ImportedHaveRows'
    BY <2>1, <2>3 DEF BothInv, ImportedHaveRows, vars
  <2>5. QED
    BY <1>1, <2>2, <2>4 DEF BothInv
<1>5. QED
  BY <1>2, <1>3, <1>4 DEF CaseNext

\* A record's state is that of its last decision also while batches come in, and
\* no batch brings a record anybody has decided about already.
THEOREM StateIsLatestDecisionInTheFile == CaseSpec => []StateIsLatestDecision
<1>1. BothInv => StateIsLatestDecision
  BY DEF BothInv, IInv
<1>2. QED
  BY <1>1, InitBothInv, NextBothInv, PTL DEF CaseSpec
=============================================================================
