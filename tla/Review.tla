------------------------------- MODULE Review -------------------------------
(***************************************************************************)
(* Human review: Store::apply_review of src/store.rs, the rules of         *)
(* src/review.rs, and the append-only table review_events.                 *)
(*                                                                         *)
(* apply_review reads the record's state and checks the decision before it *)
(* opens its transaction, so a decision is two steps: Decide, which        *)
(* remembers the state it read, and Record, which writes.  Every           *)
(* connection may be deciding at once.                                     *)
(***************************************************************************)
EXTENDS Naturals, Sequences

CONSTANTS
  Connections,  \* connections to the database file
  Records,      \* reviewable records: content, sources, edges, ...
  Located,      \* the records that have one original locator
  MaxEvents     \* bound: decisions recorded

ASSUME LocatedAssumption == Located \subseteq Records
ASSUME MaxEventsAssumption == MaxEvents \in Nat

VARIABLES
  reviewState,  \* the review_state column of each record
  trail,        \* review_events, in rowid order
  imported,     \* the state each record entered with
  deciding      \* per connection: the decision checked and not yet written

vars == <<reviewState, trail, imported, deciding>>

IntakeStates == {"unreviewed", "suggested"}
Decided == {"reviewed", "verified", "rejected"}
ReviewStates == IntakeStates \cup Decided

\* What a decision cites: the record's own locator, another one, or none.
Citations == {"own", "other", "none"}

Decisions == [target : Records, to : ReviewStates, cited : Citations, basis : BOOLEAN]
\* The citation and the basis are copied from the decision and left out here;
\* `by' is the connection that decided, where the table names the person.
Events == [target : Records, from : ReviewStates, to : ReviewStates, by : Connections]
NoDecision == [target |-> "none"]

Init ==
  /\ reviewState = [r \in Records |-> "absent"]
  /\ trail = <<>>
  /\ imported = [r \in Records |-> "absent"]
  /\ deciding = [w \in Connections |-> NoDecision]

----------------------------------------------------------------------------
(* Records enter.  A machine's content and proposals are suggested          *)
(* (validate_batch); sources and what a person authors are unreviewed; a    *)
(* batch's content that no machine made keeps the state the batch gives it. *)

Enter(r, s) ==
  /\ reviewState[r] = "absent"
  /\ reviewState' = [reviewState EXCEPT ![r] = s]
  /\ imported' = [imported EXCEPT ![r] = s]
  /\ UNCHANGED <<trail, deciding>>

EnterByMachine(r) == Enter(r, "suggested")
EnterByPerson(r) == \E s \in ReviewStates : Enter(r, s)

----------------------------------------------------------------------------

TransitionAllowed(from, to) == to \in Decided /\ from # to

\* require_justification
Justified(d) ==
  CASE d.to = "verified" ->
         IF d.target \in Located THEN d.cited = "own" ELSE d.cited = "none" /\ d.basis
    [] d.to = "rejected" -> d.basis
    [] OTHER -> TRUE

Decide(w, d) ==
  /\ deciding[w] = NoDecision
  /\ reviewState[d.target] # "absent"
  /\ TransitionAllowed(reviewState[d.target], d.to)
  /\ Justified(d)
  /\ deciding' = [deciding EXCEPT ![w] =
       [target |-> d.target, from |-> reviewState[d.target], to |-> d.to, by |-> w]]
  /\ UNCHANGED <<reviewState, trail, imported>>

\* Mutant: the UPDATE keeps a decision another connection made meanwhile, but
\* the event is written all the same.
RecordIfUnchanged(w) ==
  /\ deciding[w] # NoDecision
  /\ Len(trail) < MaxEvents
  /\ LET d == deciding[w]
     IN /\ reviewState' = [reviewState EXCEPT ![d.target] = IF @ = d.from THEN d.to ELSE @]
        /\ trail' = Append(trail, d)
  /\ deciding' = [deciding EXCEPT ![w] = NoDecision]
  /\ UNCHANGED imported

\* One transaction: the UPDATE and the INSERT.
Record(w) ==
  /\ deciding[w] # NoDecision
  /\ Len(trail) < MaxEvents
  /\ reviewState' = [reviewState EXCEPT ![deciding[w].target] = deciding[w].to]
  /\ trail' = Append(trail, deciding[w])
  /\ deciding' = [deciding EXCEPT ![w] = NoDecision]
  /\ UNCHANGED imported

\* The process ends, or the transaction is refused, before the commit.
Lose(w) ==
  /\ deciding[w] # NoDecision
  /\ deciding' = [deciding EXCEPT ![w] = NoDecision]
  /\ UNCHANGED <<reviewState, trail, imported>>

Next ==
  \/ \E r \in Records : EnterByMachine(r) \/ EnterByPerson(r)
  \/ \E w \in Connections :
       (\E d \in Decisions : Decide(w, d)) \/ Record(w) \/ Lose(w)

Spec == Init /\ [][Next]_vars

----------------------------------------------------------------------------
(* Properties.                                                             *)

TypeOK ==
  /\ reviewState \in [Records -> ReviewStates \cup {"absent"}]
  /\ trail \in Seq(Events)
  /\ imported \in [Records -> ReviewStates \cup {"absent"}]
  /\ deciding \in [Connections -> Events \cup {NoDecision}]

\* The decisions about one record, oldest first.
IsAbout(i, r) == i \in DOMAIN trail /\ trail[i].target = r
IsLastAbout(i, r) == IsAbout(i, r) /\ \A k \in DOMAIN trail : k > i => ~ IsAbout(k, r)
FollowsOn(i, k, r) ==
  /\ IsAbout(i, r)
  /\ IsAbout(k, r)
  /\ i < k
  /\ \A m \in DOMAIN trail : i < m /\ m < k => ~ IsAbout(m, r)

\* "Review state is a cache of the latest decision": whatever the connections
\* interleave, a record holds what its last decision says, and the state it
\* entered with while nobody has decided.
StateIsLatestDecision ==
  \A r \in Records :
    IF \E i \in DOMAIN trail : IsAbout(i, r)
    THEN \E i \in DOMAIN trail : IsLastAbout(i, r) /\ reviewState[r] = trail[i].to
    ELSE reviewState[r] = imported[r]

\* "State the record held before the decision": each event starts where the
\* event before it, or the import, left the record.  It does not hold: two
\* connections may both have read the state before either writes.
TrailIsChained ==
  \A r \in Records, k \in DOMAIN trail :
    IsAbout(k, r) =>
      \/ \E i \in DOMAIN trail : FollowsOn(i, k, r) /\ trail[k].from = trail[i].to
      \/ ~ (\E i \in DOMAIN trail : FollowsOn(i, k, r)) /\ trail[k].from = imported[r]

\* The event at k starts from what the event at i wrote about the same record, or
\* from the import where i is 0, and its connection wrote none in between.
StartsFrom(i, k, r) ==
  /\ trail[k].from = IF i = 0 THEN imported[r] ELSE trail[i].to
  /\ \A m \in DOMAIN trail : i < m /\ m < k /\ IsAbout(m, r) => trail[m].by # trail[k].by

\* "State the record held before the decision": an event may name a state that
\* another connection has overwritten, but it is one the record did hold, and
\* held after the last decision the same connection made about it.
StartsWhereItWas ==
  \A r \in Records, k \in DOMAIN trail :
    IsAbout(k, r) =>
      \E i \in 0 .. k - 1 : (i = 0 \/ IsAbout(i, r)) /\ StartsFrom(i, k, r)

\* "repeating a decision is refused rather than duplicating the trail": no
\* connection writes the same outcome twice running.
OneHandNeverRepeats ==
  \A r \in Records, i, k \in DOMAIN trail :
    FollowsOn(i, k, r) /\ trail[i].by = trail[k].by => trail[i].to # trail[k].to

\* Nothing leaves the trail or changes in it, and a record's state moves only
\* together with an event about it that says where it went.
EveryMoveIsOnTheTrail ==
  [][/\ \A i \in DOMAIN trail : i \in DOMAIN trail' /\ trail'[i] = trail[i]
     /\ \A r \in Records :
          reviewState[r] # "absent" /\ reviewState'[r] # reviewState[r] =>
            /\ Len(trail') = Len(trail) + 1
            /\ trail'[Len(trail')].target = r
            /\ trail'[Len(trail')].to = reviewState'[r]]_vars
=============================================================================
