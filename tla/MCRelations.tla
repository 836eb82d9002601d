---------------------------- MODULE MCRelations ----------------------------
(* A small case for TLC: three passages of two originals, a group of two of *)
(* them, one contested proposition and two occurrences in two lanes.  The   *)
(* file it is in is opened first, and may be of an earlier version.         *)
EXTENDS Relations, Migration, TLC

CONSTANTS w1, w2, r1, r2, r3, c1, c2, c3, s1, s2, g, p, e1, e2, ann, none

MCContents == {c1, c2, c3}
MCSourceOf == c1 :> s1 @@ c2 :> s2 @@ c3 :> s2
MCMembers == g :> {c1, c2}
MCWitness == c1 :> ann @@ c2 :> none @@ c3 :> ann
MCRank ==
  c1 :> 1 @@ c2 :> 2 @@ c3 :> 3 @@ s1 :> 4 @@ s2 :> 5 @@ g :> 6 @@ p :> 7 @@ e1 :> 8 @@ e2 :> 9
MCSpan ==
  e1 :> [lane |-> 1, start |-> 0, end |-> 3] @@ e2 :> [lane |-> 2, start |-> 2, end |-> 4]
MCAnchored == {{c1, c2}}
MCEchoing == {{c1, c3}}

MCInitialDates == c1 :> 2 @@ c2 :> 1 @@ c3 :> 1

\* A case just opened; a chain that runs into a cycle of two dependencies; a
\* chain of two, and a tension about p.
MCHistories ==
  {{},
   {Claim(c1, "quotes", c2), Claim(c2, "based_on", c1), Claim(c3, "based_on", c1)},
   {Claim(c3, "based_on", c1), Claim(c1, "supports", p), Claim(c2, "contradicts", p)}}

MCLinkRequests ==
  {Claim(c3, "independently_corroborates", g), Claim(c1, "independently_corroborates", c2),
   Claim(c2, "contradicts", c1), Claim(c2, "candidate_same_occurrence", c1),
   Claim(c3, "contradicts", p)}

MCOccurrenceRequests ==
  {[id |-> e1, passages |-> {c1, c2}], [id |-> e2, passages |-> {c1, c3}]}

\* The tables as opening leaves them where nothing was recorded before.
MCServes ==
  /\ \A o \in Openers : pc[o] = "open"
  /\ version = SchemaVersion /\ tables = {"edges"} /\ authored = {}

\* The first command ends the opening and closing.
MCNext ==
  \/ spent = 0 /\ MigrationNext /\ UNCHANGED vars
  \/ MCServes /\ Next /\ UNCHANGED migrationVars

MCInit == Init /\ MigrationInit
MCSpec == MCInit /\ [][MCNext]_<<vars, migrationVars>> /\ Fairness
=============================================================================
