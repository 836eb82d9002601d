------------------------------- MODULE Digest -------------------------------
(* The digest of a case (case_digest): a packet for each contested          *)
(* proposition (proposition_packet), and sentences from typed templates     *)
(* over the items of the packets.  Every item takes a SELECT for its        *)
(* reading, one for the profile of its original, a walk to the roots of     *)
(* what it rests on and a SELECT for whether it rests on anything, none of  *)
(* them in a transaction; reviewers decide in between.                      *)
EXTENDS Views

CONSTANTS
  Contested,  \* the contested propositions, in the order of their text
  LineOrder,  \* the relationships, by original, locator, passage and relation
  Readings,   \* the versions of a reading persons write: [state, says]
  Defaults,   \* the versions of a profile persons write: [state, says]
  Alleged,    \* per passage: the time it was extracted with, or None
  Unnamed,    \* the passages with a standing candidate for their speaker
  Gathered    \* the passages that, if they rest on anything, rest on several roots

ASSUME DigestAssumption ==
  /\ Contested \in Seq(Propositions) /\ IsInjective(Contested)
  /\ LineOrder \in Seq(Evidence) /\ ToSet(LineOrder) = Evidence /\ IsInjective(LineOrder)
  /\ \A v \in Readings \cup Defaults : v.state \in {"unreviewed", "reviewed", "rejected"}
  /\ Unnamed \subseteq Passages /\ Gathered \subseteq Passages

VARIABLES
  meaning,  \* per passage: the current version of its reading, or None
  profile,  \* per original: the current version of its profile, or None
  rests,    \* per passage: the review state of what it quotes or reports
  touched   \* per process: the passages about which anything was written since
            \* its digest began

meanings == <<meaning, profile, rests>>
digestVars == <<viewVars, meanings, touched>>

----------------------------------------------------------------------------
(* What is said of a passage.                                               *)

Stands(version) == version # None /\ version.state = "reviewed"

\* reviewed_semantic_snapshot: a decided reading, else what a decided profile
\* says of every passage of its original, else what was extracted.
Said(version, what, otherwise) ==
  IF Stands(version) /\ version.says[what] # None THEN version.says[what] ELSE otherwise

Extracted(row, value) == IF row.passageState = "reviewed" THEN value ELSE None

ItemOf(row, reading, default) ==
  [passage |-> row.passage, line |-> row.line,
   filed |-> /\ "reviewed" = row.lineState /\ "reviewed" = row.passageState
             /\ Stands(reading) \/ Stands(default),
   stance |-> Said(reading, "stance", Said(default, "stance", None)),
   form |-> Said(reading, "form", Said(default, "form", None)),
   named |-> Said(reading, "speaker", Said(default, "speaker", None)) # None,
   alleged |-> Said(reading, "alleged", Extracted(row, Alleged[row.passage])),
   date |-> Said(reading, "date", Extracted(row, Anchor[row.passage].date)),
   place |-> Said(reading, "place", Extracted(row, Anchor[row.passage].place)),
   rests |-> None]

----------------------------------------------------------------------------
(* The sections of a packet.                                                *)

Layers == {"capture", "accounts", "later", "official"}
Sections == Layers \cup {"links", "dependencies", "missing"}

LaterStances == {"recollection", "report", "measurement", "analysis"}
OfficialForms == {"characterization", "assertion"}

\* Mutant: an item whose stance says nothing of its layer is left out.
LayerOrNone(item) ==
  IF item.stance = "capture" THEN "capture"
  ELSE IF item.stance = "account" THEN "accounts"
  ELSE IF item.stance \in LaterStances THEN "later"
  ELSE IF item.form \in OfficialForms THEN "official"
  ELSE "none"

LayerOf(item) ==
  IF item.stance = "capture" THEN "capture"
  ELSE IF item.stance = "account" THEN "accounts"
  ELSE IF item.stance \in LaterStances THEN "later"
  ELSE IF item.form \in OfficialForms THEN "official"
  ELSE "missing"

\* The times and the places the filed items carry; a normalized time comes
\* before an alleged one.
TimesOf(items) ==
  {IF x.date # None THEN x.date ELSE x.alleged : x \in {y \in items : y.filed}} \ {None}
PlacesOf(items) == {x.place : x \in {y \in items : y.filed}} \ {None}
InConflict(items) == Cardinality(TimesOf(items)) > 1 \/ Cardinality(PlacesOf(items)) > 1

Unsettled(item) ==
  \/ ~item.named /\ item.passage \in Unnamed
  \/ item.alleged # None /\ item.date = None

\* Where one item of a packet goes; every relation modelled is evaluative.  An
\* item rests on something if several roots were found for it or, failing that,
\* if has_packet_dependency said so.
BelongsTo(section, item, items) ==
  IF section = "links" THEN item.filed
  ELSE IF section = "dependencies" THEN item.filed /\ (item.rests \/ InConflict(items))
  ELSE IF section = "missing" THEN ~item.filed \/ LayerOf(item) = "missing" \/ Unsettled(item)
  ELSE item.filed /\ LayerOf(item) = section

\* push_template: a template is rendered once for a passage.
Tell(told, item) ==
  IF \E i \in DOMAIN told : told[i].passage = item.passage THEN told
  ELSE Append(told, [passage |-> item.passage, line |-> item.line])

\* The elements of s that are in S, in their order.
Only(s, S) == FoldLeft(LAMBDA kept, x : IF x \in S THEN Append(kept, x) ELSE kept, << >>, s)

\* populate_from_packet; what a passage rests on is told before conflicts.
InOrder(section, items) ==
  LET there == {x \in ToSet(items) : BelongsTo(section, x, ToSet(items))}
      resting == {x \in there : x.rests}
  IN IF section # "dependencies" THEN Only(items, there)
     ELSE Only(items, resting) \o Only(items, there \ resting)

----------------------------------------------------------------------------
(* The digest, SELECT by SELECT.                                            *)

\* digest_proposition_ids
BeginDigest(w) ==
  /\ Look(w, [op |-> "digest", todo |-> Contested, told |-> [s \in Sections |-> << >>]])
  /\ touched' = [touched EXCEPT ![w] = {}]
  /\ UNCHANGED meanings

Continue(w, from, reading) ==
  Turn(w, from, reading) /\ UNCHANGED <<meanings, touched>>

\* packet_linked_passages: the relationships in force, with the review states
\* of both ends of the join.
RowOf(e) ==
  [line |-> e, passage |-> Bears[e].passage, lineState |-> lineState[e],
   passageState |-> passageState[Bears[e].passage]]

ReadLinked(w) ==
  /\ doing[w].op = "digest" /\ doing[w].todo # << >>
  /\ LET lines == Only(LineOrder, LinesOn(Head(doing[w].todo)))
     IN Continue(w, "digest", [op |-> "packet", items |-> << >>,
                               rows |-> [i \in DOMAIN lines |-> RowOf(lines[i])]])

\* current_interpretation of the next row
ReadReading(w) ==
  /\ doing[w].op = "packet" /\ doing[w].rows # << >>
  /\ Continue(w, "packet", [op |-> "read", reading |-> meaning[Head(doing[w].rows).passage]])

\* current_source_profile of its original
ReadProfile(w) ==
  /\ doing[w].op = "read"
  /\ LET row == Head(doing[w].rows)
     IN Continue(w, "read",
          [op |-> "lineage", rows |-> Tail(doing[w].rows), reading |-> None,
           items |-> Append(doing[w].items,
                            ItemOf(row, doing[w].reading, profile[Original[row.passage]]))])

\* lineage: the walk to the roots of the passage, which Relations takes step by
\* step.  A passage whose dependency is not reviewed has its original for its one
\* root; several roots spare the item the question of has_packet_dependency.
ReadLineage(w) ==
  /\ doing[w].op = "lineage"
  /\ LET last == Len(doing[w].items)
         c == doing[w].items[last].passage
     IN Continue(w, "lineage",
          [op |-> "packet",
           items |-> [doing[w].items EXCEPT
                        ![last].rests = IF c \in Gathered /\ rests[c] = "reviewed"
                                        THEN TRUE ELSE None]])

\* has_packet_dependency, of each item to be filed in turn that has one root
Unasked(w) ==
  {i \in DOMAIN doing[w].items : doing[w].items[i].filed /\ doing[w].items[i].rests = None}

AskDependency(w) ==
  /\ doing[w].op = "packet" /\ doing[w].rows = << >> /\ Unasked(w) # {}
  /\ LET i == Min(Unasked(w))
     IN Continue(w, "packet",
          [op |-> "packet",
           items |-> [doing[w].items EXCEPT
                        ![i].rests = rests[doing[w].items[i].passage] = "reviewed"]])

\* The packet is complete and its sentences join those of the packets before.
FilePacket(w) ==
  /\ doing[w].op = "packet" /\ doing[w].rows = << >> /\ Unasked(w) = {}
  /\ Continue(w, "packet",
       [op |-> "digest", todo |-> Tail(doing[w].todo), rows |-> << >>, items |-> << >>,
        told |-> [s \in Sections |->
                    FoldLeft(Tell, doing[w].told[s], InOrder(s, doing[w].items))]])

\* privileged_work_product, for the team alone
EndDigest(w) ==
  /\ doing[w].op = "digest" /\ doing[w].todo = << >>
  /\ \E audience \in {"disclosable", "work-file"} :
       Continue(w, "digest",
         [op |-> "digested", privileged |-> IF audience = "work-file" THEN CurrentWork ELSE {}])

DigestStep(w) ==
  \/ BeginDigest(w) \/ ReadLinked(w) \/ ReadReading(w) \/ ReadProfile(w)
  \/ ReadLineage(w) \/ AskDependency(w) \/ FilePacket(w) \/ EndDigest(w)

----------------------------------------------------------------------------
(* What people write meanwhile.                                             *)

Touch(S) == touched' = [w \in Processes |-> touched[w] \cup S]

\* append_interpretation: a version over the current one.
Interpret(c, version) ==
  /\ Spend
  /\ meaning' = [meaning EXCEPT ![c] = version]
  /\ Touch({c})
  /\ Disturb
  /\ UNCHANGED <<tables, reviews, followUps, reads, profile, rests>>

\* append_source_profile
SaveProfile(o, version) ==
  /\ Spend
  /\ profile' = [profile EXCEPT ![o] = version]
  /\ Touch({c \in Passages : Original[c] = o})
  /\ Disturb
  /\ UNCHANGED <<tables, reviews, followUps, reads, meaning, rests>>

\* apply_review of the relationship a passage rests on another by
DecideDependency(c, state) ==
  /\ Spend
  /\ rests[c] \notin {"absent", state}
  /\ rests' = [rests EXCEPT ![c] = state]
  /\ Touch({c})
  /\ Disturb
  /\ UNCHANGED <<tables, reviews, followUps, reads, meaning, profile>>

Decide(state) ==
  /\ \/ \E e \in Evidence : DecideLine(e, state) /\ Touch({Bears[e].passage})
     \/ \E c \in Passages : DecidePassage(c, state) /\ Touch({c})
  /\ UNCHANGED <<followUps, reads, meanings>>

Abandon(w) == Finish(w) /\ UNCHANGED <<followUps, reads, meanings, touched>>

DigestInit ==
  /\ ViewInit
  /\ meaning \in [Passages -> Readings \cup {None}]
  /\ profile \in [{Original[c] : c \in Passages} -> Defaults \cup {None}]
  /\ rests \in [Passages -> ReviewStates]
  /\ touched = [w \in Processes |-> {}]

DigestNext ==
  \/ \E w \in Processes : DigestStep(w) \/ Abandon(w)
  \/ \E state \in {"reviewed", "rejected"} :
       Decide(state) \/ \E c \in Passages : DecideDependency(c, state)
  \/ \E c \in Passages, version \in Readings : Interpret(c, version)
  \/ \E o \in {Original[c] : c \in Passages}, version \in Defaults : SaveProfile(o, version)

DigestSpec == DigestInit /\ [][DigestNext]_digestVars

----------------------------------------------------------------------------
(* Properties.                                                              *)

\* The relationships of a passage that are in force, and those of them the
\* digest may speak from.
InForce(c) ==
  {e \in Evidence : Bears[e].passage = c /\ lineState[e] \notin {"absent", "rejected"}}
MaySpeak(c) ==
  /\ passageState[c] = "reviewed"
  /\ Stands(meaning[c]) \/ Stands(profile[Original[c]])
Checked(c) == {e \in InForce(c) : lineState[e] = "reviewed" /\ MaySpeak(c)}

Told(w, section) == {doing[w].told[section][i].passage : i \in DOMAIN doing[w].told[section]}

\* case_digest: of a passage nobody wrote about since it began, however the
\* packets it is in were read and whatever was decided about others, a digest
\* tells once.  It has one place in the narrative at most, and only if somebody
\* checked the passage, its reading and a relationship; what has no place there
\* or an unchecked relationship is named among what is missing; nothing in
\* force falls out and nothing rejected is told; and a passage that rests on
\* something, and two that disagree within a packet, are among the dependencies.
DigestTellsAll ==
  \A w \in Processes : doing[w].op = "digested" =>
    LET quiet == Passages \ touched[w]
        Places(c) == {s \in Layers : c \in Told(w, s)}
        Contesting(c) == {e \in InForce(c) : Bears[e].proposition \in ToSet(Contested)}
        Item(e) == ItemOf(RowOf(e), meaning[Bears[e].passage], profile[Original[Bears[e].passage]])
    IN /\ \A c \in quiet :
            /\ Cardinality(Places(c)) <= 1
            /\ Places(c) # {} => Checked(c) \cap Contesting(c) # {}
            /\ Contesting(c) # {} <=> Places(c) # {} \/ c \in Told(w, "missing")
            /\ Contesting(c) \ Checked(c) # {} => c \in Told(w, "missing")
            /\ c \in Told(w, "links") <=> Checked(c) \cap Contesting(c) # {}
            /\ rests[c] = "reviewed" /\ Checked(c) \cap Contesting(c) # {}
                 => c \in Told(w, "dependencies")
       /\ \A c, d \in quiet :
            (\E e \in Checked(c), f \in Checked(d) :
               /\ Bears[e].proposition = Bears[f].proposition
               /\ Bears[e].proposition \in ToSet(Contested)
               /\ InConflict({Item(e), Item(f)}))
            => {c, d} \subseteq Told(w, "dependencies")

\* docs/case-assembly-plan.md: the contested propositions with their evaluative
\* relations, each with its review state.  It does not hold: a template is
\* rendered once for a passage, so of two relationships of one passage the
\* second is neither told nor counted as omitted.
EveryLinkIsTold ==
  \A w \in Processes : doing[w].op = "digested" =>
    \A c \in Passages \ touched[w] : \A e \in Checked(c) :
      Bears[e].proposition \in ToSet(Contested) =>
        \E i \in DOMAIN doing[w].told["links"] : doing[w].told["links"][i].line = e

\* Template DependencyOrConflict: a passage among the dependencies "carries a
\* reviewed reporting/derivation root".  It does not hold: the same sentence is
\* used for passages that are there because they disagree.
DependenciesAreReviewed ==
  \A w \in Processes : doing[w].op = "digested" =>
    \A c \in Told(w, "dependencies") \ touched[w] : rests[c] = "reviewed"

\* A passage has one place in the narrative.  It does not hold while somebody
\* writes: two packets may read two versions of its reading.
ToldOnce ==
  \A w \in Processes : doing[w].op = "digested" =>
    \A c \in Passages : Cardinality({s \in Layers : c \in Told(w, s)}) <= 1
=============================================================================
