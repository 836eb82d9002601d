----------------------------- MODULE MCWorkFile -----------------------------
(* A small work file for TLC: three passages of two originals that bear on   *)
(* two propositions, and two charges of two elements each.                  *)
EXTENDS Digest

CONSTANTS w1, w2, v1, v2, v3, none

MCChargeRequests ==
  {[id |-> 1, label |-> "assault", elements |-> <<"act", "intent">>],
   [id |-> 2, label |-> "theft", elements |-> <<"taking", "value">>]}
MCLabelRank == [assault |-> 1, theft |-> 2]

MCEvidence == {"e1", "e2", "e3", "e4"}
MCBears ==
  [e1 |-> [proposition |-> "p", passage |-> "c1", source |-> "s1", relation |-> "supports"],
   e2 |-> [proposition |-> "p", passage |-> "c2", source |-> "s2", relation |-> "opposes"],
   e3 |-> [proposition |-> "q", passage |-> "c3", source |-> "s2", relation |-> "supports"],
   e4 |-> [proposition |-> "q", passage |-> "c1", source |-> "s1", relation |-> "qualifies"]]

\* Two accounts of one time and place, and one without a date.
MCAnchor ==
  [c1 |-> [date |-> "friday", place |-> "oak st"], c2 |-> [date |-> "friday", place |-> "oak st"],
   c3 |-> [date |-> none, place |-> "oak st"]]
MCOriginal == [c1 |-> "s1", c2 |-> "s2", c3 |-> "s2"]

\* A case just linked, and one charged, mapped and partly decided.
MCHistories ==
  {[line |-> [e1 |-> "unreviewed", e2 |-> "absent", e3 |-> "absent", e4 |-> "absent"],
    passage |-> [c1 |-> "unreviewed", c2 |-> "unreviewed", c3 |-> "reviewed"],
    charges |-> << >>, links |-> << >>],
   [line |-> [e1 |-> "rejected", e2 |-> "reviewed", e3 |-> "unreviewed", e4 |-> "absent"],
    passage |-> [c1 |-> "reviewed", c2 |-> "unreviewed", c3 |-> "rejected"],
    charges |-> 2 :> [label |-> "theft", elements |-> <<"taking", "value">>],
    links |-> <<"taking", "p">> :> "supports"]}

MCContested == <<"p", "q">>
MCLineOrder == <<"e1", "e4", "e2", "e3">>
MCSays == [stance |-> none, form |-> none, speaker |-> none,
           alleged |-> none, date |-> none, place |-> none]
MCReadings ==
  {[state |-> "reviewed", says |-> [MCSays EXCEPT !.stance = "capture", !.date = "saturday"]],
   [state |-> "reviewed", says |-> [MCSays EXCEPT !.stance = "unknown", !.alleged = "friday"]],
   [state |-> "rejected", says |-> [MCSays EXCEPT !.stance = "report"]]}
MCDefaults ==
  {[state |-> "reviewed", says |-> [MCSays EXCEPT !.stance = "recollection", !.speaker = "chen"]],
   [state |-> "unreviewed", says |-> [MCSays EXCEPT !.stance = "account"]],
   [state |-> "reviewed", says |-> [MCSays EXCEPT !.form = "assertion"]]}
MCAlleged == [c1 |-> none, c2 |-> "friday", c3 |-> "sunday"]

VARIABLE share  \* what this instance spends its bounds on

\* What somebody reads in one passage, or in all of them.
ReadingsOf(r) == {[c \in Passages |-> r], [c \in Passages |-> IF c = "c1" THEN r ELSE None]}

\* The commands by themselves, views with what may happen between their
\* statements, or a digest of a case that is partly read and decided.  The first
\* of these begin with the case that is charged.
MCInit ==
  /\ share \in {"work", "views", "digest"}
  /\ \E h \in Histories :
       /\ charges = h.charges /\ links = h.links
       /\ share = "work" => h.charges # << >>
       /\ IF share # "digest" THEN lineState = h.line /\ passageState = h.passage
          ELSE /\ h.charges = << >>
               /\ \E s \in {"unreviewed", "reviewed"} :
                    lineState = [e \in Evidence |-> IF e = "e2" THEN s ELSE "reviewed"]
               /\ \E c \in Passages :
                    passageState = [d \in Passages |->
                      IF d = c /\ d # "c1" THEN h.passage[c] ELSE "reviewed"]
  /\ versions = EmptyTable /\ briefs = EmptyTable /\ followUps = {}
  /\ doing = [w \in Processes |-> Idle]
  /\ reads = IF share = "work" THEN MaxReads ELSE 0
  /\ spent = CASE share = "work" -> 0 [] share = "views" -> MaxCommands - 2
              [] OTHER -> MaxCommands - 1
  /\ \E r \in Readings \cup {None}, d \in Defaults \cup {None} :
       IF share = "digest"
       THEN meaning \in ReadingsOf(r) /\ profile = [o \in {"s1", "s2"} |-> d]
       ELSE meaning = [c \in Passages |-> None] /\ profile = [o \in {"s1", "s2"} |-> None]
  /\ rests = [c1 |-> "reviewed", c2 |-> "unreviewed", c3 |-> "absent"]
  /\ touched = [w \in Processes |-> {}]

\* The fourth relationship is there for the digest alone.
MCNext ==
  /\ \/ share = "digest" /\ DigestNext
     \/ share # "digest" /\ ViewNext /\ UNCHANGED <<meanings, touched, lineState["e4"]>>
  /\ UNCHANGED share
MCSpec == MCInit /\ [][MCNext]_<<digestVars, share>>

Symmetries == Permutations({w1, w2}) \cup Permutations({v1, v2, v3})
=============================================================================
