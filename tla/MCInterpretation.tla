-------------------------- MODULE MCInterpretation --------------------------
(* One original, read by two processes.  Either its passages are two and a  *)
(* key may fall anywhere, while the rules find one candidate and the        *)
(* header's date: three readings and a profile, or two of each; or they are *)
(* three, the last on a page of its own, and each key comes from a session, *)
(* over nothing, a candidate or a history, while reviewers reject passages. *)
EXTENDS Sweep, TLC

CONSTANTS w1, w2, none

MCPassages == <<"c1", "c2", "c3">>
MCDetections == <<[on |-> "c1", form |-> "quoted"], [on |-> "source", form |-> none]>>
MCEntries == {[field |-> "form", value |-> "assertion"],
              [field |-> "speaker", value |-> "patel"]}
MCProfileDrafts ==
  {[value |-> [form |-> "narrative", speaker |-> "chen"], state |-> "reviewed"],
   [value |-> [form |-> none, speaker |-> "patel"], state |-> "unreviewed"]}
MCColumns == {"form", "speaker", "location"}
MCLetters == [form |-> [a |-> "assertion", u |-> "utterance"]]
MCPages == [c1 |-> 1, c2 |-> 1, c3 |-> 2]

Symmetries == Permutations({w1, w2})

VARIABLE share  \* what this instance spends its bounds on

First(p, form) ==
  [passage |-> p, value |-> [Unset EXCEPT !.form = form],
   from |-> [NoLabel EXCEPT !.form = Label("entered", 0)],
   state |-> "reviewed", over |-> 0, parent |-> 0]
MCReadings ==
  {<<>>, <<Candidate(MCDetections[1])>>,
   <<First("c3", "assertion"), [First("c3", "utterance") EXCEPT !.over = 1]>>}

MCInit ==
  /\ share \in {"readings", "profiles", "session"}
  /\ readings \in IF share = "session" THEN MCReadings ELSE {<<>>}
  /\ withheld = IF share = "session" THEN {} ELSE {"c3"}
  /\ profiles = <<>>
  /\ rows = [w \in Processes |-> None]
  /\ doing = [w \in Processes |-> Idle]
  /\ moved = [w \in Processes |-> Undisturbed]
  /\ SweepInit

MCNext ==
  /\ \/ share = "readings" /\ Next /\ Len(profiles') <= 1 /\ UNCHANGED sweepVars
     \/ share = "profiles" /\ Next /\ Len(readings') <= 2 /\ UNCHANGED sweepVars
     \/ share = "session" /\ SweepNext
  /\ UNCHANGED share

MCSpec == MCInit /\ [][MCNext]_<<vars, sweepVars, share>>
=============================================================================
