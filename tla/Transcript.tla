----------------------------- MODULE Transcript -----------------------------
(* What the audio adapter makes of a transcript: one statement per segment, *)
(* and one row for every stretch between two segments where no speech was   *)
(* aligned.  A transcript is a sequence of segments [from, to, said].       *)
EXTENDS Naturals, Sequences

\* transcript_to_batch refuses the whole transcript otherwise.
IsMappable(t) ==
  /\ t # << >>
  /\ \A i \in DOMAIN t : t[i].from <= t[i].to /\ t[i].said # ""

Statements(t) ==
  {[n |-> i, from |-> t[i].from, to |-> t[i].to, said |-> t[i].said] : i \in DOMAIN t}

SilentSince(t, i) == t[i - 1].to

\* Mutant: a stretch exactly as long as the gap is passed over.
LongerSilences(t, gap) ==
  {[from |-> SilentSince(t, i), to |-> t[i].from] :
     i \in {k \in 2..Len(t) : gap > 0 /\ t[k].from > SilentSince(t, k) + gap}}

Silences(t, gap) ==
  {[from |-> SilentSince(t, i), to |-> t[i].from] :
     i \in {k \in 2..Len(t) : gap > 0 /\ t[k].from >= SilentSince(t, k) + gap}}
=============================================================================
