------------------------------- MODULE Scenes -------------------------------
(* How the video adapter divides a recording into scenes: ffmpeg keeps some *)
(* of its frames as numbered stills and reports the time of each, and every *)
(* reported time opens a scene that lasts until the next.  Times are        *)
(* milliseconds after the first frame, frames are in order, and a frame's   *)
(* cut says whether it differs enough from the frame before.                *)
EXTENDS Naturals, Sequences, FiniteSets, SequencesExt

\* The container's claim, unless it tells where the video stream ends.
DecodableEnd(claimed, stream) == Min({claimed} \cup stream)

\* Mutant: the wait starts after a whole interval, one frame late.
TriggerLate(interval, frame) == interval + frame

\* One frame early, so that a steady stream stays within the interval asked.
TriggerGap(interval, frame) == IF interval > frame THEN interval - frame ELSE 1

\* ffmpeg's select: the first frame, one frame per interval, and the cuts
\* that are not too close to the frame kept last.
Retained(kept, f, interval, dedup, frame) ==
  \/ kept = << >>
  \/ interval > 0 /\ f.at - Last(kept).at >= TriggerGap(interval, frame)
  \/ f.cut /\ f.at - Last(kept).at >= dedup

Samples(frames, interval, dedup, frame) ==
  FoldLeft(LAMBDA kept, f :
             IF Retained(kept, f, interval, dedup, frame) THEN Append(kept, f) ELSE kept,
           << >>, frames)

\* The report, less a time that repeats the one before it.
Reported(samples) ==
  FoldLeft(LAMBDA times, f :
             IF times # << >> /\ Last(times) = f.at THEN times ELSE Append(times, f.at),
           << >>, samples)

\* Scene n opens at the n-th time; one that ends before it starts is left out.
ScenesOf(times, end) ==
  LET until(n) == IF n < Len(times) THEN times[n + 1] ELSE end
  IN {[n |-> n, from |-> times[n], to |-> until(n)] :
        n \in {k \in DOMAIN times : times[k] < until(k)}}

\* The missing tail of the recording, when it is long enough to tell.
Dropout(end, claimed, gap) ==
  IF gap > 0 /\ claimed - end >= gap THEN {[from |-> end, to |-> claimed]} ELSE {}
=============================================================================
