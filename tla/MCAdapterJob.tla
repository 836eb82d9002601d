---------------------------- MODULE MCAdapterJob ----------------------------
(* Small originals for TLC: recordings of three or four frames cut and      *)
(* stamped in every way, short transcripts, and a document; "a" is the      *)
(* content asked for and "b" what somebody overwrites it with.              *)
EXTENDS AdapterJob

MCStill(id, objects, caption, bands) ==
  [bytes |-> id, objects |-> objects, caption |-> caption, bands |-> bands]
MCIds == <<"f1", "f2", "f3", "f4">>
MCPlain(id) == MCStill(id, {}, "", << >>)
MCFrame(at, cut, still) == [at |-> at, cut |-> cut, still |-> still]
MCSegment(from, to, said) == [from |-> from, to |-> to, said |-> said]
MCWords == <<MCSegment(0, 1, "stop"), MCSegment(3, 4, "go")>>

MCRecording(frames, claimed, stream, rate, words, pages) ==
  [frames |-> frames, claimed |-> claimed, stream |-> stream, rate |-> rate,
   words |-> words, pages |-> pages]

MCOther == MCRecording(<<MCFrame(0, FALSE, MCStill("q1", {"dog"}, "yard", << >>)),
                         MCFrame(1, TRUE, MCPlain("q2"))>>, 2, {2}, 1,
                       <<MCSegment(1, 2, "no")>>, {[page |-> 1, said |-> "other"]})
MCPair(r) == [a |-> r, b |-> MCOther]

\* Four frames at a steady or a halting pace, cuts anywhere, the stream's end and
\* rate told or not, a tail missing or not.
MCTimes == {<<0, 1, 2, 3>>, <<0, 2, 4, 6>>, <<0, 1, 4, 5>>}
MCCut ==
  {MCPair(MCRecording([i \in 1..4 |-> MCFrame(t[i], i \in cuts, MCPlain(MCIds[i]))],
                      t[4] + t[2] + missing, stream, rate, MCWords, {})) :
     <<t, cuts, missing, stream, rate>> \in
       {x \in MCTimes \X (SUBSET (2..4)) \X {0, 2} \X {{}, {5}, {6}, {4}, {8}} \X {0, 1, 2} :
          /\ x[4] \in {{}, {x[1][4] + x[1][2]}}
          /\ x[5] \in {0, x[1][2]}}}

\* What a camera burns into its frames, each sign with a reader's stamp.
MCd(n, v) == [k |-> "d", n |-> n, v |-> v]
MCs(k) == [k |-> k, n |-> 1, v |-> 0]
MCDate(y, m, d, s) == <<MCd(4, y), MCs(s), MCd(2, m), MCs(s), MCd(2, d), MCs(" ")>>
MCDay(x, y, s) == <<MCd(2, x), MCs(s), MCd(2, y), MCs(s), MCd(4, 2026), MCs(" ")>>
MCTime(h) == <<MCd(2, h), MCs(":"), MCd(2, 7), MCs(":"), MCd(2, 30)>>

MCGood == {MCDate(2026, 8, 19, "-"), MCDate(2026, 8, 19, "/"), MCDay(8, 19, "/"),
           MCDay(8, 19, "-"), MCDay(19, 8, "."), << >>}
MCBad == {MCDate(2026, 13, 19, "-"), MCDay(19, 8, "/"), MCDay(8, 19, ".")}
MCTail == {<< >>, <<MCs("."), MCd(3, 400)>>}
MCBefore == {<< >>, <<MCs("w"), MCs(" ")>>}
MCAfter == {<< >>, <<MCs(" "), MCs("w")>>}
MCSpan == {<<MCs("-")>>, <<MCs(" "), MCs("~"), MCs(" ")>>}

MCStamped ==
  {[signs |-> p \o d \o MCTime(21) \o f \o q, stamp |-> <<Len(p) + 1, Len(p \o d \o MCTime(21) \o f)>>] :
     <<p, d, f, q>> \in MCBefore \X MCGood \X MCTail \X MCAfter}
  \cup {[signs |-> MCTime(9) \o <<MCs(" "), MCs("AM")>> \o q, stamp |-> <<1, 7>>] : q \in MCAfter}
  \cup {[signs |-> MCDate(2026, 8, 19, "-") \o MCTime(9) \o z,
         stamp |-> <<1, 11 + Len(z)>>] :
          z \in {<<MCs("Z")>>, <<MCs("+"), MCd(4, 530)>>, <<MCs("-"), MCd(2, 5), MCs(":"), MCd(2, 30)>>}}
\* Spans end before and after the hour of the widest offset.
MCUnstamped ==
  {[signs |-> p \o d \o MCTime(21) \o f \o q, stamp |-> << >>] :
     <<p, d, f, q>> \in MCBefore \X MCBad \X MCTail \X MCAfter}
  \cup {[signs |-> d \o MCTime(21) \o f \o s \o e \o MCTime(h), stamp |-> << >>] :
          <<d, f, s, e, h>> \in
            MCGood \X MCTail \X MCSpan \X {<< >>, MCDate(2026, 8, 20, "-")} \X {13, 22}}
  \cup {[signs |-> MCTime(21) \o <<MCs("."), MCd(4, 1234)>>, stamp |-> << >>],
        [signs |-> MCTime(24), stamp |-> << >>], [signs |-> <<MCs("w")>>, stamp |-> << >>]}

MCOverlays ==
  {MCPair(MCRecording(<<MCFrame(0, FALSE, MCStill("p1", {"car", "man"}, "a street", <<o>>)),
                        MCFrame(1, TRUE, MCStill(second, {"car"}, "", << >>))>>,
                      2, {2}, 1, MCWords, {})) :
     o \in MCStamped \cup MCUnstamped, second \in {"p2"}}
  \cup {MCPair(MCRecording(<<MCFrame(0, FALSE, MCPlain("p")), MCFrame(1, TRUE, MCPlain("p"))>>,
                           2, {2}, 1, MCWords, {}))}

\* Three segments in the order of their starts: they may touch, overlap, or lie
\* within one another.
MCSpoken ==
  {MCPair(MCRecording(<< >>, 6, {}, 0, w, {})) :
     w \in {x \in {<<MCSegment(t[1], t[2], "one"), MCSegment(t[3], t[4], "two"),
                     MCSegment(t[5], t[6], "three")>> : t \in [1..6 -> 0..5]} :
              /\ \A i \in 1..3 : x[i].from < x[i].to
              /\ \A i \in 1..2 : x[i].from <= x[i + 1].from}}
  \cup {MCPair(MCRecording(<< >>, 6, {}, 0, << >>, {}))}

MCPages ==
  {MCPair(MCRecording(<< >>, 0, {}, 0, << >>, p)) :
     p \in {{[page |-> 1, said |-> "text"], [page |-> 2, said |-> "more"]}, {}}}

MCJob(kind, interval, dedup, gap, full) ==
  [kind |-> kind, asked |-> "a", interval |-> interval, dedup |-> dedup, gap |-> gap,
   overnight |-> full, vectors |-> full]

MCWorlds == MCCut \cup MCOverlays \cup MCSpoken \cup MCPages
MCJobs ==
  {MCJob("video", interval, dedup, 2, FALSE) : interval \in {0, 2, 3}, dedup \in {0, 2}}
  \cup {MCJob("video", 2, 0, 2, TRUE), MCJob("audio", 0, 0, 2, FALSE),
        MCJob("document", 0, 0, 0, FALSE)}

\* Each kind of job over the originals of its kind.
MCMatched ==
  \/ world \in MCCut /\ job.kind = "video" /\ ~job.overnight
  \/ world \in MCOverlays /\ job.overnight
  \/ world \in MCSpoken /\ job.kind = "audio"
  \/ world \in MCPages /\ job.kind = "document"
MCInit == JobInit /\ MCMatched
MCSpec == MCInit /\ [][JobNext]_jobVars
=============================================================================
