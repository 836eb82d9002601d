------------------------------ MODULE MCReview ------------------------------
(* Two cases in one file for TLC: a video of the first with two stills, the *)
(* same bytes under the other case, batches that clash over names, hashes   *)
(* and orientations, and one record a person authors.                       *)
EXTENDS CaseFile, TLC

CONSTANTS w1, w2, k1, k2, p1, p2, n1, none,
          v, f, g, u, cf, cg, cu, ed, eg, back, across, authored

MCSymmetry == Permutations(Connections)
MCCaseOf == p1 :> k1 @@ p2 :> k2 @@ n1 :> k1
MCRecords == {v, f, g, u, cf, cg, cu, ed, eg, back, across, authored}
MCLocated == {cf, cg, cu}

Hash(text, upper) == [text |-> text, upper |-> upper]
Passage(id, parent, speaker, machine, state) ==
  [id |-> id, parent |-> parent, speaker |-> speaker, machine |-> machine, state |-> state]
Source(id, production, hash, passages) ==
  [id |-> id, production |-> production, hash |-> hash, passages |-> passages]
Edge(id, from, to) == [id |-> id, from |-> from, to |-> to, relation |-> "derived_from"]
Batch(case, sources, edges) == [case |-> case, sources |-> sources, edges |-> edges]

MCFirst ==
  Batch(k1, <<Source(v, p1, Hash("video", FALSE), <<>>),
              Source(f, p1, Hash("still", FALSE), <<Passage(cf, none, none, TRUE, "suggested")>>)>>,
        <<Edge(ed, f, v)>>)

MCBatches ==
  {MCFirst,
   \* A second still, the video's hash spelled in capitals, under the first's passage.
   Batch(k1, <<Source(v, p1, Hash("video", TRUE), <<>>),
               Source(g, p1, Hash("other", FALSE), <<Passage(cg, cf, n1, FALSE, "verified")>>)>>,
         <<Edge(eg, g, v)>>),
   \* The video's name for other bytes, with a passage of theirs.
   Batch(k1, <<Source(v, p1, Hash("cut", FALSE), <<Passage(cg, none, none, TRUE, "suggested")>>)>>,
         <<>>),
   \* The other case: the same bytes, a passage that stands under itself, and an
   \* edge to the first case's still.
   Batch(k2, <<Source(u, p2, Hash("video", FALSE), <<Passage(cu, cu, none, FALSE, "unreviewed")>>)>>,
         <<>>),
   Batch(k2, <<>>, <<Edge(across, u, f)>>),
   \* The other case under a speaker and a production of the first; a machine
   \* that says its passage is reviewed; nothing at all.
   Batch(k2, <<Source(u, p2, Hash("still", FALSE), <<Passage(cu, cf, n1, FALSE, "reviewed")>>)>>,
         <<>>),
   Batch(k2, <<Source(u, p1, Hash("still", FALSE), <<>>)>>, <<>>),
   Batch(k1, <<Source(f, p1, Hash("still", FALSE), <<Passage(cf, none, none, TRUE, "reviewed")>>)>>,
         <<>>),
   Batch(k1, <<>>, <<>>),
   \* The pair of the first batch, the other way round.
   Batch(k1, <<>>, <<Edge(back, v, f)>>)}

Item(still, dim) == [still |-> still, model |-> "clip", dim |-> dim]
MCIndexes ==
  {[case |-> k1, items |-> <<Item(f, 2)>>], [case |-> k1, items |-> <<Item(g, 3)>>],
   [case |-> k1, items |-> <<Item(f, 2), Item(g, 2)>>],
   [case |-> k1, items |-> <<Item(f, 2), Item(g, 3)>>],
   [case |-> k1, items |-> <<Item(v, 2)>>], [case |-> k2, items |-> <<Item(f, 2)>>]}

\* Bounds: four transactions with one decision about the first derivation, or
\* one with three decisions about two records.
MCAllowances ==
  {[imports |-> 4, batches |-> MCBatches, decisions |-> 1, decidable |-> {ed}],
   [imports |-> 1, batches |-> {MCFirst}, decisions |-> 3, decidable |-> {cf, authored}]}
=============================================================================
