------------------------------ MODULE MCMemory ------------------------------
(* Two threads over one topic, so that every two texts meet; an empty      *)
(* store, or one where the topic turned once already.                      *)
EXTENDS Memory, TLC
CONSTANTS work, was, now
MCTopics == {work}
MCVals   == {was, now}
Told(val, live, old) ==
  [topic |-> work, val |-> val, kind |-> "word", live |-> live, vec |-> TRUE,
   replaces |-> old, warmed |-> FALSE]
MCLeft   == {<<>>, <<Told(was, FALSE, 0), Told(now, TRUE, 1)>>}
Symmetry == Permutations(Threads)
=============================================================================
