----------------------------- MODULE MCOutreach -----------------------------
(* One item, again and again in what is fetched: it bears on the first thing *)
(* learnt, until the second is.                                              *)
EXTENDS Outreach
CONSTANT a
MCLevels   == {"off", "quiet", "usual"}
MCCeiling  == [l \in MCLevels |-> IF l = "quiet" THEN 1 ELSE 2]
MCCooldown == [l \in MCLevels |-> IF l = "quiet" THEN 3 ELSE 1]
MCItems    == {a}
MCWorth    == {<<a, 1>>}
=============================================================================
