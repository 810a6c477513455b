------------------------------ MODULE MCGoals ------------------------------
(* Two goals; plans of one actor, of both, and of a label alone.           *)
EXTENDS Goals
MCPlans == {<<"keeper">>, <<"keeper", "person">>, <<"person", "keeper">>, <<"blank">>}
============================================================================
