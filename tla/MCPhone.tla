------------------------------ MODULE MCPhone ------------------------------
(* One card, and what is sent around it.                                   *)
EXTENDS Phone
CONSTANT p1
MCProposals == {p1}
============================================================================
