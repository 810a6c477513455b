------------------------------ MODULE MCEvents ------------------------------
(* The first line said puts a proposal; a replay sends two lines at most. *)
EXTENDS Events
MCAsks == {1}
=============================================================================
