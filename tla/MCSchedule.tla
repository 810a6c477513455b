----------------------------- MODULE MCSchedule -----------------------------
(* Units of a few hours; time 3 falls on a weekend. *)
EXTENDS Schedule
MCRecurrences    == {Once, [kind |-> "every", step |-> 2]}
MCJobRecurrences == {Once, [kind |-> "weekdays", step |-> 0]}
=============================================================================
