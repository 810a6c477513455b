------------------------------ MODULE MCVoice ------------------------------
(* Scores under the floor, on it, and clear of that by the margin; a       *)
(* headline of three names and one that says a name three times, a plain   *)
(* sentence with a name and two numbers, one found in the other; a name    *)
(* inside another word, one inside a link; a link that starts another, and *)
(* a made up one between the two; all grades 2, and one beyond the scale.  *)
EXTENDS Voice
CONSTANTS warmer
MCScores    == {14, 15, 18}
MCSentences ==
  {[names |-> {"Slow", "Water", "Studio"}, nums |-> {}, capitals |-> 3, words |-> 5],
   [names |-> {"Sam"}, nums |-> {"3", "3:15"}, capitals |-> 1, words |-> 5],
   [names |-> {"Water"}, nums |-> {}, capitals |-> 3, words |-> 5]}
MCWords     == {"three", "same"}
MCLinks     == {"/s", "/studio"}
MCForeign   == {"/stu"}
MCWithin    == {<<"3", "3:15">>, <<"3", "three">>, <<"Sam", "same">>, <<"Studio", "/studio">>,
                <<"/s", "/stu">>, <<"/s", "/studio">>, <<"/stu", "/studio">>}
MCGraded    == {[d \in Heavy \cup Light |-> 2],
                [d \in Heavy \cup Light |-> IF d = "flat_declarative" THEN 9 ELSE 1]}
============================================================================
