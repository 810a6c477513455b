------------------------------- MODULE Goals -------------------------------
(***************************************************************************)
(* The goals the Keeper helps with: backend/tasks.py, the plan they start  *)
(* from (backend/planner.py), the tools that change them                   *)
(* (backend/native_tools.py) and the part of the proactive loop of         *)
(* backend/server.py that works one when its time has come.                *)
(*                                                                         *)
(* The loop takes up a goal, then waits: for a specialist that does the    *)
(* step with tools that change goals too, for the models that word what is *)
(* said.  Meanwhile the person reports steps, sets goals down and takes    *)
(* new ones on.                                                            *)
(*                                                                         *)
(* Times are kept as an order among the goals whose next_check_at has      *)
(* passed: which of two has waited longer.                                 *)
(***************************************************************************)
EXTENDS Integers, Sequences

CONSTANTS MaxGoals,    \* bound: goals taken on
          MaxSteps,    \* planner._MAX_STEPS
          Plans,       \* what a planner may draft: sequences of "keeper", "person", "blank"
          MaxCrashes   \* bound

ASSUME GoalsAssumption ==
  /\ MaxGoals \in Nat /\ MaxCrashes \in Nat /\ MaxSteps \in Nat \ {0}
  /\ Plans \subseteq Seq({"keeper", "person", "blank"})
  /\ \A plan \in Plans : Len(plan) <= MaxSteps

VARIABLES
  goal,     \* GoalStore.goals, and their file: each save writes them all
  due,      \* the ones whose time has come: <<g, h>> for g, and h that came no sooner
  loop,     \* the proactive loop: what it is at, with which goal and step
  dial,     \* whether the dial lets the Keeper take the initiative
  up, crashes,
  file,     \* what death leaves of the goals' file: "whole", or "cut" in a line
  moved     \* history: the goal under work was moved on by someone else meanwhile
vars == <<goal, due, loop, dial, up, crashes, file, moved>>

GoalIds == 1..MaxGoals
Unset   == [steps |-> <<>>, status |-> "none"]
Resting == [at |-> "top", goal |-> 0, step |-> 0]
Dead    == [Resting EXCEPT !.at = "dead"]
IsSet(g) == goal[g].status # "none"
\* next_step: the first that is not done, 0 when all are.
NextStep(s) == LET open == {i \in DOMAIN s : ~s[i].done} IN
               IF open = {} THEN 0 ELSE CHOOSE i \in open : \A j \in open : i <= j

Init ==
  /\ goal = [g \in GoalIds |-> Unset] /\ due = {} /\ loop = Resting /\ dial = TRUE
  /\ up = TRUE /\ crashes = 0 /\ file = "whole" /\ moved = FALSE

Waits(g) == <<g, g>> \in due
Joins(g) == due \cup {<<h, g>> : h \in {i \in GoalIds : Waits(i)} \cup {g}}
Later(g) == {w \in due : g \notin {w[1], w[2]}}

----------------------------------------------------------------------------
(* What the tools do, for the person's turn or for a specialist.           *)

\* plan: a draft, judged, and drafted anew if it is found wanting and that gives any.
Planned(draft, good, second) == IF good \/ second = <<>> THEN draft ELSE second
\* add: each line a step, a label with nothing after it none; with no plan at all, one
\* first small step, the person's.  A step keeps its line's number.
Steps(plan) ==
  LET lines == IF plan = <<>> THEN <<"person">> ELSE plan IN
  [i \in {j \in DOMAIN lines : lines[j] # "blank"} |-> [actor |-> lines[i], done |-> FALSE]]
SetsGoal ==
  /\ up
  /\ \E g \in GoalIds, draft, second \in Plans \cup {<<>>}, good \in BOOLEAN :
       /\ goal[g] = Unset /\ \A h \in 1..g - 1 : IsSet(h)
       /\ good => draft # <<>>
       /\ goal' = [goal EXCEPT ![g] =
            [steps |-> Steps(Planned(draft, good, second)), status |-> "active"]]
       /\ due' = Joins(g)
  /\ UNCHANGED <<loop, dial, up, crashes, file, moved>>

AdvancedM(g) ==                            \* mutation: the last step
  LET all == DOMAIN goal[g].steps
      n == CHOOSE i \in all : \A j \in all : j <= i IN
  [goal[g] EXCEPT !.steps[n].done = TRUE]
AdvancedM2(g) ==                           \* mutation: the last step does not end it
  [goal[g] EXCEPT !.steps[NextStep(goal[g].steps)].done = TRUE]
\* advance: the first open step is done, the next check is later; after the last the goal
\* is done.
Advanced(g) ==
  LET n == NextStep(goal[g].steps)
      steps == [goal[g].steps EXCEPT ![n].done = TRUE] IN
  [steps |-> steps,
   status |-> IF NextStep(steps) = 0 THEN "done" ELSE goal[g].status]
\* By the person in a turn, or by the specialist at work; a goal set down is found as well.
Reports(g) ==
  /\ up /\ IsSet(g) /\ NextStep(goal[g].steps) # 0
  /\ goal' = [goal EXCEPT ![g] = Advanced(g)]
  /\ due' = Later(g)
  /\ moved' = (moved \/ loop.goal = g)
  /\ UNCHANGED <<loop, dial, up, crashes, file>>
SetsDown(g) ==
  /\ up /\ goal[g].status = "active"
  /\ goal' = [goal EXCEPT ![g].status = "done"]
  /\ UNCHANGED <<due, loop, dial, up, crashes, file, moved>>

----------------------------------------------------------------------------
(* The loop.                                                               *)

Goes(l) == loop' = l /\ moved' = FALSE /\ UNCHANGED <<dial, up, crashes, file>>
Rested  == Goes(Resting)
\* Nothing was said: a routine may speak in its place.
Silent  == Rested \/ Goes(Dead)

\* GoalStore.due: of the active ones with a step open, the one waiting longest.
Ready(g) == /\ goal[g].status = "active" /\ NextStep(goal[g].steps) # 0
            /\ Waits(g)
Longest(g) == Ready(g) /\ \A h \in GoalIds : Ready(h) => <<g, h>> \in due
\* _maybe_advance_goal: the goal and the step are fixed here.
TakesUp ==
  /\ up /\ dial /\ loop.at = "top"
  /\ \E g \in GoalIds :
       LET n == NextStep(goal[g].steps) IN
       /\ Longest(g)
       /\ Goes([at |-> IF goal[g].steps[n].actor = "keeper" THEN "working" ELSE "nudging",
                goal |-> g, step |-> n])
  /\ UNCHANGED <<goal, due>>

\* No goal is due: a routine may speak.  Its model may fail, and that, like a nudge's,
\* nothing catches.
Routine ==
  /\ up /\ dial /\ loop.at = "top" /\ \A g \in GoalIds : ~Ready(g)
  /\ Goes(Dead)
  /\ UNCHANGED <<goal, due>>

\* _nudge_goal_step: said or not, the next check is later.
Nudges ==
  /\ up /\ loop.at = "nudging"
  /\ \/ Silent /\ due' = Later(loop.goal)
     \/ Goes(Dead) /\ UNCHANGED due
  /\ UNCHANGED goal

\* _execute_goal_step: the specialist fails, or finds nothing and the step becomes the
\* person's, or has something, which is then worded.
FailsM == UNCHANGED due                    \* mutation: it is tried again at once
Fails  == due' = Later(loop.goal)
Works ==
  /\ up /\ loop.at = "working"
  /\ \/ Silent /\ Fails /\ UNCHANGED goal
     \/ /\ Silent /\ due' = Later(loop.goal)
        /\ goal' = [goal EXCEPT ![loop.goal].steps[loop.step].actor = "person"]
     \/ /\ loop' = [loop EXCEPT !.at = "wording"]
        /\ UNCHANGED <<goal, due, moved, dial, up, crashes, file>>
\* Then the goal's first open step is marked done, whichever that is by now.
Records ==
  /\ up /\ loop.at = "wording"
  /\ LET g == loop.goal  n == NextStep(goal[g].steps) IN
     /\ goal' = IF n = 0 THEN goal ELSE [goal EXCEPT ![g] = Advanced(g)]
     /\ due' = IF n = 0 THEN due ELSE Later(g)
  /\ Rested

----------------------------------------------------------------------------
(* Time, the dial, death and start.                                        *)

Comes(g) ==
  /\ up /\ IsSet(g) /\ ~Waits(g)
  /\ goal[g].status = "active" /\ NextStep(goal[g].steps) # 0
  /\ due' = Joins(g)
  /\ UNCHANGED <<goal, loop, dial, up, crashes, file, moved>>
TurnsDial ==
  /\ up /\ dial' = ~dial
  /\ UNCHANGED <<goal, due, loop, up, crashes, file, moved>>
\* Each save empties the file and writes it: death in one leaves the first lines of it, or
\* none, or a line cut short, which no start can read until someone mends it.
Dies ==
  /\ up /\ crashes < MaxCrashes /\ crashes' = crashes + 1
  /\ up' = FALSE /\ loop' = Resting /\ moved' = FALSE
  /\ \/ \E kept \in 0..MaxGoals :
          LET Kept(g) == g <= kept IN
          /\ goal' = [g \in GoalIds |-> IF Kept(g) THEN goal[g] ELSE Unset]
          /\ due' = {w \in due : Kept(w[1]) /\ Kept(w[2])} /\ UNCHANGED file
     \/ file' = "cut" /\ UNCHANGED <<goal, due>>
  /\ UNCHANGED dial
Starts ==
  /\ ~up /\ file = "whole" /\ up' = TRUE
  /\ UNCHANGED <<goal, due, loop, dial, crashes, file, moved>>

Turn == SetsGoal \/ \E g \in GoalIds : Reports(g) \/ SetsDown(g)
Loop == TakesUp \/ Nudges \/ Works \/ Records
Next == Turn \/ Loop \/ Routine \/ TurnsDial \/ Dies \/ Starts \/ \E g \in GoalIds : Comes(g)
Spec == Init /\ [][Next]_vars
FairSpec == Spec /\ WF_vars(Loop) /\ WF_vars(Starts)

----------------------------------------------------------------------------
(* Properties.                                                             *)

\* Type invariant.  What is done of a goal is its first steps, a goal with a step open is
\* the only one still active (but for one whose plan held no step at all), the step the
\* loop is at is one of the goal's, and of any two goals one has waited longer.
Step     == [actor : {"keeper", "person"}, done : BOOLEAN]
StepList == UNION {[lines -> Step] : lines \in SUBSET (1..MaxSteps)}
TypeOK ==
  /\ goal \in [GoalIds -> [steps : StepList, status : {"none", "active", "done"}]]
  /\ \A g \in GoalIds :
       /\ goal[g] = Unset => ~Waits(g)
       /\ \A i, j \in DOMAIN goal[g].steps :
            i < j /\ goal[g].steps[j].done => goal[g].steps[i].done
       /\ goal[g].status = "active" /\ goal[g].steps # <<>> => NextStep(goal[g].steps) # 0
  /\ due \subseteq GoalIds \X GoalIds
  /\ \A g, h \in GoalIds :
       /\ <<g, h>> \in due => Waits(g) /\ Waits(h)
       /\ Waits(g) /\ Waits(h) /\ g # h => (<<g, h>> \in due <=> <<h, g>> \notin due)
  /\ loop \in [at : {"top", "nudging", "working", "wording", "dead"},
              goal : 0..MaxGoals, step : Nat]
  /\ loop.at \in {"nudging", "working", "wording"} =>
       loop.goal # 0 /\ loop.step \in DOMAIN goal[loop.goal].steps
  /\ dial \in BOOLEAN /\ up \in BOOLEAN /\ moved \in BOOLEAN
  /\ crashes \in 0..MaxCrashes /\ file \in {"whole", "cut"}

\* The specialist's work is recorded on the step it was given, across everything that the
\* person's turns do while it works; only when that goal was itself moved on meanwhile,
\* by a turn or by the specialist, may it be recorded on the step after (server.py
\* _execute_goal_step, GoalStore.advance).
RecordedWhereWorked == [][
  loop.at = "wording" /\ loop'.at = "top" /\ up' =>
    \A g \in GoalIds : \A i \in DOMAIN goal[g].steps :
      goal'[g].steps[i].done # goal[g].steps[i].done =>
        g = loop.goal /\ (moved \/ i = loop.step)]_vars

\* A goal whose time has come is taken up and put off again, moved on or set down,
\* whatever becomes of the others': one whose specialist fails each time does not keep the
\* others from theirs.  Unless the Keeper is told to keep quiet, its loop is gone, or its
\* file cannot be read (GoalStore.due, touch, server.py _maybe_advance_goal).
Tended == \A g \in GoalIds :
  Ready(g) ~> (~Ready(g) \/ ~dial \/ loop.at = "dead" \/ file = "cut")
=============================================================================
