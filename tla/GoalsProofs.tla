----------------------------- MODULE GoalsProofs -----------------------------
(***************************************************************************)
(* Proofs about Goals, for any number of goals, steps and crashes and any  *)
(* plans.                                                                  *)
(***************************************************************************)
EXTENDS Goals, WellFoundedInduction, TLAPS

----------------------------------------------------------------------------
(* The steps of a goal.                                                    *)

\* Any set of numbers has a least one.
Below == {pair \in Nat \X Nat : pair[1] < pair[2]}
LEMMA LeastNatural ==
  ASSUME NEW S \in SUBSET Nat, S # {}
  PROVE  \E x \in S : \A y \in S : x <= y
<1>1. IsWellFoundedOn(Below, Nat)
  BY NatLessThanWellFounded DEF OpToRel, Below
<1>2. PICK x \in S : \A y \in S : <<y, x>> \notin Below
  BY <1>1, WFMin
<1>3. \A m, n \in Nat : m < n => <<m, n>> \in Below
  BY DEF Below
<1>4. \A y \in S : x \in Nat /\ y \in Nat /\ ~(y < x)
  BY <1>2, <1>3
<1>5. \A y \in S : x <= y
  BY <1>4
<1>6. QED BY <1>5

LEMMA StepListIs ==
  /\ \A s \in StepList : DOMAIN s \subseteq 1..MaxSteps /\ s \in [DOMAIN s -> Step]
  /\ \A s : DOMAIN s \subseteq 1..MaxSteps /\ s \in [DOMAIN s -> Step] => s \in StepList
<1>1. ASSUME NEW s \in StepList
      PROVE  DOMAIN s \subseteq 1..MaxSteps /\ s \in [DOMAIN s -> Step]
  <2>1. PICK lines \in SUBSET (1..MaxSteps) : s \in [lines -> Step]
    BY DEF StepList
  <2>2. QED BY <2>1
<1>2. ASSUME NEW s, DOMAIN s \subseteq 1..MaxSteps, s \in [DOMAIN s -> Step]
      PROVE  s \in StepList
  BY <1>2 DEF StepList
<1>3. QED BY <1>1, <1>2

\* next_step finds the first open step, if there is one.
LEMMA FirstOpen ==
  ASSUME NEW s \in StepList
  PROVE  LET n == NextStep(s) IN
         /\ n \in Nat
         /\ n # 0 => /\ n \in DOMAIN s /\ ~s[n].done
                     /\ \A j \in DOMAIN s : j < n => s[j].done
         /\ n = 0 => \A j \in DOMAIN s : s[j].done
<1> DEFINE open == {i \in DOMAIN s : ~s[i].done}
<1>1. MaxSteps \in Nat
  BY GoalsAssumption
<1>2. open \in SUBSET Nat /\ 0 \notin open /\ open \subseteq DOMAIN s
  BY <1>1, StepListIs
<1>3. NextStep(s) = IF open = {} THEN 0 ELSE CHOOSE i \in open : \A j \in open : i <= j
  BY DEF NextStep
<1>4. \A j \in DOMAIN s : j \notin open => s[j].done
  OBVIOUS
<1>5. \A j \in open : ~s[j].done
  OBVIOUS
<1> HIDE DEF open
<1>6. CASE open = {}
  BY <1>3, <1>4, <1>6
<1>7. CASE open # {}
  <2>1. \E i \in open : \A j \in open : i <= j
    BY <1>2, <1>7, LeastNatural
  <2>2. PICK n : n = NextStep(s) /\ n \in open /\ \A j \in open : n <= j
    BY <1>3, <1>7, <2>1
  <2>3. ASSUME NEW j \in DOMAIN s, j < n
        PROVE  s[j].done
    <3>1. j \in Nat /\ n \in Nat
      BY <1>1, <1>2, <2>2, StepListIs
    <3>2. j \notin open
      BY <2>2, <2>3, <3>1
    <3>3. QED BY <1>4, <3>2
  <2>4. QED BY <1>2, <1>5, <2>2, <2>3
<1>8. QED BY <1>6, <1>7

\* What is done is the first steps; what is open keeps a goal active.
Ordered(s) == \A i, j \in DOMAIN s : i < j /\ s[j].done => s[i].done
GoalOK(r) ==
  /\ r \in [steps : StepList, status : {"none", "active", "done"}]
  /\ Ordered(r.steps)
  /\ r.status = "active" /\ r.steps # <<>> => NextStep(r.steps) # 0

LEMMA UnsetOK == GoalOK(Unset) /\ Unset.steps = <<>> /\ Unset.status = "none"
<1>1. <<>> \in StepList
  <2>1. DOMAIN <<>> = {} /\ <<>> \in [{} -> Step]
    OBVIOUS
  <2>2. QED BY <2>1 DEF StepList
<1>2. QED BY <1>1 DEF GoalOK, Unset, Ordered

\* A new goal has all its steps before it.
LEMMA StepsOK ==
  ASSUME NEW plan \in Plans \cup {<<>>}
  PROVE  GoalOK([steps |-> Steps(plan), status |-> "active"])
<1>1. PICK lines : lines = IF plan = <<>> THEN <<"person">> ELSE plan
  OBVIOUS
<1>2. lines \in Seq({"keeper", "person", "blank"}) /\ DOMAIN lines \subseteq 1..MaxSteps
  <2>1. MaxSteps \in Nat \ {0}
    BY GoalsAssumption
  <2>2. CASE plan = <<>>
    BY <1>1, <2>1, <2>2
  <2>3. CASE plan # <<>>
    <3>1. plan \in Seq({"keeper", "person", "blank"}) /\ Len(plan) <= MaxSteps
      BY <2>3, GoalsAssumption
    <3>2. QED BY <1>1, <2>1, <2>3, <3>1
  <2>4. QED BY <2>2, <2>3
<1>3. PICK worded : worded = {j \in DOMAIN lines : lines[j] # "blank"}
  OBVIOUS
<1>4. Steps(plan) = [i \in worded |-> [actor |-> lines[i], done |-> FALSE]]
  BY <1>1, <1>3 DEF Steps
<1>5. \A i \in worded : lines[i] \in {"keeper", "person"}
  BY <1>2, <1>3
<1>6. /\ Steps(plan) \in [worded -> Step] /\ DOMAIN Steps(plan) = worded
      /\ \A i \in worded : ~Steps(plan)[i].done
  BY <1>4, <1>5 DEF Step
<1>7. Steps(plan) \in StepList
  BY <1>2, <1>3, <1>6, StepListIs
<1>8. NextStep(Steps(plan)) = 0 => Steps(plan) = <<>>
  <2> SUFFICES ASSUME NextStep(Steps(plan)) = 0 PROVE Steps(plan) = <<>>
    OBVIOUS
  <2>1. worded = {}
    BY <1>6, <1>7, FirstOpen
  <2>2. QED BY <1>6, <2>1
<1>9. QED BY <1>6, <1>7, <1>8 DEF GoalOK, Ordered

\* advance: the first open step is done, and nothing else; after the last the goal is.
LEMMA AdvancedOK ==
  ASSUME NEW g \in GoalIds, GoalOK(goal[g]), NextStep(goal[g].steps) # 0
  PROVE  /\ GoalOK(Advanced(g))
         /\ DOMAIN Advanced(g).steps = DOMAIN goal[g].steps
         /\ goal[g].status # "none" => Advanced(g).status # "none"
         /\ \A i \in DOMAIN goal[g].steps :
              i # NextStep(goal[g].steps) => Advanced(g).steps[i] = goal[g].steps[i]
<1>1. PICK s, n : s \in StepList /\ s = goal[g].steps /\ n = NextStep(s)
  BY DEF GoalOK
<1>2. PICK t : t = [s EXCEPT ![n].done = TRUE]
  OBVIOUS
<1>3. Advanced(g) = [steps |-> t, status |-> IF NextStep(t) = 0 THEN "done" ELSE goal[g].status]
  BY <1>1, <1>2 DEF Advanced
<1>4. /\ n \in DOMAIN s /\ ~s[n].done /\ n \in Nat
      /\ \A j \in DOMAIN s : j < n => s[j].done
  BY <1>1, FirstOpen
<1>5. DOMAIN s \subseteq 1..MaxSteps /\ s \in [DOMAIN s -> Step] /\ MaxSteps \in Nat
  BY <1>1, StepListIs, GoalsAssumption
<1>6. /\ t \in [DOMAIN s -> Step] /\ DOMAIN t = DOMAIN s /\ t[n].done
      /\ \A i \in DOMAIN s : i # n => t[i] = s[i]
  BY <1>2, <1>4, <1>5 DEF Step
<1>7. t \in StepList
  BY <1>5, <1>6, StepListIs
<1>8. Ordered(t)
  <2> SUFFICES ASSUME NEW i \in DOMAIN s, NEW j \in DOMAIN s, i < j, t[j].done
               PROVE  t[i].done
    BY <1>6 DEF Ordered
  <2>1. CASE j = n
    BY <1>4, <1>6, <2>1
  <2>2. CASE j # n
    <3>1. s[i].done
      BY <1>1, <1>6, <2>2 DEF GoalOK, Ordered
    <3>2. QED BY <1>4, <1>6, <3>1
  <2>3. QED BY <2>1, <2>2
<1>9. goal[g].status \in {"none", "active", "done"}
  BY DEF GoalOK
<1>10. QED BY <1>1, <1>3, <1>6, <1>7, <1>8, <1>9 DEF GoalOK

----------------------------------------------------------------------------
(* The inductive invariant.                                                *)

GoalsOK == DOMAIN goal = GoalIds /\ goal = [g \in GoalIds |-> goal[g]]
           /\ \A g \in GoalIds : GoalOK(goal[g])
OrderOK ==
  /\ due \subseteq GoalIds \X GoalIds
  /\ \A g, h \in GoalIds :
       /\ <<g, h>> \in due => Waits(g) /\ Waits(h)
       /\ Waits(g) /\ Waits(h) /\ g # h => (<<g, h>> \in due <=> <<h, g>> \notin due)
OnlySetWait == \A g \in GoalIds : goal[g] = Unset => ~Waits(g)

Busy == {"nudging", "working", "wording"}
LoopOK ==
  /\ loop \in [at : {"top", "dead"} \cup Busy, goal : 0..MaxGoals, step : Nat]
  /\ loop.at \in Busy => loop.goal # 0 /\ loop.step \in DOMAIN goal[loop.goal].steps
\* Nobody moved the goal on: its first open step is the one the loop is at.
Aligned == loop.at \in Busy /\ ~moved => NextStep(goal[loop.goal].steps) = loop.step
RestOK ==
  /\ dial \in BOOLEAN /\ up \in BOOLEAN /\ moved \in BOOLEAN
  /\ crashes \in 0..MaxCrashes /\ file \in {"whole", "cut"}

Inv == GoalsOK /\ OrderOK /\ OnlySetWait /\ LoopOK /\ Aligned /\ RestOK

LEMMA InvTypes == Inv => TypeOK
<1> SUFFICES ASSUME Inv PROVE TypeOK
  OBVIOUS
<1>1. goal \in [GoalIds -> [steps : StepList, status : {"none", "active", "done"}]]
  BY DEF Inv, GoalsOK, GoalOK
<1>2. \A g \in GoalIds : Ordered(goal[g].steps)
  BY DEF Inv, GoalsOK, GoalOK
<1>3. \A g \in GoalIds :
        goal[g].status = "active" /\ goal[g].steps # <<>> => NextStep(goal[g].steps) # 0
  BY DEF Inv, GoalsOK, GoalOK
<1>4. QED BY <1>1, <1>2, <1>3
          DEF Inv, OrderOK, OnlySetWait, LoopOK, Busy, RestOK, TypeOK, Ordered

LEMMA InitInv == Init => Inv
<1> SUFFICES ASSUME Init PROVE Inv
  OBVIOUS
<1>1. GoalsOK
  BY UnsetOK DEF Init, GoalsOK
<1>2. OrderOK /\ OnlySetWait
  BY DEF Init, OrderOK, OnlySetWait, Waits
<1>3. LoopOK /\ Aligned
  BY GoalsAssumption DEF Init, Resting, LoopOK, Aligned, Busy
<1>4. RestOK
  <2>1. MaxCrashes \in Nat
    BY GoalsAssumption
  <2>2. 0 \in 0..MaxCrashes
    BY <2>1
  <2>3. QED BY <2>2 DEF Init, RestOK
<1>5. QED BY <1>1, <1>2, <1>3, <1>4 DEF Inv

----------------------------------------------------------------------------
(* The order.                                                              *)

LEMMA JoinsOK ==
  ASSUME OrderOK, NEW g \in GoalIds, ~Waits(g), due' = Joins(g)
  PROVE  OrderOK' /\ \A h \in GoalIds : Waits(h)' <=> (Waits(h) \/ h = g)
<1>1. \A h, i \in GoalIds :
        <<h, i>> \in due' <=> (<<h, i>> \in due \/ (i = g /\ (Waits(h) \/ h = g)))
  BY DEF Joins
<1>2. \A h \in GoalIds : <<h, h>> \in due' <=> (<<h, h>> \in due \/ h = g)
  BY <1>1 DEF Waits
<1>3. due' \subseteq GoalIds \X GoalIds
  BY DEF Joins, OrderOK
<1>4. ASSUME NEW h \in GoalIds, NEW i \in GoalIds
      PROVE  /\ <<h, i>> \in due' => Waits(h)' /\ Waits(i)'
             /\ Waits(h)' /\ Waits(i)' /\ h # i => (<<h, i>> \in due' <=> <<i, h>> \notin due')
  BY <1>1, <1>2 DEF OrderOK, Waits
<1>5. QED BY <1>2, <1>3, <1>4 DEF OrderOK, Waits

LEMMA LaterOK ==
  ASSUME OrderOK, NEW g, due' = Later(g)
  PROVE  OrderOK' /\ \A h \in GoalIds : Waits(h)' => Waits(h)
<1>1. \A h, i \in GoalIds : <<h, i>> \in due' <=> (<<h, i>> \in due /\ g # h /\ g # i)
  BY DEF Later
<1>2. due' \subseteq GoalIds \X GoalIds
  BY DEF Later, OrderOK
<1>3. QED BY <1>1, <1>2 DEF OrderOK, Waits

\* The part of an order that a file still holds is an order.
LEMMA KeptOK ==
  ASSUME OrderOK, NEW kept \in Nat, due' = {w \in due : w[1] <= kept /\ w[2] <= kept}
  PROVE  OrderOK' /\ \A h \in GoalIds : Waits(h)' => Waits(h) /\ h <= kept
<1>1. \A h, i \in GoalIds : <<h, i>> \in due' <=> (<<h, i>> \in due /\ h <= kept /\ i <= kept)
  OBVIOUS
<1>2. due' \subseteq GoalIds \X GoalIds
  BY DEF OrderOK
<1>3. QED BY <1>1, <1>2 DEF OrderOK, Waits

----------------------------------------------------------------------------
(* The steps.                                                              *)

\* One goal changes.
LEMMA GoalMoves ==
  ASSUME GoalsOK, NEW g \in GoalIds, NEW r, GoalOK(r), goal' = [goal EXCEPT ![g] = r]
  PROVE  GoalsOK' /\ goal'[g] = r /\ \A h \in GoalIds \ {g} : goal'[h] = goal[h]
<1>1. DOMAIN goal' = GoalIds /\ goal' = [h \in GoalIds |-> goal'[h]]
  BY DEF GoalsOK
<1>2. goal'[g] = r /\ \A h \in GoalIds \ {g} : goal'[h] = goal[h]
  BY DEF GoalsOK
<1>3. \A h \in GoalIds : GoalOK(goal'[h])
  BY <1>2 DEF GoalsOK
<1>4. QED BY <1>1, <1>2, <1>3 DEF GoalsOK

LEMMA SetsGoalStep == ASSUME Inv, SetsGoal PROVE Inv'
<1>1. PICK g, r :
        /\ g \in GoalIds /\ goal[g] = Unset /\ GoalOK(r) /\ r.status = "active"
        /\ goal' = [goal EXCEPT ![g] = r] /\ due' = Joins(g)
  <2>1. PICK g \in GoalIds, draft \in Plans \cup {<<>>}, second \in Plans \cup {<<>>},
             good \in BOOLEAN :
          /\ goal[g] = Unset
          /\ goal' = [goal EXCEPT ![g] =
               [steps |-> Steps(Planned(draft, good, second)), status |-> "active"]]
          /\ due' = Joins(g)
    BY DEF SetsGoal
  <2>2. Planned(draft, good, second) \in Plans \cup {<<>>}
    BY DEF Planned
  <2>3. QED BY <2>1, <2>2, StepsOK
<1>2. UNCHANGED <<loop, dial, up, crashes, file, moved>>
  BY DEF SetsGoal
<1>3. GoalsOK' /\ goal'[g] = r /\ \A h \in GoalIds \ {g} : goal'[h] = goal[h]
  BY <1>1, GoalMoves DEF Inv
<1>4. OrderOK' /\ \A h \in GoalIds : Waits(h)' <=> (Waits(h) \/ h = g)
  BY <1>1, JoinsOK DEF Inv, OnlySetWait
<1>5. OnlySetWait'
  BY <1>1, <1>3, <1>4, UnsetOK DEF Inv, OnlySetWait
<1>6. loop.at \in Busy => loop.goal \in GoalIds \ {g}
  <2>1. MaxGoals \in Nat
    BY GoalsAssumption
  <2>2. loop.at \in Busy => loop.goal \in GoalIds
    BY <2>1 DEF Inv, LoopOK, GoalIds
  <2>3. loop.at \in Busy => goal[loop.goal].steps # <<>>
    BY DEF Inv, LoopOK
  <2>4. QED BY <1>1, <2>2, <2>3, UnsetOK
<1>7. LoopOK' /\ Aligned' /\ RestOK'
  BY <1>2, <1>3, <1>6 DEF Inv, LoopOK, Aligned, RestOK
<1>8. QED BY <1>3, <1>4, <1>5, <1>7 DEF Inv

\* The goal that the loop is at is one that was set.
LEMMA BusyWith ==
  ASSUME Inv, loop.at \in Busy
  PROVE  loop.goal \in GoalIds /\ goal[loop.goal].steps # <<>> /\ goal[loop.goal] # Unset
<1>1. MaxGoals \in Nat
  BY GoalsAssumption
<1>2. loop.goal \in GoalIds
  BY <1>1 DEF Inv, LoopOK, GoalIds
<1>3. goal[loop.goal].steps # <<>>
  BY DEF Inv, LoopOK
<1>4. QED BY <1>2, <1>3, UnsetOK

LEMMA ReportsStep == ASSUME Inv, NEW g \in GoalIds, Reports(g) PROVE Inv'
<1>1. PICK r : r = Advanced(g)
  OBVIOUS
<1>2. /\ IsSet(g) /\ NextStep(goal[g].steps) # 0
      /\ goal' = [goal EXCEPT ![g] = r] /\ due' = Later(g)
      /\ moved' = (moved \/ loop.goal = g)
      /\ UNCHANGED <<loop, dial, up, crashes, file>>
  BY <1>1 DEF Reports
<1>3. GoalOK(r) /\ DOMAIN r.steps = DOMAIN goal[g].steps /\ r # Unset
  BY <1>1, <1>2, AdvancedOK, UnsetOK DEF Inv, GoalsOK, IsSet
<1>4. GoalsOK' /\ goal'[g] = r /\ \A h \in GoalIds \ {g} : goal'[h] = goal[h]
  BY <1>2, <1>3, GoalMoves DEF Inv
<1>5. OrderOK' /\ \A h \in GoalIds : Waits(h)' => Waits(h)
  BY <1>2, LaterOK DEF Inv
<1>6. OnlySetWait'
  BY <1>3, <1>4, <1>5 DEF Inv, OnlySetWait
<1>7. LoopOK'
  BY <1>2, <1>3, <1>4, BusyWith DEF Inv, LoopOK
<1>8. Aligned'
  BY <1>2, <1>4, BusyWith DEF Inv, Aligned
<1>9. moved' \in BOOLEAN
  BY <1>2 DEF Inv, RestOK
<1>10. RestOK'
  BY <1>2, <1>9 DEF Inv, RestOK
<1>11. QED BY <1>4, <1>5, <1>6, <1>7, <1>8, <1>10 DEF Inv

LEMMA SetsDownStep == ASSUME Inv, NEW g \in GoalIds, SetsDown(g) PROVE Inv'
<1>1. PICK r : r = [goal[g] EXCEPT !.status = "done"]
  OBVIOUS
<1>2. /\ goal' = [goal EXCEPT ![g] = r]
      /\ UNCHANGED <<due, loop, dial, up, crashes, file, moved>>
  BY <1>1 DEF SetsDown, Inv, GoalsOK
<1>3. GoalOK(r) /\ r.steps = goal[g].steps /\ r # Unset
  <2>1. goal[g] \in [steps : StepList, status : {"none", "active", "done"}]
    BY DEF Inv, GoalsOK, GoalOK
  <2>2. /\ r \in [steps : StepList, status : {"none", "active", "done"}]
        /\ r.steps = goal[g].steps /\ r.status = "done"
    BY <1>1, <2>1
  <2>3. QED BY <2>2, UnsetOK DEF Inv, GoalsOK, GoalOK
<1>4. GoalsOK' /\ goal'[g] = r /\ \A h \in GoalIds \ {g} : goal'[h] = goal[h]
  BY <1>2, <1>3, GoalMoves DEF Inv
<1>5. OrderOK' /\ \A h \in GoalIds : Waits(h)' <=> Waits(h)
  BY <1>2 DEF Inv, OrderOK, Waits
<1>6. OnlySetWait'
  BY <1>3, <1>4, <1>5 DEF Inv, OnlySetWait
<1>7. LoopOK' /\ Aligned' /\ RestOK'
  BY <1>2, <1>3, <1>4, BusyWith DEF Inv, LoopOK, Aligned, RestOK
<1>8. QED BY <1>4, <1>5, <1>6, <1>7 DEF Inv

\* The loop moves, and the goals and their order do not.
LEMMA LoopMoves ==
  ASSUME Inv, UNCHANGED <<dial, up, crashes, file>>, moved' = FALSE,
         UNCHANGED goal, due' = due \/ \E g : due' = Later(g), LoopOK', Aligned'
  PROVE  Inv'
<1>1. GoalsOK'
  BY DEF Inv, GoalsOK
<1>2. OrderOK' /\ \A h \in GoalIds : Waits(h)' => Waits(h)
  <2>1. CASE due' = due
    BY <2>1 DEF Inv, OrderOK, Waits
  <2>2. QED BY <2>1, LaterOK DEF Inv
<1>3. OnlySetWait'
  BY <1>2 DEF Inv, OnlySetWait
<1>4. RestOK'
  BY DEF Inv, RestOK
<1>5. QED BY <1>1, <1>2, <1>3, <1>4 DEF Inv

LEMMA AtRest ==
  ASSUME loop' \in {Resting, Dead}
  PROVE  LoopOK' /\ Aligned'
<1>1. MaxGoals \in Nat
  BY GoalsAssumption
<1>2. loop'.at \in {"top", "dead"} /\ loop'.goal = 0 /\ loop'.step = 0
  BY DEF Resting, Dead
<1>3. loop' \in [at : {"top", "dead"} \cup Busy, goal : 0..MaxGoals, step : Nat]
  BY <1>1 DEF Resting, Dead
<1>4. QED BY <1>2, <1>3 DEF LoopOK, Aligned, Busy

LEMMA TakesUpStep == ASSUME Inv, TakesUp PROVE Inv'
<1>1. PICK g \in GoalIds, at \in {"working", "nudging"} :
        /\ Longest(g)
        /\ loop' = [at |-> at, goal |-> g, step |-> NextStep(goal[g].steps)]
        /\ UNCHANGED <<dial, up, crashes, file, goal, due>> /\ moved' = FALSE
  BY DEF TakesUp, Goes
<1>2. NextStep(goal[g].steps) # 0
  BY <1>1 DEF Longest, Ready
<1>3. NextStep(goal[g].steps) \in DOMAIN goal[g].steps /\ NextStep(goal[g].steps) \in Nat
  BY <1>2, FirstOpen DEF Inv, GoalsOK, GoalOK
<1>4. g # 0 /\ g \in 0..MaxGoals
  BY GoalsAssumption DEF GoalIds
<1>5. LoopOK' /\ Aligned'
  BY <1>1, <1>3, <1>4 DEF LoopOK, Aligned, Busy
<1>6. QED BY <1>1, <1>5, LoopMoves

LEMMA NudgesStep == ASSUME Inv, Nudges \/ Routine PROVE Inv'
<1>1. /\ loop' \in {Resting, Dead} /\ moved' = FALSE
      /\ UNCHANGED <<dial, up, crashes, file, goal>>
      /\ due' = due \/ \E g : due' = Later(g)
  BY DEF Nudges, Routine, Silent, Rested, Goes
<1>2. QED BY <1>1, AtRest, LoopMoves

\* The step becomes the person's: which is the first open one does not change.
First(open) == IF open = {} THEN 0 ELSE CHOOSE i \in open : \A j \in open : i <= j
LEMMA HandedOver ==
  ASSUME Inv, loop.at \in Busy,
         goal' = [goal EXCEPT ![loop.goal].steps[loop.step].actor = "person"],
         due' = Later(loop.goal), loop' \in {Resting, Dead}, moved' = FALSE,
         UNCHANGED <<dial, up, crashes, file>>
  PROVE  Inv'
<1>1. PICK g, i, s : /\ g = loop.goal /\ i = loop.step /\ s = goal[g].steps
                     /\ g \in GoalIds /\ i \in DOMAIN s /\ s \in StepList
  BY BusyWith DEF Inv, LoopOK, GoalsOK, GoalOK
<1>2. PICK t : t = [s EXCEPT ![i].actor = "person"]
  OBVIOUS
<1>3. PICK r : r = [goal[g] EXCEPT !.steps = t]
  OBVIOUS
<1>4. goal' = [goal EXCEPT ![g] = r]
  BY <1>1, <1>2, <1>3 DEF Inv, GoalsOK
<1>5. DOMAIN s \subseteq 1..MaxSteps /\ s \in [DOMAIN s -> Step] /\ s # <<>>
  BY <1>1, StepListIs, BusyWith
<1>6. /\ t \in [DOMAIN s -> Step] /\ DOMAIN t = DOMAIN s
      /\ \A j \in DOMAIN s : t[j].done = s[j].done
  BY <1>1, <1>2, <1>5 DEF Step
<1>7. t \in StepList /\ NextStep(t) = NextStep(s)
  <2>1. t \in StepList
    BY <1>5, <1>6, StepListIs
  <2>2. {j \in DOMAIN t : ~t[j].done} = {j \in DOMAIN s : ~s[j].done}
    BY <1>6
  <2>3. /\ NextStep(s) = First({j \in DOMAIN s : ~s[j].done})
        /\ NextStep(t) = First({j \in DOMAIN t : ~t[j].done})
    BY DEF NextStep, First
  <2>4. NextStep(s) = NextStep(t)
    BY <2>2, <2>3
  <2>5. QED BY <2>1, <2>4
<1>8. GoalOK(r) /\ r # Unset
  <2>1. GoalOK(goal[g]) /\ t # <<>>
    BY <1>1, <1>5, <1>6 DEF Inv, GoalsOK
  <2>2. /\ r \in [steps : StepList, status : {"none", "active", "done"}]
        /\ r.steps = t /\ r.status = goal[g].status
    BY <1>3, <1>7, <2>1 DEF GoalOK
  <2>3. Ordered(t)
    BY <1>1, <1>6, <2>1 DEF GoalOK, Ordered
  <2>4. r.status = "active" => NextStep(t) # 0
    BY <1>1, <1>5, <1>7, <2>1, <2>2 DEF GoalOK
  <2>5. QED BY <2>1, <2>2, <2>3, <2>4, UnsetOK DEF GoalOK
<1>9. GoalsOK' /\ goal'[g] = r /\ \A h \in GoalIds \ {g} : goal'[h] = goal[h]
  BY <1>1, <1>4, <1>8, GoalMoves DEF Inv
<1>10. OrderOK' /\ \A h \in GoalIds : Waits(h)' => Waits(h)
  BY LaterOK DEF Inv
<1>11. OnlySetWait'
  BY <1>8, <1>9, <1>10 DEF Inv, OnlySetWait
<1>12. LoopOK' /\ Aligned'
  BY AtRest
<1>13. RestOK'
  BY DEF Inv, RestOK
<1>14. QED BY <1>9, <1>10, <1>11, <1>12, <1>13 DEF Inv

LEMMA WorksStep == ASSUME Inv, Works PROVE Inv'
<1>1. loop.at = "working" /\ loop.at \in Busy
  BY DEF Works, Busy
<1>2. CASE Silent /\ Fails /\ UNCHANGED goal
  <2>1. /\ loop' \in {Resting, Dead} /\ moved' = FALSE
        /\ UNCHANGED <<dial, up, crashes, file, goal>>
        /\ due' = due \/ \E g : due' = Later(g)
    BY <1>2 DEF Silent, Rested, Goes, Fails
  <2>2. QED BY <2>1, AtRest, LoopMoves
<1>3. CASE /\ Silent /\ due' = Later(loop.goal)
           /\ goal' = [goal EXCEPT ![loop.goal].steps[loop.step].actor = "person"]
  <2>1. /\ loop' \in {Resting, Dead} /\ moved' = FALSE
        /\ UNCHANGED <<dial, up, crashes, file>>
    BY <1>3 DEF Silent, Rested, Goes
  <2>2. QED BY <1>1, <1>3, <2>1, HandedOver
<1>4. CASE /\ loop' = [loop EXCEPT !.at = "wording"]
           /\ UNCHANGED <<goal, due, moved, dial, up, crashes, file>>
  <2>1. loop' \in [at : {"top", "dead"} \cup Busy, goal : 0..MaxGoals, step : Nat]
    BY <1>4 DEF Inv, LoopOK, Busy
  <2>2. loop'.goal = loop.goal /\ loop'.step = loop.step
    BY <1>4 DEF Inv, LoopOK
  <2>3. LoopOK' /\ Aligned'
    BY <1>1, <1>4, <2>1, <2>2 DEF Inv, LoopOK, Aligned
  <2>4. GoalsOK' /\ OrderOK' /\ OnlySetWait' /\ RestOK'
    BY <1>4 DEF Inv, GoalsOK, OrderOK, OnlySetWait, RestOK, Waits
  <2>5. QED BY <2>3, <2>4 DEF Inv
<1>5. QED BY <1>2, <1>3, <1>4 DEF Works

LEMMA RecordsStep == ASSUME Inv, Records PROVE Inv'
<1>1. PICK g, n, r : g = loop.goal /\ n = NextStep(goal[g].steps) /\ r = Advanced(g)
  OBVIOUS
<1>2. /\ goal' = IF n = 0 THEN goal ELSE [goal EXCEPT ![g] = r]
      /\ due' = IF n = 0 THEN due ELSE Later(g)
      /\ loop' = Resting /\ moved' = FALSE /\ UNCHANGED <<dial, up, crashes, file>>
  BY <1>1 DEF Records, Rested, Goes
<1>3. LoopOK' /\ Aligned'
  BY <1>2, AtRest
<1>4. CASE n = 0
  BY <1>2, <1>3, <1>4, LoopMoves
<1>5. CASE n # 0
  <2>1. g \in GoalIds /\ goal[g].steps # <<>>
    BY <1>1, BusyWith DEF Records, Busy
  <2>2. GoalOK(r) /\ DOMAIN r.steps = DOMAIN goal[g].steps
    BY <1>1, <1>5, <2>1, AdvancedOK DEF Inv, GoalsOK
  <2>3. r # Unset
    <3>1. NextStep(goal[g].steps) \in DOMAIN goal[g].steps
      BY <1>1, <1>5, <2>1, FirstOpen DEF Inv, GoalsOK, GoalOK
    <3>2. QED BY <2>2, <3>1, UnsetOK
  <2>4. GoalsOK' /\ goal'[g] = r /\ \A h \in GoalIds \ {g} : goal'[h] = goal[h]
    BY <1>2, <1>5, <2>1, <2>2, GoalMoves DEF Inv
  <2>5. OrderOK' /\ \A h \in GoalIds : Waits(h)' => Waits(h)
    BY <1>2, <1>5, LaterOK DEF Inv
  <2>6. OnlySetWait'
    BY <2>3, <2>4, <2>5 DEF Inv, OnlySetWait
  <2>7. RestOK'
    BY <1>2 DEF Inv, RestOK
  <2>8. QED BY <1>3, <2>4, <2>5, <2>6, <2>7 DEF Inv
<1>6. QED BY <1>4, <1>5

LEMMA ComesStep == ASSUME Inv, NEW g \in GoalIds, Comes(g) PROVE Inv'
<1>1. /\ IsSet(g) /\ ~Waits(g) /\ due' = Joins(g)
      /\ UNCHANGED <<goal, loop, dial, up, crashes, file, moved>>
  BY DEF Comes
<1>2. OrderOK' /\ \A h \in GoalIds : Waits(h)' <=> (Waits(h) \/ h = g)
  BY <1>1, JoinsOK DEF Inv
<1>3. goal[g] # Unset
  BY <1>1, UnsetOK DEF IsSet
<1>4. OnlySetWait'
  BY <1>1, <1>2, <1>3 DEF Inv, OnlySetWait
<1>5. GoalsOK' /\ LoopOK' /\ Aligned' /\ RestOK'
  BY <1>1 DEF Inv, GoalsOK, LoopOK, Aligned, RestOK
<1>6. QED BY <1>2, <1>4, <1>5 DEF Inv

\* Death keeps the goals of the first lines, or all of them in a file that is cut.
LEMMA DiesStep == ASSUME Inv, Dies PROVE Inv'
<1>1. /\ loop' = Resting /\ up' = FALSE /\ moved' = FALSE /\ UNCHANGED dial
      /\ crashes < MaxCrashes /\ crashes' = crashes + 1 /\ file' \in {file, "cut"}
  BY DEF Dies
<1>2. LoopOK' /\ Aligned'
  BY <1>1, AtRest
<1>3. RestOK'
  <2>1. crashes' \in 0..MaxCrashes
    BY <1>1, GoalsAssumption DEF Inv, RestOK
  <2>2. QED BY <1>1, <2>1 DEF Inv, RestOK
<1>4. GoalsOK' /\ OrderOK' /\ OnlySetWait'
  <2>1. CASE UNCHANGED <<goal, due>>
    BY <2>1 DEF Inv, GoalsOK, OrderOK, OnlySetWait, Waits
  <2>2. ASSUME NEW kept \in 0..MaxGoals,
               goal' = [g \in GoalIds |-> IF g <= kept THEN goal[g] ELSE Unset],
               due' = {w \in due : w[1] <= kept /\ w[2] <= kept}
        PROVE  GoalsOK' /\ OrderOK' /\ OnlySetWait'
    <3>1. \A g \in GoalIds : goal'[g] = IF g <= kept THEN goal[g] ELSE Unset
      BY <2>2
    <3>2. GoalsOK'
      BY <2>2, <3>1, UnsetOK DEF Inv, GoalsOK
    <3>3. OrderOK' /\ \A h \in GoalIds : Waits(h)' => Waits(h) /\ h <= kept
      BY <2>2, KeptOK, GoalsAssumption DEF Inv
    <3>4. OnlySetWait'
      BY <3>1, <3>3 DEF Inv, OnlySetWait
    <3>5. QED BY <3>2, <3>3, <3>4
  <2>3. QED BY <2>1, <2>2 DEF Dies
<1>5. QED BY <1>2, <1>3, <1>4 DEF Inv

LEMMA NextInv == ASSUME Inv, [Next]_vars PROVE Inv'
<1>1. CASE SetsGoal
  BY <1>1, SetsGoalStep
<1>2. ASSUME NEW g \in GoalIds, Reports(g)
      PROVE  Inv'
  BY <1>2, ReportsStep
<1>3. ASSUME NEW g \in GoalIds, SetsDown(g)
      PROVE  Inv'
  BY <1>3, SetsDownStep
<1>4. CASE TakesUp
  BY <1>4, TakesUpStep
<1>5. CASE Nudges \/ Routine
  BY <1>5, NudgesStep
<1>6. CASE Works
  BY <1>6, WorksStep
<1>7. CASE Records
  BY <1>7, RecordsStep
<1>8. CASE TurnsDial
  BY <1>8 DEF TurnsDial, Inv, GoalsOK, OrderOK, OnlySetWait, Waits, LoopOK, Aligned, RestOK
<1>9. CASE Dies
  BY <1>9, DiesStep
<1>10. CASE Starts
  BY <1>10 DEF Starts, Inv, GoalsOK, OrderOK, OnlySetWait, Waits, LoopOK, Aligned, RestOK
<1>11. ASSUME NEW g \in GoalIds, Comes(g)
       PROVE  Inv'
  BY <1>11, ComesStep
<1>12. CASE UNCHANGED vars
  BY <1>12 DEF vars, Inv, GoalsOK, OrderOK, OnlySetWait, Waits, LoopOK, Aligned, RestOK
<1>13. QED
  BY <1>1, <1>2, <1>3, <1>4, <1>5, <1>6, <1>7, <1>8, <1>9, <1>10, <1>11, <1>12
  DEF Next, Turn, Loop

----------------------------------------------------------------------------
(* The theorems.                                                           *)

\* The goals keep their shape, the ones whose time has come stand in one order, and unless
\* somebody moved the goal under work on, the loop is at its first open step.
THEOREM InvHolds == Spec => []Inv
<1>1. Init => Inv
  BY InitInv
<1>2. Inv /\ [Next]_vars => Inv'
  BY NextInv
<1>3. QED BY <1>1, <1>2, PTL DEF Spec

\* The type invariant that the runs check, with the shape of the plans and of the order.
THEOREM TypeCorrect == Spec => []TypeOK
<1>1. QED BY InvHolds, InvTypes, PTL

\* Whatever the person's turns do while a specialist works, its work is recorded on the
\* step it was given, unless that goal was itself moved on meanwhile.
THEOREM RecordsWhereWorked == Spec => RecordedWhereWorked
<1> DEFINE Right ==
      loop.at = "wording" /\ loop'.at = "top" /\ up' =>
        \A g \in GoalIds : \A i \in DOMAIN goal[g].steps :
          goal'[g].steps[i].done # goal[g].steps[i].done =>
            g = loop.goal /\ (moved \/ i = loop.step)
<1>1. ASSUME Inv, [Next]_vars
      PROVE  Right
  <2> SUFFICES ASSUME loop.at = "wording", loop'.at = "top", up',
                      NEW g \in GoalIds, NEW i \in DOMAIN goal[g].steps,
                      goal'[g].steps[i].done # goal[g].steps[i].done
               PROVE  g = loop.goal /\ (moved \/ i = loop.step)
    OBVIOUS
  <2>1. Records
    <3>1. loop' # loop
      OBVIOUS
    <3>2. ~SetsGoal /\ ~TurnsDial /\ ~Starts /\ ~UNCHANGED vars
      BY <3>1 DEF SetsGoal, TurnsDial, Starts, vars
    <3>3. \A h \in GoalIds : ~Reports(h) /\ ~SetsDown(h) /\ ~Comes(h)
      BY <3>1 DEF Reports, SetsDown, Comes
    <3>4. ~TakesUp /\ ~Routine /\ ~Nudges /\ ~Works /\ ~Dies
      BY DEF TakesUp, Routine, Nudges, Works, Dies
    <3>5. QED BY <1>1, <3>2, <3>3, <3>4 DEF Next, Turn, Loop
  <2>2. PICK n, r : n = NextStep(goal[loop.goal].steps) /\ r = Advanced(loop.goal)
    OBVIOUS
  <2>3. goal' = IF n = 0 THEN goal ELSE [goal EXCEPT ![loop.goal] = r]
    BY <2>1, <2>2 DEF Records
  <2>4. n # 0 /\ g = loop.goal
    BY <1>1, <2>3 DEF Inv, GoalsOK
  <2>5. goal'[g] = r
    BY <1>1, <2>3, <2>4 DEF Inv, GoalsOK
  <2>6. i = n
    <3>1. GoalOK(goal[g])
      BY <1>1 DEF Inv, GoalsOK
    <3>2. QED BY <2>2, <2>4, <2>5, <3>1, AdvancedOK
  <2>7. ~moved => n = loop.step
    BY <1>1, <2>2 DEF Inv, Aligned, Busy
  <2>8. QED BY <2>4, <2>6, <2>7
<1>2. Inv /\ [Next]_vars => [Right]_vars
  BY <1>1
<1>3. QED BY <1>2, InvHolds, PTL DEF Spec, RecordedWhereWorked
=============================================================================
