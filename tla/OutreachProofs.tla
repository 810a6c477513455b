--------------------------- MODULE OutreachProofs ---------------------------
(***************************************************************************)
(* Proofs about Outreach, for every dial, floor, day, set of items and     *)
(* number of lines, lessons and crashes.                                   *)
(***************************************************************************)
EXTENDS Outreach, TLAPS

----------------------------------------------------------------------------
(* The inductive invariant, in the parts the three properties rest on.     *)

Instants == Nat \cup {Never}
Places   == {"top", "goal", "routine", "scoring", "ticking", "asleep"}

Typed ==
  /\ up \in BOOLEAN /\ now \in Nat /\ today \in Nat /\ own \in Nat /\ ticked \in Nat
  /\ last \in Instants /\ ownAt \in Instants /\ tickAt \in Instants
  /\ dial \in Levels /\ dialFile \in Levels \cup {"cut"} /\ view \in Levels \cup {"shut"}
  /\ at \in Places
  /\ items \subseteq Items /\ pending \in Items \cup {NoItem}
  /\ bears \in BOOLEAN
  /\ seen \subseteq Items /\ seenFile \subseteq Items /\ glued \subseteq Items
  /\ told \in [Items -> Nat]

\* What the process goes by is what the file would give the next one.
DialIsKept == up => dial = Level(dialFile)

\* Past the floor, the loop's last line of its own accord is Gap away; it is no later
\* than the last line there was.
Rested ==
  /\ last <= now
  /\ ownAt # Never => last # Never /\ ownAt <= last
  /\ at \in {"goal", "routine", "scoring", "ticking"} /\ ownAt # Never => now - ownAt >= Gap

\* The tick's lines are among those of the day, and what its gates let through may be
\* said whenever it is.
Rationed ==
  /\ ticked <= today /\ last <= now
  /\ tickAt # Never => last # Never /\ tickAt <= last
  /\ at = "ticking" /\ view # "shut" =>
       /\ ticked < Ceiling[view]
       /\ tickAt # Never => now - tickAt >= Cooldown[view]

\* What is pending was never told and seen; what was told is in the file, and in memory.
Fresh ==
  /\ pending # NoItem => pending \notin seen
  /\ bears => pending # NoItem
  /\ \A i \in Items \ glued :
       told[i] > 0 => told[i] = 1 /\ i \in seenFile /\ (up => i \in seen)

Inv == Typed /\ DialIsKept /\ Rested /\ Rationed /\ Fresh

LEMMA InitInv == Init => Inv
<1> SUFFICES ASSUME Init PROVE Inv
  OBVIOUS
<1> USE OutreachAssumption DEF Init
<1>1. Typed
  BY DEF Typed, Instants, Places
<1>2. DialIsKept
  BY DEF DialIsKept, Level
<1>3. Rested /\ Rationed
  BY DEF Rested, Rationed, Never
<1>4. Fresh
  BY DEF Fresh
<1>5. QED
  BY <1>1, <1>2, <1>3, <1>4 DEF Inv

----------------------------------------------------------------------------
(* What the steps' common parts do.                                        *)

\* Past the floor and the dial, and past a goal with nothing to say, the loop goes on to
\* one of its works; what tick() is let through is settled as it starts.
LEMMA LooksDoes ==
  ASSUME Look \/ NothingToSay
  PROVE  /\ up /\ UNCHANGED <<up, now, dial, dialFile, known, pending, bears>>
         /\ UNCHANGED <<last, today, own, ownAt, ticked, tickAt, told>>
         /\ UNCHANGED <<seen, seenFile, tail, glued>>
         /\ items' = items \/ items' \subseteq Items
         /\ \/ at' = "asleep"
            \/ /\ at' \in {"goal", "routine", "scoring", "ticking"}
               /\ ~InFloor \/ at \in {"goal", "routine"}
         /\ \/ at' # "ticking" /\ view' = view
            \/ at' = "ticking" /\ view' = IF Open THEN dial ELSE "shut"
<1> DEFINE Waits(place) == /\ Goes(place)
                           /\ UNCHANGED <<polling, held, view, marks, spoken>>
<1>1. up
  BY DEF Look, NothingToSay
<1>2. \/ \E place \in {"asleep", "goal", "routine"} :
           Waits(place) /\ (place = "asleep" \/ ~InFloor \/ at \in {"goal", "routine"})
      \/ Onward /\ (~InFloor \/ at \in {"goal", "routine"})
  <2>1. CASE Look
    BY <2>1 DEF Look
  <2>2. CASE NothingToSay
    BY <2>2 DEF NothingToSay
  <2>3. QED BY <2>1, <2>2
<1>3. ASSUME NEW place, Waits(place)
      PROVE  /\ at' = place
             /\ UNCHANGED <<up, now, dial, dialFile, known, pending, bears>>
             /\ UNCHANGED <<last, today, own, ownAt, ticked, tickAt, told>>
             /\ UNCHANGED <<seen, seenFile, tail, glued, items, view>>
  BY <1>3 DEF Goes, polling, held, marks, spoken, dials
<1>4. ASSUME Onward
      PROVE  /\ UNCHANGED <<up, now, dial, dialFile, known, pending, bears>>
             /\ UNCHANGED <<last, today, own, ownAt, ticked, tickAt, told>>
             /\ UNCHANGED <<seen, seenFile, tail, glued>>
             /\ items' = items \/ items' \subseteq Items
             /\ \/ at' = "scoring" /\ view' = view
                \/ at' = "ticking" /\ view' = IF Open THEN dial ELSE "shut"
  <2>1. CASE StartPoll
    BY <1>4, <2>1 DEF Onward, StartPoll, Goes, marks, spoken, dials
  <2>2. CASE NoPoll
    BY <1>4, <2>2 DEF Onward, NoPoll, StartTick, Goes, polling, held, marks, spoken, dials
  <2>3. QED BY <1>4, <2>1, <2>2 DEF Onward
<1> HIDE DEF Waits
<1>5. ASSUME NEW place \in {"asleep", "goal", "routine"}, Waits(place),
             place = "asleep" \/ ~InFloor \/ at \in {"goal", "routine"}
      PROVE  /\ at' \in {"asleep", "goal", "routine"}
             /\ at' = "asleep" \/ ~InFloor \/ at \in {"goal", "routine"}
  BY <1>3, <1>5
<1>6. QED BY <1>1, <1>2, <1>3, <1>4, <1>5

\* A goal's step or a routine's line is said.
LEMMA SpeaksDoes ==
  ASSUME GoalSpeaks \/ RoutineSpeaks
  PROVE  /\ up /\ at \in {"goal", "routine"} /\ at' = "asleep"
         /\ UNCHANGED <<up, now, dial, dialFile, known, pending, bears, view, items>>
         /\ UNCHANGED <<seen, seenFile, tail, glued, told, ticked, tickAt>>
         /\ \/ UNCHANGED <<last, today, own, ownAt>>
            \/ /\ dial # "off" /\ last' = now /\ today' \in {today, today + 1}
               /\ own' = own + 1 /\ ownAt' = now
<1>1. PICK why \in {"goal", "routine"}, counts \in BOOLEAN : up /\ at = why /\ Speaks(why, counts)
  BY DEF GoalSpeaks, RoutineSpeaks
<1>2. /\ Say(why, counts)
      /\ UNCHANGED <<now, dial, dialFile, known, items>> /\ up' = up /\ at' = "asleep"
      /\ UNCHANGED <<pending, bears, view, seen, seenFile, tail, glued, told>>
  BY <1>1 DEF Speaks, Goes, dials, polling, held, marks
<1>3. \/ UNCHANGED <<last, today, own, ownAt, ticked, tickAt>>
      \/ /\ dial # "off"
         /\ last' = now /\ today' \in {today, today + 1}
         /\ own' = own + 1 /\ ownAt' = now
         /\ ticked' = ticked /\ tickAt' = tickAt
  BY <1>1, <1>2 DEF Say, Allows, Recorded
<1>4. QED BY <1>1, <1>2, <1>3

\* The tick speaks: what was pending is marked first.
Ticks == \E source \in BOOLEAN : TickSpeaks(source)
LEMMA TicksDoes ==
  ASSUME Ticks
  PROVE  /\ up /\ at = "ticking" /\ view # "shut" /\ at' = "asleep"
         /\ UNCHANGED <<up, now, dial, dialFile, known, view, items>>
         /\ pending' = NoItem /\ bears' = FALSE
         /\ IF pending = NoItem THEN UNCHANGED <<seen, seenFile, tail, glued>> ELSE Mark(pending)
         /\ \/ UNCHANGED <<last, today, own, ownAt, ticked, tickAt>>
            \/ /\ dial # "off" /\ last' = now /\ today' = today + 1
               /\ own' = own + 1 /\ ownAt' = now /\ ticked' = ticked + 1 /\ tickAt' = now
         /\ told' = told \/ (bears /\ told' = [told EXCEPT ![pending] = @ + 1])
<1>1. PICK source \in BOOLEAN : TickSpeaks(source)
  BY DEF Ticks
<1>2. /\ up /\ at = "ticking" /\ view # "shut" /\ pending' = NoItem /\ bears' = FALSE
      /\ Say("tick", TRUE)
  BY <1>1 DEF TickSpeaks
<1>3. told' = told \/ (bears /\ told' = [told EXCEPT ![pending] = @ + 1])
  <2>1. CASE source /\ Allows("tick")
    BY <1>1, <2>1 DEF TickSpeaks
  <2>2. CASE ~(source /\ Allows("tick"))
    BY <1>1, <2>2 DEF TickSpeaks
  <2>3. QED BY <2>1, <2>2
<1>4. /\ UNCHANGED <<now, dial, dialFile, known, view, items>> /\ up' = up /\ at' = "asleep"
      /\ IF pending = NoItem THEN UNCHANGED <<seen, seenFile, tail, glued>> ELSE Mark(pending)
  BY <1>1 DEF TickSpeaks, Goes, dials, polling, marks
<1>5. \/ UNCHANGED <<last, today, own, ownAt, ticked, tickAt>>
      \/ /\ dial # "off" /\ last' = now /\ today' = today + 1
         /\ own' = own + 1 /\ ownAt' = now /\ ticked' = ticked + 1 /\ tickAt' = now
  BY <1>2 DEF Say, Allows, Recorded
<1>6. QED BY <1>2, <1>3, <1>4, <1>5

\* What was asked for is said beside the loop.
Returns == \E counts \in BOOLEAN : AskedLine(counts)
LEMMA ReturnsDoes ==
  ASSUME Returns
  PROVE  /\ up /\ UNCHANGED <<up, at, now, dial, dialFile, known, pending, bears, view, items>>
         /\ UNCHANGED <<seen, seenFile, tail, glued, told, ticked, tickAt, own, ownAt>>
         /\ \/ UNCHANGED <<last, today>>
            \/ last' = now /\ today' \in {today, today + 1}
<1>1. PICK counts \in BOOLEAN : AskedLine(counts)
  BY DEF Returns
<1>2. /\ up /\ Say("asked", counts) /\ up' = up
      /\ UNCHANGED <<at, now, dial, dialFile, known, pending, bears, view, items>>
      /\ UNCHANGED <<seen, seenFile, tail, glued, told>>
  BY <1>1 DEF AskedLine, Elsewhere, dials, polling, held, marks
<1>3. /\ UNCHANGED <<own, ownAt, ticked, tickAt>>
      /\ UNCHANGED <<last, today>> \/ (last' = now /\ today' \in {today, today + 1})
  BY <1>2 DEF Say, Allows, Recorded
<1>4. QED BY <1>2, <1>3

LEMMA TypedStep == Typed /\ [Next]_vars => Typed'
<1> SUFFICES ASSUME Typed, [Next]_vars PROVE Typed'
  OBVIOUS
<1> USE OutreachAssumption DEF Typed, Instants, Places, Never
<1>1. CASE Look \/ NothingToSay
  BY <1>1, LooksDoes
<1>2. CASE GoalSpeaks \/ RoutineSpeaks
  BY <1>2, SpeaksDoes
<1>4. CASE EndPoll
  BY <1>4 DEF EndPoll, Scans, StartTick, Goes, Open, marks, spoken, dials
<1>5. CASE TickQuiet \/ Wake
  BY <1>5 DEF TickQuiet, Wake, Goes, polling, held, marks, spoken, dials
<1>6. CASE Ticks
  <2>1. told' \in [Items -> Nat]
    BY <1>6, TicksDoes
  <2>2. seen' \subseteq Items /\ seenFile' \subseteq Items /\ glued' \subseteq Items
    BY <1>6, TicksDoes DEF Mark, Filed, Glue, marks
  <2>3. QED BY <1>6, <2>1, <2>2, TicksDoes
<1>7. CASE Returns
  BY <1>7, ReturnsDoes
<1>8. CASE Learn \/ Tick \/ \E level \in Levels : TurnDial(level)
  BY <1>8 DEF Learn, Tick, TurnDial, Elsewhere, polling, held, marks, dials, spoken
<1>9. CASE Crash \/ CrashInDial \/ CrashInMark
  BY <1>9 DEF Crash, CrashInDial, CrashInMark, Glue, Down, polling, held, marks, dials, spoken
<1>10. CASE Boot
  BY <1>10 DEF Boot, Level
<1>11. CASE UNCHANGED vars
  BY <1>11 DEF vars, dials, polling, held, marks, spoken
<1>12. QED
  BY <1>1, <1>2, <1>4, <1>5, <1>6, <1>7, <1>8, <1>9, <1>10, <1>11 DEF Next, Ticks, Returns

----------------------------------------------------------------------------
(* Each part of the invariant, over every step.                            *)

LEMMA DialStep == Typed /\ DialIsKept /\ [Next]_vars => DialIsKept'
<1> SUFFICES ASSUME Typed, DialIsKept, [Next]_vars PROVE DialIsKept'
  OBVIOUS
<1> USE OutreachAssumption DEF Typed, DialIsKept, Level
<1>1. CASE UNCHANGED <<up, dials>>
  BY <1>1 DEF dials
<1>2. CASE \E level \in Levels : TurnDial(level)
  BY <1>2 DEF TurnDial, Elsewhere
<1>3. CASE Crash \/ CrashInDial \/ CrashInMark
  BY <1>3 DEF Crash, CrashInDial, CrashInMark, Down
<1>4. CASE Boot
  BY <1>4 DEF Boot
<1>5. UNCHANGED <<up, dials>> \/ (\E level \in Levels : TurnDial(level))
        \/ Crash \/ CrashInDial \/ CrashInMark \/ Boot
  BY DEF Next, vars, Look, GoalSpeaks, RoutineSpeaks, Speaks, NothingToSay, Onward, StartPoll,
         NoPoll, StartTick, EndPoll, TickQuiet, TickSpeaks, Wake, AskedLine, Learn, Tick,
         Elsewhere, Goes, dials
<1>6. QED
  BY <1>1, <1>2, <1>3, <1>4, <1>5

LEMMA RestedStep == Typed /\ Rested /\ [Next]_vars => Rested'
<1> SUFFICES ASSUME Typed, Rested, [Next]_vars PROVE Rested'
  OBVIOUS
<1> USE OutreachAssumption DEF Typed, Rested, Instants, Never
<1>1. CASE Look \/ NothingToSay
  BY <1>1, LooksDoes DEF InFloor
<1>2. CASE GoalSpeaks \/ RoutineSpeaks
  BY <1>2, SpeaksDoes
<1>4. CASE EndPoll
  BY <1>4 DEF EndPoll, StartTick, Goes, spoken
<1>5. CASE TickQuiet \/ Wake
  BY <1>5 DEF TickQuiet, Wake, Goes, spoken
<1>6. CASE Ticks
  BY <1>6, TicksDoes
<1>7. CASE Returns
  BY <1>7, ReturnsDoes
<1>8. CASE Learn \/ Tick \/ \E level \in Levels : TurnDial(level)
  BY <1>8 DEF Learn, Tick, TurnDial, Elsewhere, spoken
<1>9. CASE Crash \/ CrashInDial \/ CrashInMark
  BY <1>9 DEF Crash, CrashInDial, CrashInMark, Down, spoken
<1>10. CASE Boot
  BY <1>10 DEF Boot
<1>11. CASE UNCHANGED vars
  BY <1>11 DEF vars, spoken
<1>12. QED
  BY <1>1, <1>2, <1>4, <1>5, <1>6, <1>7, <1>8, <1>9, <1>10, <1>11 DEF Next, Ticks, Returns

LEMMA RationedStep == Typed /\ Rationed /\ [Next]_vars => Rationed'
<1> SUFFICES ASSUME Typed, Rationed, [Next]_vars PROVE Rationed'
  OBVIOUS
<1> USE OutreachAssumption DEF Typed, Rationed, Instants, Never
<1>1. CASE Look \/ NothingToSay
  BY <1>1, LooksDoes DEF Open
<1>2. CASE GoalSpeaks \/ RoutineSpeaks
  BY <1>2, SpeaksDoes
<1>4. CASE EndPoll
  BY <1>4 DEF EndPoll, StartTick, Goes, Open, spoken
<1>5. CASE TickQuiet \/ Wake
  BY <1>5 DEF TickQuiet, Wake, Goes, spoken
<1>6. CASE Ticks
  BY <1>6, TicksDoes
<1>7. CASE Returns
  BY <1>7, ReturnsDoes
<1>8. CASE Learn \/ \E level \in Levels : TurnDial(level)
  BY <1>8 DEF Learn, TurnDial, Elsewhere, spoken
<1>9. CASE Tick
  BY <1>9 DEF Tick, Elsewhere
<1>10. CASE Crash \/ CrashInDial \/ CrashInMark
  BY <1>10 DEF Crash, CrashInDial, CrashInMark, Down, spoken
<1>11. CASE Boot
  BY <1>11 DEF Boot
<1>12. CASE UNCHANGED vars
  BY <1>12 DEF vars, spoken
<1>13. QED
  BY <1>1, <1>2, <1>4, <1>5, <1>6, <1>7, <1>8, <1>9, <1>10, <1>11, <1>12 DEF Next, Ticks, Returns

LEMMA FreshStep == Typed /\ Fresh /\ [Next]_vars => Fresh'
<1> SUFFICES ASSUME Typed, Fresh, [Next]_vars PROVE Fresh'
  OBVIOUS
<1> USE OutreachAssumption DEF Typed, Fresh
<1>1. CASE Look \/ NothingToSay
  BY <1>1, LooksDoes
<1>2. CASE GoalSpeaks \/ RoutineSpeaks
  BY <1>2, SpeaksDoes
<1>4. CASE EndPoll
  BY <1>4 DEF EndPoll, Scans, StartTick, Goes, marks, spoken
<1>5. CASE TickQuiet \/ Wake
  BY <1>5 DEF TickQuiet, Wake, Goes, held, marks, spoken
<1>6. CASE Ticks
  BY <1>6, TicksDoes DEF Mark, Filed, Glue, marks
<1>7. CASE Returns
  BY <1>7, ReturnsDoes
<1>8. CASE Learn \/ Tick \/ \E level \in Levels : TurnDial(level)
  BY <1>8 DEF Learn, Tick, TurnDial, Elsewhere, held, marks, spoken
<1>9. CASE Crash \/ CrashInDial
  BY <1>9 DEF Crash, CrashInDial, Down, held, marks, spoken
<1>10. CASE CrashInMark
  BY <1>10 DEF CrashInMark, Glue, Down, held, spoken
<1>11. CASE Boot
  BY <1>11 DEF Boot
<1>12. CASE UNCHANGED vars
  BY <1>12 DEF vars, held, marks, spoken
<1>13. QED
  BY <1>1, <1>2, <1>4, <1>5, <1>6, <1>7, <1>8, <1>9, <1>10, <1>11, <1>12 DEF Next, Ticks, Returns

\* The parts together hold of every reachable state.
THEOREM InvHolds == Spec => []Inv
<1>1. Inv /\ [Next]_vars => Inv'
  BY TypedStep, DialStep, RestedStep, RationedStep, FreshStep DEF Inv
<1>2. QED
  BY InitInv, <1>1, PTL DEF Spec

----------------------------------------------------------------------------
(* What the person is promised.                                            *)

\* Only a goal, a routine or the tick adds a line of its own accord; only the tick a line
\* of the tick's.
LEMMA WhoSpeaks ==
  ASSUME Inv, [Next]_vars
  PROVE  /\ own' > own => GoalSpeaks \/ RoutineSpeaks \/ Ticks
         /\ ticked' > ticked => Ticks
<1> USE DEF Inv, Typed
<1>1. CASE GoalSpeaks \/ RoutineSpeaks
  BY <1>1, SpeaksDoes
<1>2. CASE Returns
  BY <1>2, ReturnsDoes
<1>3. CASE own' \in {own, 0} /\ ticked' \in {ticked, 0}
  BY <1>3
<1>4. QED
  BY <1>1, <1>2, <1>3
  DEF Next, vars, Look, NothingToSay, Onward, StartPoll, NoPoll, StartTick, EndPoll, TickQuiet,
      Wake, TurnDial, Learn, Tick, Crash, CrashInDial, CrashInMark, Down, Boot, Goes, Elsewhere,
      spoken, Ticks, Returns

\* Set to "off", the dial stops whatever was under way, and a restart does not undo it:
\* the process runs with what the file says, or with "usual" when it cannot be read.
THEOREM OffStaysOff == Spec => OffIsOff
<1>1. Inv /\ [Next]_vars => (own' > own => dialFile # "off")
  <2> SUFFICES ASSUME Inv, [Next]_vars, own' > own PROVE dialFile # "off"
    OBVIOUS
  <2> USE OutreachAssumption DEF Inv, Typed, DialIsKept, Level
  <2>1. CASE GoalSpeaks \/ RoutineSpeaks
    BY <2>1, SpeaksDoes
  <2>2. CASE Ticks
    BY <2>2, TicksDoes
  <2>3. QED
    BY <2>1, <2>2, WhoSpeaks
<1>2. QED
  BY InvHolds, <1>1, PTL DEF Spec, OffIsOff

\* Lines of its own accord keep the floor between them, whatever the dial; and what the
\* tick says stays within the ceiling and the cooldown its gates read.
THEOREM KeepsItsPace == Spec => Paced
<1>1. Inv /\ [Next]_vars => (own' > own /\ ownAt # Never => now - ownAt >= Gap)
  <2> SUFFICES ASSUME Inv, [Next]_vars, own' > own, ownAt # Never PROVE now - ownAt >= Gap
    OBVIOUS
  <2> USE DEF Inv, Typed, Rested
  <2>1. CASE GoalSpeaks \/ RoutineSpeaks
    BY <2>1, SpeaksDoes
  <2>2. CASE Ticks
    BY <2>2, TicksDoes
  <2>3. QED
    BY <2>1, <2>2, WhoSpeaks
<1>2. /\ Inv /\ [Next]_vars
      => (ticked' > ticked => /\ ticked' <= Ceiling[view]
                              /\ tickAt # Never => now - tickAt >= Cooldown[view])
  <2> SUFFICES ASSUME Inv, [Next]_vars, ticked' > ticked
               PROVE  /\ ticked' <= Ceiling[view]
                      /\ tickAt # Never => now - tickAt >= Cooldown[view]
    OBVIOUS
  <2> USE OutreachAssumption DEF Inv, Typed, Rationed
  <2>1. Ticks
    BY WhoSpeaks
  <2>2. QED
    BY <2>1, TicksDoes
<1>3. QED
  BY InvHolds, <1>1, <1>2, PTL DEF Spec, Paced, Spaced, WithinTheDay

\* Whatever is fetched again, and whenever the process dies, a thing is told once, but for
\* a key that was appended to one cut short.
THEOREM NothingTwice == Spec => []ToldOnce
<1>1. Inv => ToldOnce
  BY DEF Inv, Typed, Fresh, ToldOnce
<1>2. QED
  BY InvHolds, <1>1, PTL

=============================================================================
