------------------------------ MODULE Outreach ------------------------------
(***************************************************************************)
(* What the Keeper says of its own accord (the second half of              *)
(* _proactive_loop in backend/server.py, tick in backend/proactive.py),    *)
(* and the person's say over it (backend/dial.py).                         *)
(*                                                                         *)
(* One loop looks at the real-time floor and the dial, then works a goal,  *)
(* or a routine, or else scores what it watches against what it knows      *)
(* (backend/sources.py) and asks tick() whether to speak.  Each of these   *)
(* waits for a model or the network, and meanwhile the dial is turned,     *)
(* memory changes, and what was asked for (jobs, delegations) is said.     *)
(* What a line is about, the roll and the urge behind it are left open;    *)
(* the sleep may end at any time, as a turn of conversation wakes it.      *)
(***************************************************************************)
EXTENDS Integers

CONSTANTS Levels,     \* the dial's levels, "off" and "usual" among them
          Ceiling,    \* per level, the lines of a day after which tick() is quiet
          Cooldown,   \* and how long it is quiet after a line
          Gap,        \* MIN_REAL_REACH_GAP_S, the floor no level moves
          Day,        \* how long a day is
          Items, NoItem,  \* what feeds and watches bring, and nothing
          Worth,      \* <<item, memory>>: worth mentioning to the one who knows that
          MaxKnown,   \* bound: how often memory changes
          MaxToday,   \* bound: how many lines a day counts
          MaxNow,     \* bound: the clock stops here
          MaxCrashes  \* bound: how often the process may die

Never == -1

ASSUME OutreachAssumption ==
  /\ {"off", "usual"} \subseteq Levels /\ "shut" \notin Levels /\ "cut" \notin Levels
  /\ Ceiling \in [Levels -> Nat \ {0}] /\ Cooldown \in [Levels -> Nat]
  /\ Gap \in Nat /\ Day \in Nat \ {0} /\ NoItem \notin Items
  /\ Worth \subseteq Items \X Nat
  /\ MaxKnown \in Nat /\ MaxToday \in Nat /\ MaxNow \in Nat /\ MaxCrashes \in Nat

VARIABLES
  up, crashes, now,
  dial,       \* STATE.dial.name
  dialFile,   \* dial.json, "cut" when it does not parse
  last,       \* STATE.last_proactive_at
  today,      \* proactive_today(): the lines of this day that count
  known,      \* _memory_fingerprint(): 0 while nothing is known of the person
  at,         \* the loop: "top", "goal", "routine", "scoring", "ticking" or "asleep"
  mark,       \* in _poll_sources: the memory its scores are claimed against
  items, scored,  \* STATE.last_items and scored_against
  pending,    \* STATE.pending_item
  bears,      \* its relevance makes it worth mentioning
  shared,     \* and it is one of the objects in last_items, scored where it lies
  view,       \* what tick() was given: "shut" for gates closed, else the dial's level
  seen,       \* SeenStore.keys
  seenFile,   \* the keys that parse in the file of it
  tail,       \* its last line: NoItem for a whole one, "cut", or the key it holds
              \* when only the line's end is missing
  \* History, for the properties.
  own, ownAt, \* lines of its own accord in this life: how many, and when the last
  ticked, tickAt, \* those tick() made: how many today, and when the last
  told,       \* per item, how often it was told
  glued       \* the keys lost for being on one line, where the first was cut short

dials   == <<dial, dialFile>>
polling == <<mark, items, scored>>
held    == <<pending, bears, shared>>
marks   == <<seen, seenFile, tail, glued>>
spoken  == <<last, today, own, ownAt, ticked, tickAt, told>>
vars == <<up, crashes, now, dials, known, at, polling, held, view, marks, spoken>>

----------------------------------------------------------------------------
(* The gates.                                                              *)

InFloor == last # Never /\ now - last < Gap

\* tick(): the ceiling, the cooldown, and off makes the roll impossible.
OpenM == dial # "off" /\ (last # Never => now - last >= Cooldown[dial])  \* mutation: no ceiling
Open  == /\ dial # "off"
         /\ today < Ceiling[dial]
         /\ last # Never => now - last >= Cooldown[dial]

\* Dial.allows, asked when a line is about to go out.
AllowsM(why) == TRUE                                 \* mutation: no backstop
Allows(why)  == dial # "off" \/ why = "asked"

\* _deliver_proactive: recorded and pushed in one go, or held.
Recorded(why)  == now
Say(why, counts) ==
  IF Allows(why)
  THEN /\ last' = Recorded(why)
       /\ today' = IF counts THEN today + 1 ELSE today
       /\ own' = IF why = "asked" THEN own ELSE own + 1
       /\ ownAt' = IF why = "asked" THEN ownAt ELSE now
       /\ ticked' = IF why = "tick" THEN ticked + 1 ELSE ticked
       /\ tickAt' = IF why = "tick" THEN now ELSE tickAt
  ELSE UNCHANGED <<last, today, own, ownAt, ticked, tickAt>>

----------------------------------------------------------------------------
(* SeenStore.                                                              *)

\* mark: an append on a line cut short loses both.
FiledM(i) == seenFile                                \* mutation: kept in memory only
Filed(i)  == IF tail = NoItem THEN seenFile \cup {i} ELSE seenFile \ {tail}
Glue(i) == IF tail = NoItem THEN glued ELSE glued \cup ({i, tail} \cap Items)
Mark(i) ==
  IF i \in seen THEN UNCHANGED marks
  ELSE /\ seen' = seen \cup {i}
       /\ seenFile' = Filed(i) /\ tail' = NoItem
       /\ glued' = Glue(i)

----------------------------------------------------------------------------
Init ==
  /\ up = TRUE /\ crashes = 0 /\ now = 0
  /\ dial = "usual" /\ dialFile = "usual"
  /\ last = Never /\ today = 0 /\ known = 0
  /\ at = "top" /\ mark = 0 /\ items = {} /\ scored = Never
  /\ pending = NoItem /\ bears = FALSE /\ shared = FALSE /\ view = "shut"
  /\ seen = {} /\ seenFile = {} /\ tail = NoItem /\ glued = {}
  /\ own = 0 /\ ownAt = Never /\ ticked = 0 /\ tickAt = Never
  /\ told = [i \in Items |-> 0]

----------------------------------------------------------------------------
(* The loop.                                                               *)

Goes(where) == at' = where /\ UNCHANGED <<up, crashes, now, dials, known>>

\* tick() reads everything as it starts, in a thread.
StartTick == /\ Goes("ticking")
             /\ view' = IF Open THEN dial ELSE "shut"

\* A fetch is due, and what it brings is new objects, or it is not, and new memory
\* makes the scores of the old ones stale.
StartPoll ==
  /\ known > 0
  /\ \/ items' \in SUBSET Items /\ shared' = FALSE
     \/ items # {} /\ scored # known /\ UNCHANGED <<items, shared>>
  /\ mark' = known
  /\ Goes("scoring") /\ UNCHANGED <<scored, view, pending, bears>>
NoPoll == /\ known = 0 \/ items = {} \/ scored = known
          /\ StartTick /\ UNCHANGED <<polling, held>>
Onward == (StartPoll \/ NoPoll) /\ UNCHANGED <<marks, spoken>>

\* The floor and the dial, looked at once for all that follows.
Look ==
  /\ up /\ at = "top"
  /\ IF InFloor \/ dial = "off"
     THEN Goes("asleep") /\ UNCHANGED <<polling, held, view, marks, spoken>>
     ELSE \/ /\ Goes("goal") \/ Goes("routine")
             /\ UNCHANGED <<polling, held, view, marks, spoken>>
          \/ Onward

\* A goal's step is nudged or executed, a routine's line composed.
Speaks(why, counts) ==
  /\ Say(why, counts) /\ Goes("asleep")
  /\ UNCHANGED <<polling, held, view, marks, told>>
GoalSpeaks    == up /\ at = "goal" /\ today < MaxToday /\ Speaks("goal", TRUE)
RoutineSpeaks == up /\ at = "routine" /\ Speaks("routine", FALSE)
NothingToSay  ==
  /\ up /\ at \in {"goal", "routine"}
  /\ \/ /\ at = "goal" /\ Goes("routine")
        /\ UNCHANGED <<polling, held, view, marks, spoken>>
     \/ Onward

\* Each item of the scan, which is cut to a length, is scored against memory as it is
\* then, where it lies: what is pending with it, if it is one of them.  The best that is
\* worth mentioning is kept.
May(i)  == \E k \in mark..known : <<i, k>> \in Worth
Must(i) == \A k \in mark..known : <<i, k>> \in Worth
Scans   == {scan \in SUBSET (items \ seen) : items \subseteq seen \/ scan # {}}
EndPoll ==
  /\ up /\ at = "scoring"
  /\ \E scan \in Scans :
       \/ \E i \in scan : May(i) /\ pending' = i /\ bears' = TRUE /\ shared' = TRUE
       \/ /\ \A i \in scan : ~Must(i)
          /\ bears' = (bears /\ ~(shared /\ pending \in scan))
          /\ UNCHANGED <<pending, shared>>
  /\ scored' = mark
  /\ StartTick
  /\ UNCHANGED <<mark, items, marks, spoken>>

\* Quiet, or an error that sends the loop round again.
TickQuiet ==
  /\ up /\ at = "ticking"
  /\ Goes("asleep") \/ Goes("top")
  /\ UNCHANGED <<polling, held, view, marks, spoken>>

\* What was pending is marked, told or not, before the line goes out.
TickSpeaks(source) ==
  /\ up /\ at = "ticking" /\ view # "shut" /\ today < MaxToday
  /\ source => bears
  /\ IF pending = NoItem THEN UNCHANGED marks ELSE Mark(pending)
  /\ pending' = NoItem /\ bears' = FALSE /\ shared' = FALSE
  /\ Say("tick", TRUE)
  /\ told' = IF source /\ Allows("tick") THEN [told EXCEPT ![pending] = @ + 1] ELSE told
  /\ Goes("asleep") /\ UNCHANGED <<polling, view>>

Wake ==
  /\ up /\ at = "asleep"
  /\ Goes("top") /\ UNCHANGED <<polling, held, view, marks, spoken>>

----------------------------------------------------------------------------
(* Meanwhile.                                                              *)

Elsewhere == UNCHANGED <<up, at, polling, held, view, marks, crashes>>

\* A reminder is returned or a job's result comes back, uncounted, or a delegation's,
\* which counts.
AskedLine(counts) ==
  /\ up /\ (counts => today < MaxToday)
  /\ Say("asked", counts)
  /\ Elsewhere /\ UNCHANGED <<now, dials, known, told>>

TurnDial(level) ==
  /\ up
  /\ dial' = level /\ dialFile' = level
  /\ Elsewhere /\ UNCHANGED <<now, known, spoken>>

Learn ==
  /\ up /\ known < MaxKnown
  /\ known' = known + 1
  /\ Elsewhere /\ UNCHANGED <<now, dials, spoken>>

Tick ==
  /\ now < MaxNow /\ now' = now + 1
  /\ LET midnight == now' % Day = 0 IN
     /\ today' = IF midnight THEN 0 ELSE today
     /\ ticked' = IF midnight THEN 0 ELSE ticked
  /\ Elsewhere /\ UNCHANGED <<dials, known, last, own, ownAt, tickAt, told>>

----------------------------------------------------------------------------
(* The process dies, in the middle of a write of the dial or a key too.    *)

Down == /\ up /\ crashes < MaxCrashes
        /\ up' = FALSE /\ crashes' = crashes + 1
        /\ UNCHANGED <<now, dial, known, at, polling, held, view, spoken>>
Crash == Down /\ UNCHANGED <<dialFile, marks>>
CrashInDial == /\ Down /\ dialFile' = "cut" /\ UNCHANGED marks
CrashInMark ==
  /\ Down /\ at = "ticking" /\ view # "shut" /\ pending \notin seen \cup {NoItem}
  /\ \/ /\ tail = NoItem /\ tail' = pending     \* but for the end of the line
        /\ seenFile' = seenFile \cup {pending}
     \/ tail' = "cut" /\ seenFile' = seenFile \ {tail}
  /\ glued' = Glue(pending)
  /\ UNCHANGED <<dialFile, seen>>

\* All but the dial and the keys starts afresh, the floor included.
Level(file)  == IF file = "cut" THEN "usual" ELSE file
Boot ==
  /\ ~up /\ up' = TRUE
  /\ dial' = Level(dialFile)
  /\ last' = Never /\ today' = 0
  /\ at' = "top" /\ mark' = 0 /\ items' = {} /\ scored' = Never
  /\ pending' = NoItem /\ bears' = FALSE /\ shared' = FALSE /\ view' = "shut"
  /\ seen' = seenFile
  /\ own' = 0 /\ ownAt' = Never /\ ticked' = 0 /\ tickAt' = Never
  /\ UNCHANGED <<crashes, now, dialFile, known, seenFile, tail, told, glued>>

----------------------------------------------------------------------------
Next ==
  \/ Look \/ GoalSpeaks \/ RoutineSpeaks \/ NothingToSay \/ EndPoll \/ TickQuiet
  \/ \E source \in BOOLEAN : TickSpeaks(source)
  \/ Wake
  \/ \E counts \in BOOLEAN : AskedLine(counts)
  \/ \E level \in Levels : TurnDial(level)
  \/ Learn \/ Tick
  \/ Crash \/ CrashInDial \/ CrashInMark \/ Boot

Spec == Init /\ [][Next]_vars

----------------------------------------------------------------------------
\* "off: it starts nothing" (dial.py): once the person has set it, not even work that
\* was under way is said, and a restart does not undo it.
OffIsOff == [][own' > own => dialFile # "off"]_vars

\* The circuit breaker: lines of its own accord are Gap apart in real time, whatever the
\* dial and whoever makes them.  A restart forgets the last one.
Spaced == [][own' > own /\ ownAt # Never => now - ownAt >= Gap]_vars

\* What tick() says stays within the ceiling of its day and the cooldown, as they were
\* when it decided, though it counts and speaks later, the day after perhaps.
WithinTheDay ==
  [][ticked' > ticked =>
       /\ ticked' <= Ceiling[view]
       /\ tickAt # Never => now - tickAt >= Cooldown[view]]_vars

\* However restless the Keeper, and whichever of its parts speaks, its lines keep their
\* distance and the tick's its ration (server.py within_reach_floor, proactive.tick).
Paced == Spaced /\ WithinTheDay

\* "So nothing arrives twice" (SeenStore): whatever is fetched again, whenever the
\* process dies.  Excepted: a key appended to one that was cut short.
ToldOnce == \A i \in Items \ glued : told[i] <= 1

=============================================================================
