------------------------------ MODULE Schedule ------------------------------
(***************************************************************************)
(* What the Keeper was asked to do at a time: reminders it returns, jobs   *)
(* it runs (backend/reminders.py, backend/jobs.py), and the one loop that  *)
(* gets round to them (_proactive_loop in backend/server.py).              *)
(*                                                                         *)
(* The loop returns the reminders that were due when it looked, one at a   *)
(* time, and delivering one suspends it.  It claims the due jobs in one    *)
(* go, to run in tasks of their own.  It spends some time on its own       *)
(* initiative, and sleeps, to the next due time at most, unless a turn of  *)
(* conversation wakes it.  Meanwhile the person, or a specialist working   *)
(* in the background, adds and completes.  The process may die anywhere,   *)
(* inside a save included; a list of reminders with a cut line in it never *)
(* loads.                                                                  *)
(***************************************************************************)
EXTENDS Integers, Sequences, FiniteSetsExt

CONSTANTS Reminders, Jobs,  \* their ids, in the order of the files: numbers from 1
          Recurrences,      \* the recurrences reminders are asked for with, see Repeat
          JobRecurrences,   \* and jobs
          Times,            \* the first times asked for, past ones too
          Day, Weekend,     \* what a day is, and the times on a Saturday or a Sunday
          STALE,            \* how late a job may still run
          MaxWait,          \* the longest the loop sleeps when nothing is due
          MaxNow,           \* bound: the clock stops here, and stands for all later
          MaxCrashes        \* bound: how often the process may die

\* "once", "every" so many units, or "weekdays".
Repeat == [kind : {"once", "every", "weekdays"}, step : Nat]
NoTime == -1

ASSUME ScheduleAssumption ==
  /\ Reminders \subseteq Nat /\ Jobs \subseteq Nat
  /\ Recurrences \subseteq Repeat /\ JobRecurrences \subseteq Repeat
  /\ Times \subseteq Nat
  /\ Day \in Nat \ {0} /\ STALE \in Nat
  /\ Weekend \subseteq Nat
  /\ \A n \in Weekend : ~({n + Day, n + 2 * Day} \subseteq Weekend)  \* it is two days long
  /\ MaxWait \in Nat \ {0} /\ MaxNow \in Nat /\ MaxCrashes \in Nat

VARIABLES
  up, now, crashes,
  rem, job,     \* ReminderStore.items, JobStore.items
  file,         \* reminders.jsonl and jobs.jsonl
  broken,       \* reminders.jsonl holds a line that is not JSON
  at,           \* where the loop is: "top", "giving", "busy" or "asleep"
  batch,        \* the rest of the reminders it found due
  wakeAt,       \* when its sleep ends
  wake,         \* STATE.wake, the event that ends it early
  talking,      \* a turn of conversation is under way
  asked,        \* the ids handed out: uuid4, never given twice
  \* History, for the properties.
  given,        \* per reminder, how often it came back
  started       \* per job, the slots it was run for, in the order of the runs

position == <<at, batch, wakeAt>>
hist     == <<given, started>>
schedule == <<up, now, crashes, rem, job, file, broken, position, wake, talking, asked, hist>>

Reminder == [status : {"none", "held", "delivered"}, done : BOOLEAN, due : Nat, repeat : Repeat]
Job      == [status : {"none", "enabled", "disabled"}, next : Nat, repeat : Repeat]
Once     == [kind |-> "once", step |-> 0]
NoReminder == [status |-> "none", done |-> FALSE, due |-> 0, repeat |-> Once]
NoJob      == [status |-> "none", next |-> 0, repeat |-> Once]

----------------------------------------------------------------------------
(* Recurrence.                                                             *)

\* The next occurrence after t, or none for a one-shot or a step of nothing.
EveryM(due, step, t) == due + step                   \* mutation: catch up on each one
Every(due, step, t) ==
  LET nxt == due + step IN
  IF nxt <= t THEN nxt + ((t - nxt) \div step + 1) * step ELSE nxt
\* A day at a time until one is later and on no weekend: t + 3 days on at the latest.
Weekday(due, t) ==
  Min({n \in {due + k * Day : k \in 1..(t + 3)} : n > t /\ n \notin Weekend})
NextOccurrence(due, repeat, t) ==
  CASE repeat.kind = "weekdays" -> Weekday(due, t)
    [] repeat.kind = "every" /\ repeat.step > 0 -> Every(due, repeat.step, t)
    [] OTHER -> NoTime

\* A recurring one asked for at a time already past starts at its next slot.
FirstM(t, repeat) ==                                 \* mutation: a one-shot too
  IF t <= now THEN NextOccurrence(t, repeat, now) ELSE t
First(t, repeat) ==
  IF t <= now /\ NextOccurrence(t, repeat, now) # NoTime
  THEN NextOccurrence(t, repeat, now) ELSE t

----------------------------------------------------------------------------
(* The stores.                                                             *)

Pending(r) == rem[r].status = "held" /\ ~rem[r].done
IsDueM(r) ==                                         \* mutation: dropped when late, like a job
  Pending(r) /\ rem[r].due <= now /\ now - rem[r].due <= STALE
IsDue(r) == Pending(r) /\ rem[r].due <= now

\* mark_delivered: retired, or re-armed.
Returned(r) ==
  LET nxt == NextOccurrence(rem[r].due, rem[r].repeat, now) IN
  IF nxt = NoTime THEN [rem EXCEPT ![r].status = "delivered"]
                  ELSE [rem EXCEPT ![r].due = nxt]

Active(j) == job[j].status = "enabled"
JobDue(j) == Active(j) /\ job[j].next <= now

\* claim: re-armed before it runs, and not run when it is too late to be worth it.
RearmedM(j) == job[j]                                \* mutation: re-armed once it is done
Rearmed(j) ==
  LET nxt == NextOccurrence(job[j].next, job[j].repeat, now) IN
  IF nxt = NoTime THEN [job[j] EXCEPT !.status = "disabled"]
                  ELSE [job[j] EXCEPT !.next = nxt]
Claimed(js) == [j \in Jobs |-> IF j \in js THEN Rearmed(j) ELSE job[j]]
WorthIt(j) == now - job[j].next <= STALE

Save(rs, js) == /\ rem' = rs /\ job' = js
                /\ file' = [rem |-> rs, job |-> js]

----------------------------------------------------------------------------
ScheduleInit ==
  /\ up = TRUE /\ now = 0 /\ crashes = 0
  /\ rem = [r \in Reminders |-> NoReminder] /\ job = [j \in Jobs |-> NoJob]
  /\ file = [rem |-> rem, job |-> job] /\ broken = FALSE
  /\ at = "top" /\ batch = {} /\ wakeAt = 0
  /\ wake = FALSE /\ talking = FALSE
  /\ given = [r \in Reminders |-> 0] /\ started = [j \in Jobs |-> <<>>]
  /\ asked = [reminders |-> 0, jobs |-> 0]

----------------------------------------------------------------------------
(* What is asked of it: in a turn of conversation, which ends by setting   *)
(* the wake event, or, reminders only, by a specialist in the background.  *)

Asked == UNCHANGED <<up, now, crashes, broken, position, wake, given, started>>

Remind(r, t, repeat, chat) ==
  /\ up /\ r = asked.reminders + 1
  /\ asked' = [asked EXCEPT !.reminders = r]
  /\ Save([rem EXCEPT ![r] = [status |-> "held", done |-> FALSE,
                              due |-> First(t, repeat), repeat |-> repeat]], job)
  /\ talking' = (talking \/ chat)
  /\ Asked

Complete(r, chat) ==
  /\ up /\ rem[r].status # "none" /\ ~rem[r].done
  /\ Save([rem EXCEPT ![r].done = TRUE], job)
  /\ talking' = (talking \/ chat)
  /\ Asked /\ UNCHANGED asked

ScheduleJob(j, t, repeat) ==
  /\ up /\ j = asked.jobs + 1
  /\ asked' = [asked EXCEPT !.jobs = j]
  /\ Save(rem, [job EXCEPT ![j] = [status |-> "enabled", next |-> First(t, repeat),
                                   repeat |-> repeat]])
  /\ talking' = TRUE
  /\ Asked

CancelJob(j) ==
  /\ up /\ Active(j)
  /\ Save(rem, [job EXCEPT ![j].status = "disabled"])
  /\ talking' = TRUE
  /\ Asked /\ UNCHANGED asked

TurnEnds ==
  /\ up /\ talking
  /\ talking' = FALSE /\ wake' = TRUE
  /\ UNCHANGED <<up, now, crashes, rem, job, file, broken, position, asked, hist>>

----------------------------------------------------------------------------
(* The loop.                                                               *)

\* due() is asked once, at the top; completing one later does not take it off the list.
Batch == IF at = "top" THEN {r \in Reminders : IsDue(r)} ELSE batch

\* Marked, then delivered; delivering suspends the loop.
Give ==
  LET r == Min(Batch) IN
  /\ up /\ at \in {"top", "giving"} /\ Batch # {}
  /\ Save(Returned(r), job)
  /\ at' = "giving" /\ batch' = Batch \ {r}
  /\ given' = [given EXCEPT ![r] = @ + 1]
  /\ UNCHANGED <<up, now, crashes, broken, wakeAt, wake, talking, started, asked>>

\* No await between the jobs that are due; a run not too late starts beside the loop.
RunJobs ==
  LET due == {j \in Jobs : JobDue(j)} IN
  /\ up /\ at \in {"top", "giving"} /\ Batch = {}
  /\ Save(rem, Claimed(due))
  /\ started' = [j \in Jobs |-> IF j \in due /\ WorthIt(j)
                               THEN Append(started[j], job[j].next) ELSE started[j]]
  /\ at' = "busy"
  /\ UNCHANGED <<up, now, crashes, broken, batch, wakeAt, wake, talking, given,
                 asked>>

\* Presence, goals, routines, sources, the tick: whatever they do takes a while.  Then
\* the wait they chose, cut to the next thing that is due (to a second when that is past).
Upcoming == {rem[r].due : r \in {x \in Reminders : Pending(x)}}
            \cup {job[j].next : j \in {x \in Jobs : Active(x)}}
Until(t) == Max({now, Min({t} \cup Upcoming)})
Sleep(wait) ==
  /\ up /\ at = "busy"
  /\ at' = "asleep" /\ wakeAt' = Until(now + wait)
  /\ UNCHANGED <<up, now, crashes, rem, job, file, broken, batch, wake, talking, asked, hist>>

Rises == at = "asleep" /\ (now >= wakeAt \/ wake \/ now = MaxNow)
Wake ==
  /\ up /\ Rises
  /\ at' = "top" /\ wake' = FALSE
  /\ UNCHANGED <<up, now, crashes, rem, job, file, broken, batch, wakeAt, talking,
                 given, started, asked>>

\* Timers are kept: time does not run past a sleep that is over.
Tick ==
  /\ now < MaxNow /\ ~(up /\ (at = "top" \/ Rises))
  /\ now' = now + 1
  /\ UNCHANGED <<up, crashes, rem, job, file, broken, position, wake, talking, asked, hist>>

----------------------------------------------------------------------------
(* The process dies.                                                       *)

Down ==
  /\ up /\ crashes < MaxCrashes
  /\ up' = FALSE /\ crashes' = crashes + 1
  /\ rem' = [r \in Reminders |-> NoReminder] /\ job' = [j \in Jobs |-> NoJob]
  /\ at' = "top" /\ batch' = {} /\ wakeAt' = 0
  /\ wake' = FALSE /\ talking' = FALSE
  /\ UNCHANGED <<now, given, started, asked>>

Crash == Down /\ UNCHANGED <<file, broken>>

\* Inside a save of the reminders: the first k are written, and part of the next or not.
Upto(f, k, none) == [i \in DOMAIN f |-> IF i <= k THEN f[i] ELSE none]
ReminderWrites ==
  {rem} \cup {[rem EXCEPT ![r].done = TRUE] : r \in {x \in Reminders : Pending(x)}}
        \cup IF at \in {"top", "giving"} /\ Batch # {} THEN {Returned(Min(Batch))} ELSE {}
CrashInReminders ==
  /\ Down
  /\ \E w \in ReminderWrites, k \in 0..Cardinality(Reminders), part \in BOOLEAN :
       /\ file' = [file EXCEPT !.rem = Upto(w, k, NoReminder)]
       /\ broken' = (part /\ \E r \in Reminders :
                       r > k /\ (w[r].status # "none" \/ r = asked.reminders + 1))

\* Inside a claim's save, some of the due jobs claimed: a cut line is passed over.
CrashInJobs ==
  /\ Down
  /\ \E js \in SUBSET {j \in Jobs : JobDue(j)}, k \in 0..Cardinality(Jobs) :
       file' = [file EXCEPT !.job = Upto(Claimed(js), k, NoJob)]
  /\ UNCHANGED broken

\* ReminderStore._load raises on a cut line, and with it the start.
Boot ==
  /\ ~up /\ ~broken
  /\ up' = TRUE /\ rem' = file.rem /\ job' = file.job
  /\ UNCHANGED <<now, crashes, file, broken, position, wake, talking, asked, hist>>

----------------------------------------------------------------------------
Loop == Give \/ RunJobs \/ Wake \/ \E wait \in 1..MaxWait : Sleep(wait)

ScheduleNext ==
  \/ \E r \in Reminders, chat \in BOOLEAN :
       Complete(r, chat) \/ \E t \in Times, repeat \in Recurrences : Remind(r, t, repeat, chat)
  \/ \E j \in Jobs : CancelJob(j) \/ \E t \in Times, repeat \in JobRecurrences : ScheduleJob(j, t, repeat)
  \/ TurnEnds
  \/ Loop
  \/ Tick \/ Crash \/ CrashInReminders \/ CrashInJobs \/ Boot

ScheduleSpec == ScheduleInit /\ [][ScheduleNext]_schedule

\* The event loop gets round to a task that is ready, timers fire, the process is
\* started again.
ScheduleFairness == WF_schedule(Loop) /\ WF_schedule(Tick) /\ WF_schedule(Boot)
FairSpec == ScheduleSpec /\ ScheduleFairness

----------------------------------------------------------------------------
ScheduleTypeOK ==
  /\ up \in BOOLEAN /\ now \in 0..MaxNow /\ crashes \in 0..MaxCrashes
  /\ rem \in [Reminders -> Reminder] /\ job \in [Jobs -> Job]
  /\ file \in [rem : [Reminders -> Reminder], job : [Jobs -> Job]] /\ broken \in BOOLEAN
  /\ at \in {"top", "giving", "busy", "asleep"} /\ batch \subseteq Reminders /\ wakeAt \in Nat
  /\ wake \in BOOLEAN /\ talking \in BOOLEAN
  /\ given \in [Reminders -> Nat] /\ started \in [Jobs -> Seq(Nat)]
  /\ asked \in [reminders : Nat, jobs : Nat]

\* The slots a recurrence stands for, and the first one after t.
Recurs(repeat) == repeat.kind = "weekdays" \/ (repeat.kind = "every" /\ repeat.step > 0)
Slot(n, due, repeat) ==
  IF repeat.kind = "weekdays"
  THEN n \notin Weekend /\ \E k \in 1..n : n = due + k * Day
  ELSE \E k \in 1..n : n = due + k * repeat.step
FirstAfter(n, due, repeat, t) ==
  n > t /\ Slot(n, due, repeat) /\ \A m \in t + 1 .. n - 1 : ~Slot(m, due, repeat)

\* Coming back after however long, a recurring reminder is given once and then waits for
\* the first slot still to come: no storm of missed ones, and none passed over.
GivenOncePerAbsence ==
  [][\A r \in Reminders : given'[r] # given[r] /\ Recurs(rem[r].repeat) =>
       FirstAfter(rem'[r].due, rem[r].due, rem[r].repeat, now)]_schedule

\* A one-shot comes back once, whatever is completed, cut short or restarted meanwhile.
OneShotOnce ==
  \A r \in Reminders : file.rem[r].status # "none" /\ ~Recurs(file.rem[r].repeat) =>
    given[r] <= 1

\* Rule 1 of jobs.py: no slot of a job is run twice, not even after dying in the middle.
SlotRunsOnce ==
  \A j \in Jobs : \A m, n \in 1..Len(started[j]) : m < n => started[j][m] < started[j][n]

\* Rule 2: a run that is badly late is skipped, and costs the absence one slot.
NoStaleRun ==
  [][\A j \in Jobs : Len(started'[j]) > Len(started[j]) => now - job[j].next <= STALE]_schedule

\* Nothing comes back twice: no one-shot reminder, no slot of a job (reminders.py
\* mark_delivered, jobs.py claim).
OncePerSlot == OneShotOnce /\ SlotRunsOnce

\* After an absence of any length what recurs is given, or run, once and not late, and
\* its next slot is the first still to come (reminders.py next_occurrence, jobs.py claim).
AfterAbsence == GivenOncePerAbsence /\ NoStaleRun

\* A reminder whose time has come comes back or is completed, if the list survives.
Waiting(r) == LET s == IF up THEN rem[r] ELSE file.rem[r]
              IN s.status = "held" /\ ~s.done /\ s.due <= now
ComesBack == \A r \in Reminders : Waiting(r) ~> (~Waiting(r) \/ broken)
=============================================================================
