# The Keeper, specified

TLA+ specifications of [the Keeper](../README.md), a companion that runs on one
person's machine: it talks with them in a web page and on their phone, holds
reminders and runs scheduled jobs, now and then says something of its own accord, and
asks before it acts in the world. It is one Python process with one asyncio event loop
(`backend/server.py`), threads for blocking calls, and a directory of JSON and JSONL
files (`memory_store/`).

The modules are translated from the code. `PROJECT.json` names, for every definition,
the lines it stands for; the tables below name the code in words.

## Inventory

| part | state | operations | hard behaviour | what makes it correct |
|---|---|---|---|---|
| Proposals (`proposals.py`; `_decide`, `_deliver_proposal` in `server.py`) | a list of proposals in memory, the same list on disk; per turn, what was proposed in it; a card on each surface | propose, show, expire, edit, approve, decline, finish, load | two surfaces; an await on the tool server in the middle of a decision; a tool that times out and acts later; death at any point, inside a save too | an action runs at most once, on exactly what the person approved, in time; what is reported is what happened; a decision is final |
| Unbidden log and event stream (`unbidden.py`, `GET /events`, `SSEChannel`, the page's `EventSource`) | an append-only log with ids; a queue per open page; the id the page holds | record, push, connect, replay, skip, send | a stream that breaks, a replay with a limit, a torn append, a restart that loses the queues | every line once, in order, none missing that a replay can bring; cards follow what is decided |
| Reminders and jobs (`reminders.py`, `jobs.py`, first half of `_proactive_loop`) | two lists, each with a file; the loop's position, batch and sleep; the wake event | add, complete, cancel, return, claim, re-arm, sleep, wake | awaits between one reminder and the next; absence over several slots; dying after the mark and before the delivery; sleeping while something is added | a promise comes back, once, on time; a slot of a job runs once or not at all |
| Outreach loop (second half of `_proactive_loop`, `proactive.py`, `dial.py`, `sensors.py`) | last outreach, today's count, config, dial | floor, ceiling, cooldown, presence, roll, deliver | values read before awaits and used after; counters kept in memory only | never more than the dial and the ceiling allow |
| Channels (`channels.py`, `notifier.py`) | the cards asked on the phone | push, ask, settle | a decision that overtakes the answer to the ask; a call that fails after it took effect | no live button on a decided proposal |
| Telegram inbox (`inbox.py`) | the offset | skip backlog, poll, tap, command, message | redelivery, backlog after downtime, conflict | a tap is handled once and the backlog never |
| Goals (`tasks.py`, `planner.py`) | goals with steps, their file | plan, add, advance, complete, touch, nudge, execute | a step worked across awaits by a specialist that may itself move the goal on; a failure that is tried again | the work is recorded on the step that was worked; no goal starves |
| Memory (`memory.py`) | facts with validity, an archive | add, supersede, archive, distill, consolidate, recall | one thread per exchange, no lock | one current fact per matter, nothing lost |
| Sources (`sources.py`, `_poll_sources`) | what was seen, what was fetched and scored, the pending item | poll, score, keep, mark | marked before delivered; memory that moves under the scores | each item said at most once, and only while it matters |
| Routines (`routines.py`) | latches and cooldowns | observe, check, fire | latches that outlive their cause | a routine fires on its occasion |
| Sessions and turns (`sessions.py`, `_converse`, `openSession`) | a JSON file per conversation, the one that is open, turns under way | new, append, select, reply, speak, ask | a reply that comes after the page moved on; whole-file rewrite; a page redrawn under incoming lines | a line is in the conversation it was said in; a turn is shown what became of what was asked |
| Ways, drift, journal, energy | small lists and curves | add, use, forget, append | little | the bounds the code states |
| The voice (`compose.py`, `voice_eval.py`, `mood.py`, `persona.py`, `_resolve_turn`) | the register, a composition under way | hear, classify, compose, evaluate, re-voice | models that fail, judge or make things up; weights that have to outweigh each other | the person is met in their register; nothing unfit is said unbidden; facts survive |
| Tools (`tools.py`, `native_tools.py`, `compose.tool_reply`) | servers, routes, health; a loop of calls per turn and specialist | connect, offer, call, refuse, raise, answer | servers half up; rounds that run out; what each loop may reach | a loop reaches what it was meant to; a healthy server is one |
| Sub-agents and background (`subagents.py`, `background.py`) | specialists at work; tasks, in memory | decompose, route, run side by side, join, deliver | one of several failing; death with the task known in memory alone | everything that was started ends |
| a2a, retry, sandbox, embedder, instance lock, benches, scripts | little or none | | | |

How they meet: everything the Keeper says unasked goes through `_deliver_proactive`,
which consults the dial, records the line in the log and pushes it to every channel in
one go, without suspending, before the slower channels are awaited. Reminders, jobs,
routines, goals, sources and the tick are all consulted by one loop, one after the
other. Proposals are made by a turn, a job or a background task and decided by an HTTP
handler or by the inbox; both end in `_decide`. All of them share the event loop: a
handler runs alone until it awaits, so an action of the models is the code between two
awaits.

## Modules

| module | what it is |
|---|---|
| `Consent` | what is promised about acting in the world: asked, answered once, acted on at most once, on the terms of the yes |
| `Proposals` | the store, the proposer, the decision path, the tool server and the two surfaces; implements `Consent` |
| `Events` | the log, the streams and the pages |
| `Schedule` | reminders, jobs, recurrence, and the loop that returns and runs them |
| `Outreach` | what the loop says of its own accord: floor, dial, goals, routines, sources and tick |
| `Phone` | what Telegram brings in, and the cards asked and settled there |
| `Tools` | servers and routes, the loop of calls, specialists, background delegations |
| `Memory` | filing, superseding, consolidating, archiving, saving, recall |
| `Voice` | the register, the rubric, composing and re-voicing |
| `Conversation` | conversations, turns, unbidden lines and cards in them, outcomes as a turn is shown them |
| `Goals` | goals, their plans, and the loop that works them |
| `ProposalsProofs`, `OutreachProofs`, `PhoneProofs`, `MemoryProofs`, `ConversationProofs`, `GoalsProofs` | theorems about the module of that name, with their proofs |
| `ToolsProofs` | theorems about `Tools`, and about `Schedule`: what the Keeper does for the person, at once or at a time |
| `VoiceProofs` | theorems about `Voice`, and about `Events`: what the Keeper says, and how it gets to the page |
| `MC...` | the small instances, one for each |

### Proposals

`mem` is `ProposalStore.items` and `disk` the file; every operation computes the new
list and `Commit`s it to both, since `_save` is called before anything is awaited.

| code | action |
|---|---|
| `Proposer.call` then `_deliver_proposal` | `Propose` (its duplicate check is `AlreadyMade`) |
| a new `Proposer` for a new turn | `StartTurn` |
| `GET /proposals`, any read that sweeps | `Read`: expires what is stale, and the page draws what it was given |
| `_decide`: too late, no, refused edit, yes without tools, yes | `TapTooLate`, `Decline`, `EditRefused`, `ApproveUnrouted`, `Approve` |
| the tool server, its answer, its timeout | `ToolActs`, `CallReturns` |
| death between handlers, inside a save, between `apply_edit` and `mark_approved` | `Crash`, `CrashInSave`, `CrashInEdit` |
| `_load`, and dying in the save it makes | `Boot`, `BootTorn` |

A file is rewritten in place (`write_text` empties it and writes the lines in order),
so a death inside a save leaves any prefix (`Prefix`) of any list that some handler
could have been writing (`Writes`); a cut line does not parse and is passed over.
Expiry is lazy in the code and lazy here: `Swept` is what a read or a decision finds.
A timed-out call may still take effect. That is why `effects` moves on its own step,
and why what a timeout is reported as matters.

### Events

`log` is `UnbiddenLog.lines`, `file` and `tail` the file and how its last line ends.
Lines are told apart by the order in which they were said (`spoken`), which need not be
their id: a line lost to a torn append gives its id to a later one. Recording a line and
putting it on each queue is one action (`Speak`), because nothing in between suspends; a
reader that joins is `Connect`, which computes what it missed at that point, as `events()`
does. The code keeps a list of lines; `replay` is the set of their places in the log, which
name the lines as long as the process lives, since the log only grows and a death takes
every stream with it. The places go out in order (`Replay`), then the queue, of which each
payload is sent by `Send` or dropped by `Skip`. The page holds the last id it received and
hands it in when it reconnects. An outcome (`Decide`) is pushed under no id.
`CrashInRecord` leaves half a line, on which the next append is glued. Streams do not
influence each other, so one page is enough for the run; the theorems have any number.

### Schedule

Time is in abstract units, a day is `Day` of them and `Weekend` the times on a Saturday or
a Sunday. The recurrences "daily", "weekly" and "every n units" are one form, a step;
"weekdays" is the other; a phrase the code does not understand is a one-shot. The code
looks for the next working day by adding a day until one is later than now and on no
weekend; `Weekday` is the least such day, and it is at most `t + 3` days on, because a
weekend is two days long: that is all that is assumed of the calendar. `FirstAfter`, which
the properties speak of, says what the next slot should be without saying how it is found.
The clock stops at `MaxNow`; what is due after it stays waiting.

| code | action |
|---|---|
| `remind_me`, `complete_reminder`; `schedule_job`, `cancel_job` | `Remind`, `Complete`; `ScheduleJob`, `CancelJob` |
| end of `_converse`, which sets `STATE.wake` | `TurnEnds` |
| one round of the reminders' `for` | `Give` (`due()` is evaluated once: `Batch`) |
| the jobs' `for`, which never awaits | `RunJobs` |
| the rest of the loop's body, and the wait it computes | `Sleep` |
| `wait_for` ending, and `wake.clear()` | `Wake` |
| death, inside a save of either list too; start | `Crash`, `CrashInReminders`, `CrashInJobs`; `Boot` |

Everything on the loop's own initiative (presence, goals, routines, sources, the tick)
is left out but for the time it takes and the wait it asks for, which is any. What the
run of a job finds, and the record of it, are left out. A reminder is `"delivered"` or
re-armed before it is delivered, as in the code. A specialist working in the background
may add and complete reminders, and has no jobs to add.

### Outreach

The other half of the same loop, without its promises and jobs. `at` is where the loop
is between two awaits; `Look` reads the floor and the dial once, and everything that
follows in that round rests on that look.

| code | action |
|---|---|
| the look at `within_reach_floor` and `dial.level.initiative` | `Look` |
| `_maybe_advance_goal`, `_maybe_routine`: a line, or none | `GoalSpeaks`, `RoutineSpeaks`, `NothingToSay` |
| `_poll_sources`, up to the first score and after the last | `StartPoll` or `NoPoll`, `EndPoll` |
| `proactive.tick` with what it is given; its decision | `StartTick`; `TickQuiet`, `TickSpeaks` |
| `_deliver_proactive`, with the dial's backstop | `Say` |
| a job or a delegation that comes back | `AskedLine` |
| `Dial.set` from the page, the phone or a tool | `TurnDial` |
| a change of `_memory_fingerprint` | `Learn` |
| death, inside `Dial.set` or `SeenStore.mark` too; start | `Crash`, `CrashInDial`, `CrashInMark`; `Boot` |

`tick` runs in a thread on a copy of what it needs, so `view` is its dial and gates as
they were when it started. A scored item is an object that carries its relevance: what
is pending shares it with `last_items` until the next fetch makes new objects, which is
what `bears` and `shared` are for. The urge, the roll, the locked screen and the
judge's text are a choice; the judge itself is `Worth`, a relation between an item and a
state of memory, read at any moment of the scan. The demo clock's speed divides the
cooldown but not the floor, so the cooldown may be the shorter of the two, as it is for
one level of the run. A configured ceiling of 0 means none and is not covered.

### Phone

Three threads of control: the inbox, which works one update at a time and awaits a
whole turn or the tool behind a yes; the push of a proposal, which asks the phone last;
the page. `Proposals` has the whole life of a proposal, `Phone` what the phone sees.

| code | action |
|---|---|
| `skip_backlog`, its failure; `poll_once`'s request; a conflict that ends the inbox | `SkipBacklog`, `SkipFails`; `Poll`; `Conflict` |
| `poll_once`'s loop over `handle` | `Take` (`Tap`, `Command`, `Talk`, `Ignored`), `TurnEnds` |
| `_ask`: the message gets there; the id comes back and is kept; neither | `AskArrives`, `AskAnswered`, `AskFails` |
| `_decide` from the page, the tool's answer, expiry | `PageDecides`, `ToolEnds`, `Expire` |
| `_settle` | `SettleArrives`, `SettleFails` |

The offset and the ids of the cards are in memory only; Telegram lets go of an update
when a later one is asked for, and the inbox begins each life by skipping the backlog.

### Tools

A tool as a loop sees it is who answers for it (the native tools, a server, the
proposer), the server and the name; `Offered` is what `tool_reply` puts before the
model. `Connect` filters a server's list by allow list, deny list, approval and
read-only, and judges its health by what was kept. A turn and a background delegation
share nothing but the registry and are taken one at a time; a message with several
calls is taken as so many messages. Which tool a request "plainly calls for" (the one
nudge `tool_reply` gives) is open. What each native tool does is in the module of the
store it changes.

| code | action |
|---|---|
| one round of `tool_reply`: an answer; a call; its end, refusal included; an exception | `Answers`; `Calls`; `CallEnds`; `Raises` |
| `delegate`, `spawn_task` and the task it makes; `orchestrate` joining its workers | `Delegates`, `Spawns`, `BackBegins`; `TurnJoins`, `BackJoins` |
| a message of the person's or a peer's; a start | `Ask`; `Restart` |

### Memory

A list of facts is a function of the ids it holds: a fact is appended under the next
id and never moves, so the order of ids is that of the list, and what is left out of a
list is left out of the domain. `Left` is what a store may hold when the first process
starts: lists of facts in which what replaced a fact is later and the fact no longer
current, as `add` leaves them. A text is its topic and what it says of it. Two that
say the same are similar, two of one topic that differ are in the band where the judge
is asked. A thread's steps are those between two calls of the embedder or a judge, and
between the moments where threads can meet in a save: the text is made (`Renders`),
the file emptied (`Opens`), the text written (`Flushes`), over what another thread
wrote meanwhile, which may leave it torn. `archive` writes the originals away, builds
the shorter list and puts it in place, and what was appended to the old list in
between is gone (`Rebuilds`, `Rebinds`). Scores are left open: the tail that is
consolidated is any of the right size; a recall looks at any `3 * K` live facts and
puts up any `K` of them, the gate having dropped any. `safe` is what list and file
held when last nobody was filing, `cut` that the process died over a half-written
file.

### Voice

A line is the rules of the rubric it keeps and breaks; an answer is the facts and links
it holds; models say anything. One field of `models`, `fast`, stands for the model that
both grades lines and reads the mood, since `lifespan` makes the second from the first.
The local classifier has its four classes, `turn` and `neutral` among them, and the
floor of 0.15 that `build_local_mood_signal` gives it.

The weights are the code's, in eighths. The rubric's prompt asks for grades of 0, 1 and
2, and the code takes the first digit of whatever comes back, so `Graded` is any set of
answers with digits of 0 to 9. What holds of an offering line therefore has a condition
in `FitToSay` (`OutOfScale`); without it, it does not hold of the code.

`Within` says what is found inside what, since that is all `_lost_specifics` looks for:
"3" in "3:15" or spelt out in "three", a name inside another word or a link, a link in a
longer one. `Lost` is taken, as in the code, of the text with its links put back. Which
strings contain which is open: a constant, of which the run takes one of each kind.

| code | action |
|---|---|
| `_converse` up to the register: live signal, else keywords, else anchors, else what it was; `_resolve_turn` | `Hears` |
| `compose`: an attempt and its evaluation, silence, a drift note, an exception | `Composes`, `Attempts`, `Declines`, `Notes`, `Raises` |
| `revoice`: links struck out and put back (`Whole`, `Relinked`), `_lost_specifics` (`Found`, `Excused`, `Lost`) | `Revoices` |

### Conversation

`thread` is each session's messages and also its file: a session is written whole after
each append. Time is the order of what is said. A turn is two steps, its question with
what it is shown (`Begins`, `RecentOf`) and its reply; between them everything else may
happen. `turn[t].prior` is what `_recent_turns` returned, outcomes merged in by the
time of the decision: a set, since no two entries share a `ts` and their times are
their order.

| code | action |
|---|---|
| `/chat`, a message from the phone; the reply, `/error` line included | `Chats`, `PhoneTurn`; `Replies` |
| `_deliver_proactive`; `_deliver_proposal`; a decision or expiry | `Speaks`; `Asks`; `Decided` |
| `POST /sessions/select`, `/sessions/new`; two hours away | `Selects`, `BeginsAgain`; `Lapses` |
| death, in the write of a session too; start | `Dies`; `Starts` (`Resumes`) |

No turn takes longer than the two hours after which a thread is cold.

### Goals

`due` says which of two goals whose `next_check_at` has passed waited longer, as pairs:
the order is all that times are read for. `Joins` puts a goal last, `Later` takes it out.
A plan is a sequence of steps of the Keeper's or the person's, or of labels without a
step; the planner keeps the first `MaxSteps`. A step is meant by its number.

| code | action |
|---|---|
| `set_goal` (`plan`, drafted anew if found wanting; `add`), `advance_goal`, `complete_goal` | `SetsGoal`, `Reports`, `SetsDown` |
| `_maybe_advance_goal`; `_maybe_routine`, of which only the failure matters here | `TakesUp`; `Routine` |
| `_nudge_goal_step` | `Nudges` |
| `_execute_goal_step`: the specialist's work; the result worded and recorded | `Works`; `Records` |
| `next_check_at` passing | `Comes` |
| death, in a save too; start | `Dies`; `Starts` |

A specialist at work has `advance_goal` too, so `Reports` stands for it as well. A plan
of blank labels alone makes a goal with no step, active for ever and never due.

## Runs

| run | asks | bounds |
|---|---|---|
| `proposals` | the type invariant; `AtMostOnce`, `RunsWhatWasShown`, `ReportsWhatHappened`, `NoTwinCards`, `SettledIsFinal`, `NotAfterTTL`, `Implements` (of `Consent`), `ApprovedSettles` | two proposals, one turn at a time, two fields of which one is fixed, two values, one unit of life, one death |
| `events` | the type invariant; `InOrderOnce`, `CaughtUp`, `Arrives` | four lines, a replay of two, one break of the stream, two deaths |
| `events_outcome` | `SkipsOnlyTheReplayed`: fails, see findings | the same without death |
| `schedule` | the type invariant; `OncePerSlot` (`OneShotOnce`, `SlotRunsOnce`), `AfterAbsence` (`GivenOncePerAbsence`, `NoStaleRun`), `ComesBack` | two reminders, a job, a step of two units and weekdays, four instants, one of them on a weekend, one death |
| `outreach` | `ToldOnce`, `OffIsOff`, `Paced` (`Spaced`, `WithinTheDay`) | three levels, one item, two changes of memory, two days of four instants, two lines that count a day, two deaths |
| `phone` | the type invariant; `LiveButtonsExplained`, `HandledInItsTime`, `EveryUpdateTakenUp` | a card, two updates, two failed calls, two deaths |
| `tools` | the type invariant; `Confined`, `HealthIsTrue`, `EverythingEnds` | two servers, one gated tool, two rounds of a turn, one of a specialist, two specialists |
| `memory` | the type invariant; `NeverBoth`, `QuietIsKept` | two threads, one topic with two texts, an empty store or one that turned before, a budget of one fact, two filings of one claim, one death |
| `memory_again` | `AgainIsCurrent`: fails, see findings | one thread |
| `voice` | `MetWhereTheyAre`, `FitToSay`, `FactsSurvive` | scores under the floor, on it and clear of it by just the margin, in four classes; two attempts; grades of 2 throughout and one of 9; three sentences, of which two read as headlines; a number inside another, spelt out, a name inside a word and inside a link; a link that starts another and a made up one between them |
| `conversation` | the type invariant; `KeptWhereSaid`, `OutcomeIsLast` | three conversations, two turns, a proposal, an unbidden line, three turns of memory, one lapse, one death |
| `goals` | the type invariant; `RecordedWhereWorked`, `Tended` | two goals of up to two steps, one death |

Why the bounds are enough:

* Proposals do not share state but for the list and its file. Two are needed for a file
  cut between them, and for two cards of one turn; a third meets nothing new. Two
  surfaces are in every run. One death is enough for each torn state, since `_load`
  leaves none behind; dying in the save that `_load` makes (`BootTorn`) comes on top. Two
  values per field tell an edit from the draft.
* Four lines and a limit of two put one line before the replay, two in it and one after
  or beyond it; two deaths allow an append onto a torn line and a load after it.
* Four instants and a step of two let a recurring reminder be missed, be due exactly
  now and be re-armed; one instant late is within `STALE`, two are not. Two reminders
  make a batch that is under way while one of it is completed.
* Two days of four instants with a floor of two let two lines fall in one day and a
  decision taken before midnight be spoken after it; the second death is what a key
  lost on a torn line needs to be told again. One item meets itself in every fetch, and
  items share nothing but that line and the place of the pending one.

* One card is enough on the phone: cards share only the inbox, which is busy with one
  update whatever it is about. Two updates make a batch of which one is handled when
  the process dies; the second death meets a life that could not skip its backlog.
* Memory: threads meet only over texts that meet, and one topic makes all of them meet.
  Two threads are needed for an append during a rebuild and for saves that overlap; a
  budget of one makes every third fact an overflow; a store that turned before has the
  closed fact that may be found again.
* Two goals tell a goal that fails from one that starves; two steps, a step that was
  worked from the one after.
* Three conversations are the phone's, the one left and the one opened; two turns are
  one from each side, or one asking and the next shown what came of it.

Deadlock is checked for `outreach` and `voice`, which never stop, and not for the
others: the clocks, the number of proposals, lines, filings and deaths are bounded, so
a finished behaviour stops.

### Findings

1. `events_outcome`. The skip of the stream that is meant for lines the replay sent also
   drops every proposal outcome, since these carry no id, which counts as 0: a page
   that reconnected over a replayed line keeps live buttons on decided proposals.
2. `memory_again`. Said, superseded, and said again: `_find_similar` finds the closed
   fact, counts the mention and returns, and the store goes on holding the opposite as
   current.

### Met while modelling

Not run for, but seen in the models or on the way to them; each is visible as an
exception or a choice in the module named.

* `Proposals`: `Proposer.call` compares a new draft with what the earlier proposal holds
  *now*; edited meanwhile, the same draft made again in the same turn is a second card
  (`proposals.py:298` against the comment above it). `NoTwinCards` is what holds. A
  proposal whose edit was saved by a process that died before saving the yes comes back
  as the edited draft (`torn` in `RunsWhatWasShown`).
* `Events`: a page that has received no line has no id to hand in, counts as fresh when
  it reconnects, and misses what was said (`server.py:1639` against
  `static/index.html:501`). A line appended to a torn one is lost with it (`glued`).
* `Schedule`: a reminder that a background specialist adds while the loop sleeps does
  not wake it (`server.py:514` against the comment above it). A torn reminder list keeps
  the process from starting (`broken`). A one-shot marked by a process that died before
  delivering it is lost. A job that outlasts its interval is started beside itself. A
  day is 86400 seconds, whatever the clocks do.
* `Outreach`: when the next fetch is due before a change of memory is noticed, the
  pending item keeps its old score. A key appended to a torn line is told again. A
  restart forgets the floor and the day's count. The ceiling holds for the tick's own
  lines only. Dying in a write of the dial turns it to usual.
* `Phone`: a decision taken before the phone has answered the ask finds no id to edit,
  and the buttons stay (`channels.py:170` against the docstring at 97; `excused` in
  `LiveButtonsExplained`). A life that could not skip the backlog carries out what was
  sent to an earlier one (`blind`).
* `Tools`: a background task whose specialists fail or find nothing is kept as failed
  and never told, though it was promised like a reminder.
* `Memory`: a fact appended between an archive's two steps is lost; a superseded fact
  may be merged with its successor into one that counts as current; saves that overlap
  may leave a torn file, which keeps the process from starting.
* `Voice`: within the rubric's scale the penalty of seven points keeps the best possible
  offering line at 15 of 22, just under 0.70; six would let it pass. The scale is not
  enforced: one 9 earns its dimension four and a half times its weight, and a line that
  offers service passes, unbidden (`voice_eval.py:448-451` against 286, "The weight has
  to exceed the rest of the rubric combined"; `OutOfScale` in `FitToSay`). A number dropped
  from an answer passes when another holds it, as the docstring of `_lost_specifics`
  says, and a name when a word or a link does. A link inside a longer one of the same
  answer may not be put back on its own.
* `Conversation`: a proposal decided before its turn has replied is followed by the
  reply that says it is waiting (excepted in `OutcomeIsLast`). A card goes to the
  conversation that is open when it is ready, not to the asking turn's. A session file
  cut short is passed over at the start, and the conversation with it.
* `Goals`: nothing catches a model that fails while a nudge or a routine is worded
  (`server.py:1186`, 946): the proactive loop ends, with it reminders and jobs, until
  the next start, though `server.py:438` would "never let the loop die silently". If a
  turn or the specialist moves the goal on meanwhile, the step after the one that was
  worked is marked done, a person's included (`server.py:1233` against the docstring at
  1178; `moved` in `RecordedWhereWorked`). A torn goals file keeps the process from
  starting; a save cut between lines loses the goals after it.

### Fairness

Safety needs none. `Outreach`, `Memory`, `Voice` and `Conversation` have no liveness
property: nothing obliges the Keeper to speak, or a model to be of use.
`ApprovedSettles` assumes that a call which was started returns (it is wrapped in
`asyncio.wait_for`) and that a process that died is started again (the service script
does). `Arrives` assumes that an open stream is served and that a page whose stream
broke reconnects, as `EventSource` does by itself. `ComesBack` assumes that the loop
goes on when it can, that time passes and that the process is started again. Nothing
is assumed of the person or the model. `EveryUpdateTakenUp` assumes that the inbox's
task goes on and that calls to Telegram, tools and turns end, all of which have
timeouts. `EverythingEnds` assumes that a call of a model or a tool answers or is
given up, and that the event loop gets to every task. `Tended` assumes that the loop
goes on, that the reach floor opens now and then (it is a minute) and that a process
that died is started again; it excepts a dial that is off, a loop that has died and a
file that cannot be read. `ComesBack` takes the loop to be alive, which "Met while
modelling" qualifies. `Tick` waits for a sleep that is over: a timer fires when its
time comes, not units later.

## Proofs

TLAPS checks the theorems below for every value of the constants: any number of
proposals, updates, goals, facts, threads, turns, any levels, servers, plans and
scores, any number of deaths. What a component's module assumes of its constants,
under the name `...Assumption` (sizes are naturals, a model value that stands for
nothing is not one of the things, a configuration names what exists, a weekend is two
days long), is all that is assumed, and TLC evaluates it in the run. For every
component `Spec => []Inv` is proved first (`InvHolds`, `EventsInvHolds`,
`ScheduleInvHolds`) for its own inductive `Inv`, which TLC checked before, one lemma
per action or kind of step, and the theorems follow from it. In `Events` and
`Schedule` the names that a proof module would otherwise meet twice begin with the
module's.

| module | theorem | states |
|---|---|---|
| `ProposalsProofs` | `TypeCorrect`, `RunsAtMostOnce`, `ReportsTruly` | `TypeOK`, `AtMostOnce`, `ReportsWhatHappened` |
| | `SettledStays`, `NothingRunsLate` | the action properties `SettledIsFinal`, `NotAfterTTL` |
| | `StoreImplementsConsent` | `Implements`: every step is a step of `Consent` or a stutter |
| | `ApprovedIsShown`, `NeverTwice` | `RunsWhatWasShown`, `NoTwinCards` |
| `OutreachProofs` | `OffStaysOff`, `KeepsItsPace` | the action properties `OffIsOff`, `Paced` |
| | `NothingTwice` | `ToldOnce` |
| `PhoneProofs` | `TypeCorrect`, `ButtonsGo` | `TypeOK`, `LiveButtonsExplained` |
| | `OnceAndInTime` | the action property `HandledInItsTime` |
| `ToolsProofs` | `TypeCorrect`, `StaysConfined`, `HealthIsTruthful` | of `Tools`: `TypeOK`, `Confined`, `HealthIsTrue` |
| | `ScheduleTypeCorrect`, `NothingTwice` | of `Schedule`: `ScheduleTypeOK`, `OncePerSlot` |
| | `OneSlotPerAbsence` | the action property `AfterAbsence` of `Schedule` |
| `MemoryProofs` | `TypeCorrect`, `NeverShowsBoth`, `NothingIsLost` | `TypeOK`, `NeverBoth`, `QuietIsKept` |
| `VoiceProofs` | `AlwaysMet`, `AlwaysFit`, `AlwaysTrue` | of `Voice`: `MetWhereTheyAre`, `FitToSay`, `FactsSurvive` |
| | `EventsTypeCorrect`, `NoLineTwice`, `NoLineMissed` | of `Events`: `TypeOK`, `InOrderOnce`, `CaughtUp` |
| `ConversationProofs` | `TypeCorrect`, `KeepsWhereSaid`, `OutcomeComesLast` | `TypeOK`, `KeptWhereSaid`, `OutcomeIsLast` |
| `GoalsProofs` | `TypeCorrect` | `TypeOK` |
| | `RecordsWhereWorked` | the action property `RecordedWhereWorked` |

### The invariants, and why they are needed

**Proposals.** `AtMostOnce` is not inductive: a state in which a proposal was called and
is pending satisfies it and violates it one tap later. `Inv` says what the file knows.
While the process is up, list and file agree; while it is down nothing is in flight; and
at every moment a proposal that was called stands in the file as approved, done or
failed, or is gone, so no load, whole or torn, makes it pending again (`Sound`). One
lemma per handler shows `Inv'` and `Moved`, which bounds what the step does to the file,
and from `Moved` follow the action properties and the steps of `Consent`. `WritesOK` is
the heart of the crash case: every list that may be half written when the process dies
is one legal move away from the list on disk, and so is every prefix of it.
`ApprovedIsShown` needs a second invariant, `Rule1`: while a card is on a surface it
shows what an untorn pending proposal would run, and every proposal holds the
configuration's values in the fixed fields. `NeverTwice` needs a third, `Twinless`: what
a turn made is still in the list of the process the turn runs in. A step then either
leaves a draft alone or is an edit that keeps the old one beside it (`Keeps`).

**Outreach.** The properties speak of a line as it is said, the gates are read awaits
earlier. `Rested` carries the gap from `Look` to `Say`: nothing of the loop's own was
said since, the loop being one. `Rationed` does so for the tick's ceiling and cooldown;
`DialIsKept` is what makes a dial at "off" survive a restart; `Fresh` says that what
is pending was not told yet and that what was told is in the file or on a torn line.

**Phone.** `CardsFollow` explains, for each card, how it came to have no buttons or to be
excused: the answer to the ask gave an id or a reason. `OncePerLife` says that the
updates from the `Frontier` on (the next of the batch in hand, else the offset, else what
Telegram holds) were handled in no life but those that could not skip the backlog.

**Tools.** `Confined` is about one loop, and a step moves one or a few of them, so the
proof splits it by loop: what a loop calls is `Proper`, and a loop that a step does not
concern stays `Sound`. `Registry` ties the three lists of routes to the servers they came
from, which is what connecting again may not break, and `Staffed` gives every specialist
at work its profile.

**Events.** The type invariant is not inductive: a start makes the log anew, and what a
stream is to replay are places in the log, so it takes `StreamOK`, by which no closed stream
holds any. `InOrderOnce` rests on `Ahead`: a line whose id is beyond the page's last one
*was said* later than all the page has. Ids alone do not give that, since a line that was
lost with its id may have been received before; what gives it is that the id a page holds
came with a line it got, and that ids and lines have the same order in log and file.
`CaughtUp` needs more: as long as no line was appended to a torn one, ids are the places in
the file (`AllLogged`), what a page will be sent is an upper part of it, and every line
after one that it got it has, will be sent, or is more than a replay behind (`Intact`).
A stream that breaks owes what it had not brought to the next one, which asks with the last
id: that the two agree, and that a replay of the newest `Limit` lines leaves out no other
than the oldest (counting again), is the longest part of the proof.

**Schedule.** Two parts. The arithmetic of `next_occurrence` is in `EveryIs`,
`WeekdayIs` and `NextIs`: a step of a fixed length skips all that has passed in one
division and nothing else, and a working day is found and none passed over; both for
every time, step and calendar. `AfterAbsence` follows from them and from who gives and
runs. `OncePerSlot` needs `ScheduleInv`: while the process runs, what it holds is what
it saved (`Kept`), so a death can bring back no more than what a half-written save was
about to say; a one-shot that is held did not come back yet, and one on the loop's
list is still held, whatever was completed meanwhile (`ReminderOK`); the slots a job
was run for are all behind the one it waits for (`JobOK`). Ids that were not handed
out stand for nothing, in the file too, so what is asked for anew starts from nothing.

**Memory.** `QuietIsKept` holds although list, file and archive each lose facts for a
while. `Keeps` says of any set of facts that each is in the archive or in everything that
may yet become the store: the list, a list a thread has built and not put in place, the
file, a text about to be written (`InHand`). Each step `Carries` it, for all sets at
once. `Threading` says what a thread holds is of the store, and `Tame`, of every step,
that no fact comes back or is current again: that is what keeps a recall, taken in two
steps, from showing a fact and the one that replaced it.

**Voice.** Here the work is in the steps: that clear of the others by the margin there is
one class of anchors at most; that within its scale the semantic layer earns at most what
it weighs (`CreditIs`), so that no offering line reaches the threshold, while nothing is
assumed of grades beyond it but that they are digits; that every name and number of an
answer is found again or the re-voiced text is dropped. `Inherits` ties the register to the last signal, and `Composing` says
which compositions may be under way.

**Conversation.** Time orders everything, so `Ticking` says that no two things happened
at one moment, and `Turning` and `Answering` place a turn's reply after its question and
before a decision it did not wait for. `EntriesAre` and `RecentAre` say what a turn is
shown: no more than `RecentTurns` entries, and with each all that are later, which takes
counting (`FiniteSetTheorems`). `Speaking` is the one lemma behind everything that is
said; `StaysShown` says why nothing said later undoes what a turn under way was shown.

**Goals.** Steps are done in order (`GoalsOK`), so the first open step is where the goal
is; `Aligned` says the loop is at that step unless the goal was moved on, which is all
that recording needs. `OrderOK` makes `due` a total order of the goals that wait, so
there is a longest waiting one.

### What is only model-checked

* Every liveness property: `ApprovedSettles`, `Arrives`, `ComesBack`, `EverythingEnds`,
  `EveryUpdateTakenUp`, `Tended`. Fairness and `ENABLED` are beyond the provers at hand.
  Every invariant and every action property of a passing run is proved.
* The two properties that fail (see findings) and what was met beside the runs.

## Not modelled, and why

* The page beyond its event stream: how it fetches and redraws a conversation
  (`openSession`), the sidebar, the dashboard. A line pushed in while it redraws is a
  hazard without a property.
* House routines and energy: thresholds on times and real-valued curves, read in
  passing by the loop; in `Outreach` and `Goals` a routine speaks, keeps silent or fails.
* Ways, the journal, drift notes: lists of generated text with an append and a pick.
* Which words find which goal or reminder (`get`, stems): the choice is in the action.
* Prompts, wording, feeds, HTML, HTTP, metrics, the sandbox, the embedder, the notifier,
  the retries around a call and the scripts: input and output.
* Two processes at once (the stores are read when `server.py` is imported, before the
  lock is taken) and changes of the local clock.

The provers at hand cannot do induction over data either: the library states it with
operator parameters that none of them can instantiate. This is why a replay is a set of
places and the next working day a least element, and why facts, recalls and entries are
sets ordered by id or time: sequences that are only appended to, taken from the front or
indexed remain.

## What could come next

1. The page as an actor of its own: it fetches a conversation, clears and redraws while
   lines are pushed in (`openSession`). `Events` and `Conversation` would be composed.
2. What the run of a job records when it ends (`finish`), and jobs that outlast their
   interval.
3. Routines, with their latches and cooldowns, in place of the choice in `Outreach`.
4. `Events` with a page that may know it missed something before its first line, once the
   code hands in an id for it.
