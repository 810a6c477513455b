------------------------------- MODULE Events -------------------------------
(***************************************************************************)
(* What the Keeper says unasked, and how an open page hears all of it      *)
(* (backend/unbidden.py, GET /events in backend/server.py, SSEChannel in   *)
(* backend/channels.py, the EventSource in backend/static/index.html).     *)
(*                                                                         *)
(* A line is appended to the log and put on the queue of every open stream *)
(* in one go: nothing in between suspends the event loop.  A page whose    *)
(* stream broke reconnects with the id of the last line it received, and   *)
(* is sent again what the log holds after it.  A line may put a proposal   *)
(* before the person; its outcome is pushed to open streams too, without   *)
(* an id.  The process may die, in the middle of an append included.       *)
(***************************************************************************)
EXTENDS Naturals, Sequences, FiniteSets

CONSTANTS Pages,      \* the browser's open pages
          MaxLines,   \* bound: how many lines are ever said
          Asks,       \* which of the lines put a proposal before the person
          Limit,      \* the most lines one replay sends
          MaxBreaks,  \* bound: how often a stream breaks
          MaxCrashes  \* bound: how often the process may die

Numbers == 1..MaxLines

ASSUME EventsAssumption ==
  /\ MaxLines \in Nat /\ Asks \subseteq Numbers /\ Limit \in Nat \ {0}
  /\ MaxBreaks \in Nat /\ MaxCrashes \in Nat

\* What goes over a stream: a logged line under its id, or, under none, the outcome
\* of the proposal that line put.
Line    == [id : Numbers, what : Numbers]
Payload == [id : Numbers \cup {0}, what : Numbers]

VARIABLES
  up, crashes,
  spoken,     \* lines said so far; the n-th is line n, whatever id it got
  log,        \* UnbiddenLog.lines
  file, tail, \* unbidden.jsonl: what parses in it, and how its last line ends
  decided,    \* the proposals that have their answer
  stream,     \* per page: "new", "open" or "down"
  queue,      \* per page: its asyncio.Queue in STATE.listeners
  replay,     \* per page: the places in the log events() found missed and has not sent yet
  replayed,   \* per page: the id the replay got to, 0 when there was none
  last,       \* per page: the Last-Event-ID its EventSource holds, 0 for none
  live,       \* per page: proposals it shows with buttons that work
  breaks,
  \* History, for the properties.
  got,        \* per page: all it was sent
  glued       \* a line was appended to one that was cut short

logs    == <<log, file, tail>>
streams == <<stream, queue, replay, replayed>>
page    == <<last, live, got>>
events == <<up, crashes, spoken, logs, decided, streams, page, breaks, glued>>

----------------------------------------------------------------------------
(* The log.                                                                *)

LastId == IF log = <<>> THEN 0 ELSE log[Len(log)].id

NextIdM == LastId + 2                                \* mutation: ids skip
NextId  == LastId + 1

\* A file cut short takes the next append on the same line, which then parses as
\* nothing: both are lost to the next load.
Parsed == IF tail = "unended" THEN SubSeq(file, 1, Len(file) - 1) ELSE file
Written(x) == IF tail = "clean" THEN Append(file, x) ELSE Parsed

\* after: the last `limit` of the lines beyond an id, as places in the log.  The log only
\* grows while the process lives, so a place in it is the line.
RecentM(ks) == {k \in ks : Cardinality({j \in ks : j < k}) < Limit}   \* mutation: the oldest
Recent(ks)  == {k \in ks : Cardinality({j \in ks : j > k}) < Limit}
BeyondM(x, id) == x.id >= id                         \* mutation: off by one
Beyond(x, id)  == x.id > id
After(id) == Recent({k \in 1..Len(log) : Beyond(log[k], id)})

LoadedM(f) == <<>>                                   \* mutation: the file is not read
Loaded(f)  == f

----------------------------------------------------------------------------
EventsInit ==
  /\ up = TRUE /\ crashes = 0 /\ spoken = 0 /\ breaks = 0
  /\ log = <<>> /\ file = <<>> /\ tail = "clean"
  /\ decided = {}
  /\ stream = [p \in Pages |-> "new"]
  /\ queue = [p \in Pages |-> <<>>] /\ replay = [p \in Pages |-> {}]
  /\ replayed = [p \in Pages |-> 0] /\ last = [p \in Pages |-> 0]
  /\ live = [p \in Pages |-> {}]
  /\ got = [p \in Pages |-> <<>>]
  /\ glued = FALSE

----------------------------------------------------------------------------
(* What is said.                                                           *)

\* SSEChannel.deliver: on the queue of whoever is connected.
Put(q, x)  == Append(q, x)
Push(x) == queue' = [p \in Pages |-> IF stream[p] = "open" THEN Put(queue[p], x)
                                                          ELSE queue[p]]

\* _deliver_proactive, _deliver_proposal: written first, then delivered.
Said == [id |-> NextId, what |-> spoken + 1]
Speak ==
  /\ up /\ spoken < MaxLines
  /\ spoken' = spoken + 1
  /\ log' = Append(log, Said)
  /\ file' = Written(Said) /\ tail' = "clean"
  /\ glued' = (glued \/ tail # "clean")
  /\ Push(Said)
  /\ UNCHANGED <<up, crashes, decided, stream, replay, replayed, page, breaks>>

\* _push_outcome: the answer came, from this page or from the phone.
Decide(u) ==
  /\ up /\ u \in Asks /\ u <= spoken /\ u \notin decided
  /\ decided' = decided \cup {u}
  /\ Push([id |-> 0, what |-> u])
  /\ UNCHANGED <<up, crashes, spoken, logs, stream, replay, replayed, page, breaks, glued>>

----------------------------------------------------------------------------
(* One stream: events() and its generator.                                 *)

\* The queue is registered and the log read in one go.  No id, no replay.
Connect(p) ==
  /\ up /\ stream[p] # "open"
  /\ stream' = [stream EXCEPT ![p] = "open"]
  /\ replay' = [replay EXCEPT ![p] = IF last[p] = 0 THEN {} ELSE After(last[p])]
  /\ replayed' = [replayed EXCEPT ![p] = 0]
  /\ UNCHANGED <<up, crashes, spoken, logs, decided, queue, page, breaks, glued>>

Opened(p) == up /\ stream[p] = "open"

\* The page's onmessage: EventSource keeps the id; a card is drawn, or redrawn.
Receive(p, x, open) ==
  /\ got' = [got EXCEPT ![p] = Append(@, x)]
  /\ last' = [last EXCEPT ![p] = IF x.id = 0 THEN @ ELSE x.id]
  /\ live' = [live EXCEPT ![p] = IF x.what \in open THEN @ \cup {x.what}
                                                    ELSE @ \ {x.what}]

\* A missed line goes out as its proposal stands when it is sent.
Replay(p) ==
  /\ Opened(p)
  /\ \E k \in replay[p] :
       /\ \A j \in replay[p] : k <= j
       /\ Receive(p, log[k], Asks \ decided)
       /\ replayed' = [replayed EXCEPT ![p] = log[k].id]
       /\ replay' = [replay EXCEPT ![p] = @ \ {k}]
  /\ UNCHANGED <<up, crashes, spoken, logs, decided, stream, queue, breaks, glued>>

Skips(p, x) == replayed[p] # 0 /\ x.id <= replayed[p]

Next1(p) == Opened(p) /\ replay[p] = {} /\ queue[p] # <<>>
Took(p) ==
  /\ queue' = [queue EXCEPT ![p] = Tail(@)]
  /\ UNCHANGED <<up, crashes, spoken, logs, decided, stream, replay, replayed, breaks, glued>>

Skip(p) ==
  /\ Next1(p) /\ Skips(p, Head(queue[p]))
  /\ Took(p)
  /\ UNCHANGED page

\* A queued line shows its proposal as it stood when it was pushed: waiting.
Send(p) ==
  LET x == Head(queue[p]) IN
  /\ Next1(p) /\ ~Skips(p, x)
  /\ Receive(p, x, IF x.id = 0 THEN {} ELSE Asks)
  /\ Took(p)

\* The connection is lost, and with it what the queue still held.
Break(p) ==
  /\ stream[p] = "open" /\ breaks < MaxBreaks
  /\ breaks' = breaks + 1
  /\ stream' = [stream EXCEPT ![p] = "down"]
  /\ queue' = [queue EXCEPT ![p] = <<>>] /\ replay' = [replay EXCEPT ![p] = {}]
  /\ UNCHANGED <<up, crashes, spoken, logs, decided, replayed, page, glued>>

----------------------------------------------------------------------------
(* The process dies; the page keeps what it has, and its last id.          *)

Down ==
  /\ up /\ crashes < MaxCrashes
  /\ up' = FALSE /\ crashes' = crashes + 1
  /\ log' = <<>>
  /\ stream' = [p \in Pages |-> IF stream[p] = "open" THEN "down" ELSE stream[p]]
  /\ queue' = [p \in Pages |-> <<>>] /\ replay' = [p \in Pages |-> {}]
  /\ UNCHANGED <<decided, replayed, page, breaks>>

Crash == Down /\ UNCHANGED <<spoken, file, tail, glued>>

\* It dies appending: part of the line is there, or all but its line end, or all of it.
CrashInRecord(end) ==
  /\ Down /\ spoken < MaxLines
  /\ spoken' = spoken + 1
  /\ file' = IF end = "torn" THEN Parsed ELSE Written(Said)
  /\ tail' = IF end = "unended" /\ tail # "clean" THEN "torn" ELSE end
  /\ glued' = (glued \/ tail # "clean")

Boot ==
  /\ ~up /\ up' = TRUE
  /\ log' = Loaded(file)
  /\ UNCHANGED <<crashes, spoken, file, tail, decided, streams, page, breaks,
                 glued>>

----------------------------------------------------------------------------
EventsNext ==
  \/ Speak
  \/ \E u \in Asks : Decide(u)
  \/ \E p \in Pages : Connect(p) \/ Replay(p) \/ Skip(p) \/ Send(p) \/ Break(p)
  \/ Crash \/ Boot
  \/ \E end \in {"torn", "unended", "clean"} : CrashInRecord(end)

EventsSpec == EventsInit /\ [][EventsNext]_events

\* EventSource reconnects by itself, the generator is scheduled while its client
\* reads, and the process is started again.
Fairness == /\ WF_events(Boot)
            /\ \A p \in Pages : WF_events(Connect(p)) /\ WF_events(Replay(p))
                                /\ WF_events(Skip(p)) /\ WF_events(Send(p))
FairSpec == EventsSpec /\ Fairness

----------------------------------------------------------------------------
TypeOK ==
  /\ up \in BOOLEAN /\ glued \in BOOLEAN
  /\ crashes \in 0..MaxCrashes /\ breaks \in 0..MaxBreaks
  /\ spoken \in 0..MaxLines /\ decided \subseteq Asks
  /\ log \in Seq(Line) /\ file \in Seq(Line) /\ tail \in {"clean", "torn", "unended"}
  /\ stream \in [Pages -> {"new", "open", "down"}]
  /\ queue \in [Pages -> Seq(Payload)] /\ got \in [Pages -> Seq(Payload)]
  /\ replay \in [Pages -> SUBSET (1..Len(log))]
  /\ replayed \in [Pages -> 0..MaxLines] /\ last \in [Pages -> 0..MaxLines]
  /\ live \in [Pages -> SUBSET Asks]

\* Where in what it got a page has its lines.
LinesGot(p) == {k \in 1..Len(got[p]) : got[p][k].id # 0}
Has(p, x) == \E k \in LinesGot(p) : got[p][k] = x
Drained(p) == Opened(p) /\ replay[p] = {} /\ queue[p] = <<>>

\* A page is sent every line at most once, and in the order they were said, through
\* breaks, restarts, and ids given twice.
InOrderOnce ==
  \A p \in Pages : \A j, k \in LinesGot(p) : j < k => got[p][j].what < got[p][k].what

\* A stream with nothing left to send has brought every line later than any the page had,
\* or all but those one replay was too short for.  Excepted: a log in which a line was
\* appended to one cut short by a crash.
CaughtUp ==
  \A p \in Pages : Drained(p) /\ ~glued =>
    \A f \in LinesGot(p), k \in 1..Len(log) :
      log[k].what <= got[p][f].what \/ Has(p, log[k]) \/ Len(log) - k >= Limit

\* "The queue may hold a line the replay already sent" (server.py): what a stream takes
\* off its queue and does not send was sent already.
SkipsOnlyTheReplayed ==
  [][\A p \in Pages : queue[p] # <<>> /\ queue'[p] = Tail(queue[p]) /\ Opened(p)' =>
       \E k \in 1..Len(got'[p]) : got'[p][k] = Head(queue[p])]_events

\* A logged line gets to a page that had an earlier one, if the stream lasts; or the page
\* was away for more than a replay, or the log was damaged.
Due(p, u) == /\ \E k \in 1..Len(log) : log[k].what = u
             /\ \E f \in LinesGot(p) : got[p][f].what < u
Arrived(p, u) == \/ \E k \in LinesGot(p) : got[p][k].what = u
                 \/ spoken >= u + Limit \/ glued
Arrives == \A p \in Pages, u \in Numbers : Due(p, u) ~> Arrived(p, u)
=============================================================================
