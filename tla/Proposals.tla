------------------------------ MODULE Proposals ------------------------------
(***************************************************************************)
(* Proposals: what the Keeper wants to do in the world and may not do      *)
(* without a yes (backend/proposals.py, and the decision path in           *)
(* backend/server.py).                                                     *)
(*                                                                         *)
(* One process, one event loop.  The store is a list kept in memory and    *)
(* rewritten whole to disk by every operation that changes it.  A person   *)
(* answers from the web page or from Telegram, by the card that surface    *)
(* happens to show.  Approving awaits the tool server, which may do the    *)
(* thing and answer, do it and answer too late, or never do it.  The       *)
(* process may die anywhere, a half-written store file included.           *)
(***************************************************************************)
EXTENDS Integers, FiniteSets

CONSTANTS MaxId,        \* bound: how many proposals are ever made
          Fields,       \* the fields of the tool's arguments
          Values,       \* what a field can hold
          Fixed,        \* what the configuration supplies: a function on some Fields
          Unknown,      \* a field the draft does not have
          NoArgs,       \* no arguments
          Turns,        \* conversations or tasks that hold a Proposer
          TTL,          \* how long a proposal may be answered
          MaxNow,       \* bound: the clock stops here
          MaxCrashes    \* bound: how often the running process may die

Args == [Fields -> Values]
Ids  == 1..MaxId
Surfaces == {"web", "telegram"}

ASSUME ProposalsAssumption ==
  /\ MaxId \in Nat /\ TTL \in Nat \ {0} /\ MaxNow \in Nat /\ MaxCrashes \in Nat
  /\ NoArgs \notin Args
  /\ Unknown \notin Fields
  /\ DOMAIN Fixed \subseteq Fields
  /\ \A k \in DOMAIN Fixed : Fixed[k] \in Values

Settled  == {"done", "declined", "expired", "failed"}
Statuses == Settled \cup {"pending", "approved", "none"}

\* "none": the store holds no such proposal (not made yet, or lost with the file).
Proposal == [status : Statuses, args : Args \cup {NoArgs},
             original : Args \cup {NoArgs}, expires : Nat]
Blank == [status |-> "none", args |-> NoArgs, original |-> NoArgs, expires |-> 0]
Empty == [i \in Ids |-> Blank]

VARIABLES
  up,         \* the process is running
  mcp,        \* the tool server connected when the process started
  now,        \* time.time(), in TTL units
  minted,     \* ids handed out so far (uuid4: never reused)
  mem,        \* ProposalStore.items
  disk,       \* memory_store/proposals.jsonl
  inflight,   \* decisions awaiting call_proposable
  shown,      \* per surface, the arguments on the card it shows for a proposal
  made,       \* per turn, Proposer._made
  crashes,    \* how often the process died
  \* History, for the properties: what the tool server was asked and did.
  called, calledWith, effects,
  consented,  \* the arguments the person had in front of them when they approved
  torn        \* proposals whose edit was saved by a process that died before the yes

store   == <<mem, disk>>
proc    == <<up, mcp, crashes>>
world   == <<called, calledWith, effects, consented>>
vars == <<proc, now, minted, store, inflight, shown, made, world, torn>>

----------------------------------------------------------------------------
(* The store's operations: what each one makes of the list.               *)

\* expire_stale: TTL_S counts from creation, and a proposal is gone AT expires_at.
StaleM(p) == p.status = "pending" /\ p.expires < now   \* mutation: off by one
Stale(p)  == p.status = "pending" /\ p.expires <= now
Expired(s) == [i \in Ids |-> IF Stale(s[i]) THEN [s[i] EXCEPT !.status = "expired"]
                                            ELSE s[i]]

Added(s, i, a) == [s EXCEPT ![i] = [status |-> "pending", args |-> a,
                     original |-> NoArgs, expires |-> now + TTL]]

Declined(s, i) == [s EXCEPT ![i].status = "declined"]

Merge(a, e) == [k \in Fields |-> IF k \in DOMAIN e THEN e[k] ELSE a[k]]
LockedM(a, e) == FALSE                               \* mutation: fixed fields editable
Locked(a, e) == \E k \in DOMAIN e \cap DOMAIN Fixed : e[k] # a[k]

\* apply_edit: refused, or the edit merged in and the draft kept beside it.
Refused(a, e) == (\E k \in DOMAIN e : k \notin Fields) \/ Locked(a, e)
EditedM(s, i, e) == [s EXCEPT ![i].args = e]      \* mutation: the edit replaces the draft
Edited(s, i, e) ==
  IF Merge(s[i].args, e) = s[i].args THEN s
  ELSE [s EXCEPT ![i].original = s[i].args, ![i].args = Merge(s[i].args, e)]

Approved(s, i) == [s EXCEPT ![i].status = "approved"]

\* finish: looks_failed decides, from what call_proposable returned.
LooksFailedM(answer) == FALSE                        \* mutation: a timeout reads as done
LooksFailed(answer) == answer # "ok"
Finished(s, i, answer) ==
  [s EXCEPT ![i].status = IF LooksFailed(answer) THEN "failed" ELSE "done"]

\* _load: approved but unfinished is failed, never retried.
TornStatusM(status) == status                        \* mutation: left as found
TornStatus(status)  == IF status = "approved" THEN "failed" ELSE status
Loaded(s) == [i \in Ids |-> [s[i] EXCEPT !.status = TornStatus(s[i].status)]]

\* _save opens the file for writing, which empties it, and writes the lines in
\* order: dying inside it leaves the first k of them (a cut line does not parse).
Prefix(s, k) == [i \in Ids |-> IF i <= k THEN s[i] ELSE Blank]

Commit(s) == mem' = s /\ disk' = s
----------------------------------------------------------------------------
Init ==
  /\ up = TRUE /\ mcp = TRUE /\ crashes = 0
  /\ now = 0 /\ minted = 0
  /\ mem = Empty /\ disk = Empty
  /\ inflight = {}
  /\ shown = [s \in Surfaces |-> [i \in Ids |-> NoArgs]]
  /\ made = [t \in Turns |-> {}]
  /\ called = [i \in Ids |-> 0] /\ effects = [i \in Ids |-> 0]
  /\ calledWith = [i \in Ids |-> NoArgs]
  /\ consented = [i \in Ids |-> NoArgs]
  /\ torn = {}

----------------------------------------------------------------------------
(* The model's side: Proposer.call.                                        *)

\* {**args, **fixed}: the configuration's values win.
Drafts == {a \in Args : \A k \in DOMAIN Fixed : a[k] = Fixed[k]}

\* A new Proposer for a new turn.
StartTurn(t) ==
  /\ up /\ made[t] # {}
  /\ made' = [made EXCEPT ![t] = {}]
  /\ UNCHANGED <<proc, now, minted, store, inflight, shown, world, torn>>

\* Made earlier in this turn: compared with the arguments that one holds NOW.
AlreadyMadeM(t, a) == FALSE                          \* mutation: no check
AlreadyMade(t, a)  == \E j \in made[t] : mem[j].args = a

\* Recorded, then put on every surface that will carry it.
Propose(t, a) ==
  LET i == minted + 1 IN
  /\ up /\ mcp /\ i \in Ids
  /\ ~AlreadyMade(t, a)
  /\ minted' = i
  /\ Commit(Added(mem, i, a))
  /\ made' = [made EXCEPT ![t] = @ \cup {i}]
  /\ \E reached \in SUBSET Surfaces :
       shown' = [s \in Surfaces |-> [shown[s] EXCEPT ![i] =
                                       IF s \in reached THEN a ELSE NoArgs]]
  /\ UNCHANGED <<proc, now, inflight, world, torn>>

----------------------------------------------------------------------------
(* The person's side: _decide, from a card on some surface.                *)

\* Every read of the queue retires what went stale first.
Swept == Expired(mem)

\* The queue is read: by GET /proposals, which draws every card on the page; by the
\* replay of one logged line, which draws that one; by the brief, the history's notes
\* and the read-back after a decision, which draw none.
Read(drawn) ==
  /\ up
  /\ Commit(Swept)
  /\ shown' = [shown EXCEPT !["web"] = [i \in Ids |->
        IF i \notin drawn THEN @[i]
        ELSE IF Swept[i].status = "pending" THEN mem[i].args ELSE NoArgs]]
  /\ UNCHANGED <<proc, now, minted, inflight, made, world, torn>>

CanTap(i, s) == up /\ shown[s][i] # NoArgs
StillPendingM(i) == Swept[i].status # "approved"     \* mutation: only a running one is refused
StillPending(i) == Swept[i].status = "pending"

Turned == <<proc, now, minted, shown, made, torn>>

\* "No such proposal", "Already ...": told what happened, changes nothing.
TapTooLate(i, s) ==
  /\ CanTap(i, s) /\ ~StillPending(i)
  /\ Commit(Swept)
  /\ UNCHANGED <<Turned, inflight, world>>

Decline(i, s) ==
  /\ CanTap(i, s) /\ StillPending(i)
  /\ Commit(Declined(Swept, i))
  /\ UNCHANGED <<Turned, inflight, world>>

\* Edits come from the page alone; Telegram's button carries none.
Edits(s) == IF s = "web" THEN UNION {[E -> Values] : E \in SUBSET (Fields \cup {Unknown})}
                         ELSE {[k \in {} |-> NoArgs]}

EditRefused(i, s, e) ==
  /\ CanTap(i, s) /\ StillPending(i)
  /\ Refused(Swept[i].args, e)
  /\ Commit(Swept)
  /\ UNCHANGED <<Turned, inflight, world>>

\* Saved as approved BEFORE the call; the call suspends the handler.
SaveApprovedM(s) == mem' = s /\ disk' = disk         \* mutation: not saved first
SaveApproved(s)  == Commit(s)
Approve(i, s, e) ==
  LET st == Approved(Edited(Swept, i, e), i) IN
  /\ CanTap(i, s) /\ StillPending(i)
  /\ ~Refused(Swept[i].args, e)
  /\ mcp
  /\ SaveApproved(st)
  /\ inflight' = inflight \cup {i}
  /\ called' = [called EXCEPT ![i] = @ + 1]
  /\ calledWith' = [calledWith EXCEPT ![i] = st[i].args]
  /\ consented' = [consented EXCEPT ![i] = Merge(shown[s][i], e)]
  /\ UNCHANGED <<Turned, effects>>

\* No route to the tool: call_proposable answers at once, without suspending.
ApproveUnrouted(i, s, e) ==
  LET st == Finished(Approved(Edited(Swept, i, e), i), i, "unrouted") IN
  /\ CanTap(i, s) /\ StillPending(i)
  /\ ~Refused(Swept[i].args, e)
  /\ ~mcp
  /\ Commit(st)
  /\ UNCHANGED <<Turned, inflight, world>>

----------------------------------------------------------------------------
(* The tool server, and what comes back.                                   *)

\* It does what it was asked, in its own time: also after the answer was given up on.
ToolActs(i) ==
  /\ effects[i] < called[i]
  /\ effects' = [effects EXCEPT ![i] = @ + 1]
  /\ UNCHANGED <<proc, now, minted, store, inflight, shown, made,
                 called, calledWith, consented, torn>>

\* _invoke returns: the result, an error, or "(tool timed out" after CALL_TIMEOUT_S.
Answers == {"ok", "error", "timeout"}
MayAnswer(i) == IF effects[i] = called[i] THEN Answers ELSE Answers \ {"ok"}
CallReturns(i, answer) ==
  /\ up /\ i \in inflight
  /\ answer \in MayAnswer(i)
  /\ inflight' = inflight \ {i}
  /\ Commit(Finished(mem, i, answer))
  /\ UNCHANGED <<Turned, world>>

----------------------------------------------------------------------------
Tick ==
  /\ now < MaxNow
  /\ now' = now + 1
  /\ UNCHANGED <<proc, minted, store, inflight, shown, made, world, torn>>

\* Every file a handler may be in the middle of writing, an edit's apart.  (mem: the
\* way an edit taught is noted on the card and saved; the note itself is left out.)
Writes ==
  {mem, Swept}
  \cup {Added(mem, minted + 1, a) : a \in IF minted < MaxId /\ mcp THEN Drafts ELSE {}}
  \cup {Declined(Swept, i) : i \in {j \in Ids : StillPending(j)}}
  \cup {Approved(Swept, i) : i \in {j \in Ids : StillPending(j)}}
  \cup UNION {{Finished(mem, i, answer) : answer \in MayAnswer(i)} : i \in inflight}

Down ==
  /\ up' = FALSE /\ mem' = Empty /\ inflight' = {}
  /\ made' = [t \in Turns |-> {}]
  /\ crashes' = crashes + 1
  /\ UNCHANGED <<mcp, now, shown, world>>

\* The process dies between two handlers, with every save complete.
Crash ==
  /\ up /\ crashes < MaxCrashes
  /\ Down
  /\ UNCHANGED <<disk, minted, torn>>

\* It dies inside a save.  A proposal in the file was minted, shown or not.
CrashInSave ==
  /\ up /\ crashes < MaxCrashes
  /\ Down
  /\ \E w \in Writes, k \in 0..MaxId : disk' = Prefix(w, k)
  /\ minted' = IF \E i \in Ids : i > minted /\ disk'[i].status # "none"
               THEN minted + 1 ELSE minted
  /\ UNCHANGED torn

\* It dies inside apply_edit's save, or between it and mark_approved's.
CrashInEdit(i, e) ==
  /\ CanTap(i, "web") /\ StillPending(i) /\ crashes < MaxCrashes
  /\ ~Refused(Swept[i].args, e)
  /\ Edited(Swept, i, e) # Swept
  /\ Down
  /\ \E k \in 0..MaxId : disk' = Prefix(Edited(Swept, i, e), k)
  /\ torn' = torn \cup {i}
  /\ UNCHANGED minted

\* The next process loads the file, and connects to the tool server or does not.
Boot ==
  /\ ~up /\ up' = TRUE
  /\ Commit(Loaded(disk))
  /\ mcp' \in BOOLEAN
  /\ UNCHANGED <<crashes, now, minted, inflight, shown, made, world, torn>>

\* It dies while _load saves what it failed: once at most for each time it died before.
BootTorn ==
  /\ ~up
  /\ Loaded(disk) # disk
  /\ \E k \in 0..MaxId : disk' = Prefix(Loaded(disk), k)
  /\ UNCHANGED <<proc, now, minted, mem, inflight, shown, made, world, torn>>

----------------------------------------------------------------------------
Decision(i, s) == \/ TapTooLate(i, s) \/ Decline(i, s)
                  \/ \E e \in Edits(s) : \/ EditRefused(i, s, e)
                                         \/ Approve(i, s, e)
                                         \/ ApproveUnrouted(i, s, e)
Returns(i) == \E answer \in Answers : CallReturns(i, answer)

Next ==
  \/ \E t \in Turns : StartTurn(t) \/ \E a \in Drafts : Propose(t, a)
  \/ \E drawn \in SUBSET Ids : Read(drawn)
  \/ \E i \in Ids, s \in Surfaces : Decision(i, s)
  \/ \E i \in Ids : ToolActs(i) \/ Returns(i)
  \/ \E i \in Ids : \E e \in Edits("web") : CrashInEdit(i, e)
  \/ Tick \/ Crash \/ CrashInSave \/ Boot \/ BootTorn

Spec == Init /\ [][Next]_vars

\* asyncio.wait_for gives every call an end, and the process is started again.
Fairness == WF_vars(Boot) /\ \A i \in Ids : WF_vars(Returns(i))
FairSpec == Spec /\ Fairness

----------------------------------------------------------------------------
TypeOK ==
  /\ up \in BOOLEAN /\ mcp \in BOOLEAN /\ crashes \in 0..MaxCrashes
  /\ now \in 0..MaxNow /\ minted \in 0..MaxId
  /\ mem \in [Ids -> Proposal] /\ disk \in [Ids -> Proposal]
  /\ inflight \subseteq Ids /\ torn \subseteq Ids
  /\ shown \in [Surfaces -> [Ids -> Args \cup {NoArgs}]]
  /\ made \in [Turns -> SUBSET Ids]
  /\ called \in [Ids -> Nat] /\ effects \in [Ids -> Nat]
  /\ calledWith \in [Ids -> Args \cup {NoArgs}]
  /\ consented \in [Ids -> Args \cup {NoArgs}]

\* Rule 2 of proposals.py: a proposal runs at most once.  The tool server is asked
\* at most once for each, through double taps, two surfaces, torn files, restarts.
AtMostOnce == \A i \in Ids : called[i] <= 1

\* Rule 1: what ran is what stood on the card that was approved, with the person's
\* own edit in it, and never a field the configuration fixes with another value.
\* Excepted: an edit saved by a process that died before it saved the yes.
RunsWhatWasShown ==
  \A i \in Ids : called[i] > 0 =>
    /\ i \notin torn => calledWith[i] = consented[i]
    /\ \A k \in DOMAIN Fixed : calledWith[i][k] = Fixed[k]

\* A tool that failed must not be reported as done (looks_failed): what the store
\* calls done has happened, and what it calls declined or expired never will.
ReportsWhatHappened ==
  \A i \in Ids : /\ disk[i].status = "done" => effects[i] = 1
                 /\ disk[i].status \in {"declined", "expired"} => called[i] = 0

\* A decision, once on disk, is final: no later tap, sweep, load or half-written
\* file turns it into another status (the file may lose it altogether).
SettledIsFinal ==
  [][\A i \in Ids : disk[i].status \in Settled =>
       disk'[i].status \in {disk[i].status, "none"}]_vars

\* TTL_S: a draft nobody answered in time does not go out, whenever the queue was
\* last looked at.
NotAfterTTL ==
  [][\A i \in Ids : called'[i] > called[i] => now < mem[i].expires]_vars

\* A model that makes a call again in one turn makes no second card, as long as nobody
\* has edited the first (Proposer.call).
NoTwinCards ==
  \A t \in Turns : \A i, j \in made[t] :
    i # j => \/ mem[i].args # mem[j].args
             \/ mem[i].original # NoArgs \/ mem[j].original # NoArgs

\* An approval found its end: every one is settled, by the answer or the next start.
ApprovedSettles ==
  \A i \in Ids : (disk[i].status = "approved") ~> (disk[i].status # "approved")

----------------------------------------------------------------------------
(* The store implements Consent.  While the process is down the proposal   *)
(* stands where the file says.                                             *)
Standing(i) == (IF up THEN mem ELSE disk)[i].status
Stage(i) == IF i > minted THEN "unasked"
            ELSE IF called[i] > 0 THEN "granted"
            ELSE IF Standing(i) = "pending" THEN "open" ELSE "closed"
C == INSTANCE Consent WITH
       Terms <- Args, NoTerms <- NoArgs,
       stage <- [i \in Ids |-> Stage(i)],
       terms <- calledWith,
       acted <- effects
Implements == C!Spec
=============================================================================
