------------------------------- MODULE Phone -------------------------------
(***************************************************************************)
(* The phone: what Telegram brings in (backend/inbox.py), and the cards of *)
(* proposals that are asked and settled there (backend/channels.py).       *)
(*                                                                         *)
(* Three threads of control meet.  The inbox polls and works one update at *)
(* a time, awaiting a whole turn or the tool behind a yes.  A proposal is  *)
(* pushed to every surface in turn, so the page has its card long before   *)
(* the phone's send has answered.  And the page decides on its own.        *)
(* Telegram holds an update until a poll asks for a later one; the offset  *)
(* that does so is in memory only, as are the ids of the cards.            *)
(* Proposals.tla has the whole life of a proposal; here it is cut down to  *)
(* what the phone sees of it.                                              *)
(***************************************************************************)
EXTENDS Integers, Sequences

CONSTANTS Proposals,
          MaxSent,     \* bound: updates the person sends
          MaxFaults,   \* bound: calls to Telegram that fail or get no answer
          MaxCrashes   \* bound: how often the process dies

ASSUME PhoneAssumption ==
  /\ {"none", "turn"} \cap Proposals = {}
  /\ MaxSent \in Nat /\ MaxFaults \in Nat /\ MaxCrashes \in Nat

VARIABLES
  sent,      \* what the person did on the phone; an update_id is its place here
  held,      \* Telegram holds the updates from this one on
  inbox,     \* "start" (the backlog is to be skipped), "poll" or "stopped"
  offset,    \* TelegramInbox.offset, 0 for None
  batch,     \* the updates of the last poll still to be handled
  waits,     \* what handle() awaits: a proposal being decided, "turn" or "none"
  status,    \* of each proposal
  ask,       \* its way to the phone: "none", "due", "out" (there, unanswered), "over"
  card,      \* its message on the phone: "none", "plain", "buttons" or "settled"
  asked,     \* TelegramChannel._asked
  word,      \* its outcome's way: "none", "edit", "new" or "over"
  faults, crashes,
  \* History, for the properties.
  times,     \* how often each update was handled
  born,      \* the updates Telegram had let go of as this life began to listen
  blind,     \* how many lives could not skip
  excused    \* proposals whose card had a failed call, a crash or a decision before
             \* the ask was answered

telegram == <<sent, held>>
poller   == <<inbox, offset, batch, waits>>
cards    == <<ask, card, asked, word, excused>>
log      == <<times, born, blind>>
vars == <<telegram, poller, status, cards, faults, crashes, log>>

Update == [kind : {"approve", "decline"}, pid : Proposals]
          \cup [kind : {"level", "talk", "other"}]
Decided(p) == status[p] \in {"declined", "done"}

Init ==
  /\ sent = <<>> /\ held = 1
  /\ inbox = "start" /\ offset = 0 /\ batch = <<>> /\ waits = "none"
  /\ status = [p \in Proposals |-> "none"]
  /\ ask = [p \in Proposals |-> "none"] /\ card = [p \in Proposals |-> "none"]
  /\ asked = {} /\ word = [p \in Proposals |-> "none"]
  /\ faults = 0 /\ crashes = 0
  /\ times = [i \in 1..MaxSent |-> 0]
  /\ born = 0 /\ blind = 0 /\ excused = {}

\* A button can be tapped as long as it is there.
Send ==
  \E u \in Update :
    /\ Len(sent) < MaxSent
    /\ u.kind \in {"approve", "decline"} => card[u.pid] = "buttons"
    /\ sent' = Append(sent, u)
    /\ UNCHANGED <<held, poller, status, cards, faults, crashes, log>>

----------------------------------------------------------------------------
(* Cards.                                                                  *)

\* A call to Telegram that fails, or whose answer does not come in time.
Fails == faults < MaxFaults /\ faults' = faults + 1

\* _deliver_proposal: the card goes to the page, then the banner, then the phone.
Propose(p) ==
  /\ status[p] = "none"
  /\ status' = [status EXCEPT ![p] = "pending"]
  /\ ask' = [ask EXCEPT ![p] = "due"]
  /\ UNCHANGED <<telegram, poller, card, asked, word, excused, faults, crashes, log>>

\* A text over MAX_PROPOSAL_CHARS is shown in part, without buttons.
AskArrives(p) ==
  /\ ask[p] = "due"
  /\ ask' = [ask EXCEPT ![p] = "out"]
  /\ \E drawn \in {"buttons", "plain"} : card' = [card EXCEPT ![p] = drawn]
  /\ UNCHANGED <<telegram, poller, status, asked, word, excused, faults, crashes, log>>

RecordedM(p) == asked                              \* mutation: the id is not kept
Recorded(p)  == asked \cup {p}
AskAnswered(p) ==
  /\ ask[p] = "out"
  /\ ask' = [ask EXCEPT ![p] = "over"]
  /\ asked' = Recorded(p)
  /\ UNCHANGED <<telegram, poller, status, card, word, excused, faults, crashes, log>>

AskFails(p) ==
  /\ ask[p] \in {"due", "out"} /\ Fails
  /\ ask' = [ask EXCEPT ![p] = "over"]
  /\ excused' = excused \cup {p}
  /\ UNCHANGED <<telegram, poller, status, card, asked, word, crashes, log>>

\* _push_outcome reaches _settle at once: nothing before it on the way suspends.
Settle(p) ==
  /\ word' = [word EXCEPT ![p] = IF p \in asked THEN "edit" ELSE "new"]
  /\ asked' = asked \ {p}
  /\ excused' = IF ask[p] = "over" THEN excused ELSE excused \cup {p}
  /\ UNCHANGED <<ask, card>>

\* handle() goes on to the next update once what it awaited is there.
Freed(x) == IF waits = x THEN "none" ELSE waits

Redrawn(p)  == IF word[p] = "edit" THEN "settled" ELSE card[p]
SettleArrives(p) ==
  /\ word[p] \in {"edit", "new"}
  /\ card' = [card EXCEPT ![p] = Redrawn(p)]
  /\ word' = [word EXCEPT ![p] = "over"]
  /\ waits' = Freed(p)
  /\ UNCHANGED <<telegram, inbox, offset, batch, status, ask, asked, excused,
                 faults, crashes, log>>
SettleFails(p) ==
  /\ word[p] \in {"edit", "new"} /\ Fails
  /\ word' = [word EXCEPT ![p] = "over"]
  /\ excused' = excused \cup {p}
  /\ waits' = Freed(p)
  /\ UNCHANGED <<telegram, inbox, offset, batch, status, ask, card, asked, crashes, log>>

\* _decide, from either surface, up to what it awaits.
Decide(p, approve) ==
  /\ status[p] = "pending"
  /\ status' = [status EXCEPT ![p] = IF approve THEN "approved" ELSE "declined"]
  /\ IF approve THEN UNCHANGED cards ELSE Settle(p)

PageDecides(p) ==
  /\ \E yes \in BOOLEAN : Decide(p, yes)
  /\ UNCHANGED <<telegram, poller, faults, crashes, log>>
ToolEnds(p) ==
  /\ status[p] = "approved"
  /\ status' = [status EXCEPT ![p] = "done"]
  /\ Settle(p)
  /\ UNCHANGED <<telegram, poller, faults, crashes, log>>
\* expire_stale tells no surface.
Expire(p) ==
  /\ status[p] = "pending"
  /\ status' = [status EXCEPT ![p] = "expired"]
  /\ UNCHANGED <<telegram, poller, cards, faults, crashes, log>>

----------------------------------------------------------------------------
(* The inbox.                                                              *)

Begins == inbox' = "poll" /\ UNCHANGED <<sent, batch, waits>>

\* getUpdates with -1 answers the newest one and forgets those before it.
PastBacklogM  == Len(sent)               \* mutation: the newest one is not skipped
PastBacklogM2 == Len(sent) + 2           \* mutation: one that has not come is
PastBacklog  == Len(sent) + 1
SkipBacklog ==
  /\ inbox = "start" /\ Begins
  /\ IF held <= Len(sent)
     THEN offset' = PastBacklog /\ held' = Len(sent)
     ELSE UNCHANGED <<offset, held>>
  /\ born' = Len(sent)
  /\ UNCHANGED <<status, cards, faults, crashes, times, blind>>
SkipFails ==
  /\ inbox = "start" /\ Begins /\ Fails
  /\ blind' = blind + 1 /\ born' = held - 1
  /\ UNCHANGED <<held, offset, status, cards, crashes, times>>

\* The updates from i on, oldest first.
SinceM(i) == [k \in 1..(Len(sent) - i + 1) |-> Len(sent) + 1 - k]  \* mutation: newest first
Since(i)  == [k \in 1..(Len(sent) - i + 1) |-> i + k - 1]

Idle == inbox = "poll" /\ batch = <<>> /\ waits = "none"
Poll ==
  /\ Idle
  /\ held' = IF offset > held THEN offset ELSE held
  /\ held' <= Len(sent)
  /\ batch' = Since(held')
  /\ UNCHANGED <<sent, inbox, offset, waits, status, cards, faults, crashes, log>>
\* Another consumer of the same bot: for good.
Conflict ==
  /\ Idle /\ Fails /\ inbox' = "stopped"
  /\ UNCHANGED <<telegram, offset, batch, waits, status, cards, crashes, log>>

\* The offset moves before the update is handled, so one that raises is not retried.
AheadM(i) == i                           \* mutation: the offset of the update itself
Ahead(i)  == i + 1
Tap(u) ==
  /\ u.kind \in {"approve", "decline"}
  /\ \/ Decide(u.pid, u.kind = "approve") /\ waits' = u.pid
     \/ status[u.pid] # "pending" /\ UNCHANGED <<waits, status, cards>>
  /\ UNCHANGED <<faults>>
Command(u) ==
  /\ u.kind = "level"
  /\ UNCHANGED <<waits, status, cards, faults>>
\* "typing..." is sent first, and if that fails there is no turn.
Talk(u) ==
  /\ u.kind = "talk"
  /\ \/ waits' = "turn" /\ UNCHANGED faults
     \/ Fails /\ UNCHANGED waits
  /\ UNCHANGED <<status, cards>>
\* A sticker, another chat, a word it does not know.
Ignored(u) == u.kind = "other" /\ UNCHANGED <<waits, status, cards, faults>>

Take ==
  /\ inbox = "poll" /\ batch # <<>> /\ waits = "none"
  /\ batch' = Tail(batch)
  /\ LET i == Head(batch) IN
       /\ offset' = Ahead(i)
       /\ times' = [times EXCEPT ![i] = @ + 1]
       /\ Tap(sent[i]) \/ Command(sent[i]) \/ Talk(sent[i]) \/ Ignored(sent[i])
  /\ UNCHANGED <<telegram, inbox, crashes, born, blind>>
TurnEnds ==
  /\ waits = "turn" /\ waits' = "none"
  /\ UNCHANGED <<telegram, inbox, offset, batch, status, cards, faults, crashes, log>>

\* The process dies and starts again: what was on its way is over, an approved
\* proposal comes back failed and no surface is told.
Lost(way) == [p \in Proposals |-> IF way[p] = "none" THEN "none" ELSE "over"]
Restart ==
  /\ crashes < MaxCrashes /\ crashes' = crashes + 1
  /\ inbox' = "start" /\ offset' = 0 /\ batch' = <<>> /\ waits' = "none"
  /\ asked' = {} /\ ask' = Lost(ask) /\ word' = Lost(word)
  /\ status' = [p \in Proposals |-> IF status[p] = "approved" THEN "done" ELSE status[p]]
  /\ excused' = {p \in Proposals : status[p] # "none"}
  /\ UNCHANGED <<telegram, card, faults, times, born, blind>>

Next ==
  \/ Send \/ SkipBacklog \/ SkipFails \/ Poll \/ Conflict \/ Take \/ TurnEnds \/ Restart
  \/ \E p \in Proposals :
       \/ Propose(p) \/ AskArrives(p) \/ AskAnswered(p) \/ AskFails(p)
       \/ PageDecides(p) \/ ToolEnds(p) \/ Expire(p)
       \/ SettleArrives(p) \/ SettleFails(p)

\* The poll is one task that never ends; a call to Telegram answers or times out
\* (8 s, or the long poll's own), and a tool and a turn have timeouts of their own.
Fairness ==
  /\ WF_vars(SkipBacklog) /\ WF_vars(Poll) /\ WF_vars(Take) /\ WF_vars(TurnEnds)
  /\ \A p \in Proposals : WF_vars(ToolEnds(p)) /\ WF_vars(SettleArrives(p))

Spec == Init /\ [][Next]_vars /\ Fairness

----------------------------------------------------------------------------
(* Properties.                                                             *)

\* Every variable keeps its type; in particular the updates in hand are those that
\* follow the offset, in order (poll_once).
TypeOK ==
  /\ sent \in Seq(Update) /\ Len(sent) <= MaxSent /\ held \in 1..Len(sent) + 1
  /\ inbox \in {"start", "poll", "stopped"} /\ offset \in 0..Len(sent) + 1
  /\ batch \in Seq(1..Len(sent))
  /\ \A k \in 1..Len(batch) - 1 : batch[k + 1] = batch[k] + 1
  /\ waits \in Proposals \cup {"none", "turn"}
  /\ status \in [Proposals -> {"none", "pending", "approved", "declined", "done", "expired"}]
  /\ ask \in [Proposals -> {"none", "due", "out", "over"}]
  /\ card \in [Proposals -> {"none", "plain", "buttons", "settled"}]
  /\ asked \subseteq Proposals /\ word \in [Proposals -> {"none", "edit", "new", "over"}]
  /\ faults \in 0..MaxFaults /\ crashes \in 0..MaxCrashes
  /\ times \in [1..MaxSent -> Nat] /\ born \in 0..Len(sent) /\ blind \in 0..MaxFaults
  /\ excused \subseteq Proposals

\* What the person did on the phone is carried out once, however an update fails and
\* however often the process dies, and in the life it was sent to: what was sent while
\* nobody listened is not carried out later.  A life that could not skip the backlog is
\* given again what was not yet confirmed (inbox.py poll_once, skip_backlog).
HandledInItsTime ==
  [][\A i \in 1..MaxSent : times'[i] > times[i] => i > born /\ times'[i] <= 1 + blind]_vars

\* A decided proposal that still shows its buttons is one whose edit is under way,
\* or one whose card met a failed call, a restart, or a decision that came before the
\* answer to the ask (channels.py _ask, _settle).
LiveButtonsExplained ==
  \A p \in Proposals :
    Decided(p) /\ card[p] = "buttons" => word[p] = "edit" \/ p \in excused

\* What is sent while the inbox listens is taken up, unless it stops for good or the
\* process dies first (inbox.py run: one bad update or poll never stops the rest).
EveryUpdateTakenUp ==
  \A i \in 1..MaxSent :
    (inbox = "poll" /\ born < i /\ i <= Len(sent))
      ~> (times[i] > 0 \/ inbox # "poll")
============================================================================
