----------------------------- MODULE PhoneProofs -----------------------------
(***************************************************************************)
(* Proofs about Phone, for every set of proposals and any number of        *)
(* updates, failed calls and crashes.                                      *)
(***************************************************************************)
EXTENDS Phone, TLAPS

----------------------------------------------------------------------------
(* The inductive invariant.  TypeOK falls in two: the cards and the inbox. *)

CardsTyped ==
  /\ status \in [Proposals -> {"none", "pending", "approved", "declined", "done", "expired"}]
  /\ ask \in [Proposals -> {"none", "due", "out", "over"}]
  /\ card \in [Proposals -> {"none", "plain", "buttons", "settled"}]
  /\ asked \subseteq Proposals /\ word \in [Proposals -> {"none", "edit", "new", "over"}]
  /\ excused \subseteq Proposals

InboxTyped ==
  /\ sent \in Seq(Update) /\ Len(sent) <= MaxSent /\ held \in 1..Len(sent) + 1
  /\ inbox \in {"start", "poll", "stopped"} /\ offset \in 0..Len(sent) + 1
  /\ batch \in Seq(1..Len(sent))
  /\ \A k \in 1..Len(batch) - 1 : batch[k + 1] = batch[k] + 1
  /\ times \in [1..MaxSent -> Nat] /\ born \in 0..Len(sent)

CallsTyped ==
  /\ waits \in Proposals \cup {"none", "turn"}
  /\ faults \in 0..MaxFaults /\ crashes \in 0..MaxCrashes
  /\ blind \in 0..faults

\* How a card comes to be without buttons, or to be excused: an ask that is over left its
\* id or a reason; a decision that came before its answer is the reason.
CardsFollow ==
  \A p \in Proposals :
    /\ ask[p] # "none" => status[p] # "none"
    /\ ask[p] = "over" /\ status[p] \in {"pending", "approved"} => p \in asked \cup excused
    /\ Decided(p) /\ ask[p] # "over" => p \in excused

\* The next update to be handled in this life, if it is there.
Frontier == IF batch # <<>> THEN Head(batch) ELSE IF offset > held THEN offset ELSE held

\* What is at the frontier or past it was handled in no life but those that could not
\* skip; nothing was handled before it was sent.
OncePerLife ==
  /\ \A i \in 1..MaxSent : times[i] <= 1 + blind /\ (i > Len(sent) => times[i] = 0)
  /\ inbox = "start" => batch = <<>>
  /\ inbox # "start" =>
       Frontier > born /\ \A i \in 1..MaxSent : i >= Frontier => times[i] <= blind

CardsInv == CardsTyped /\ CardsFollow /\ LiveButtonsExplained
InboxInv == InboxTyped /\ OncePerLife
Inv == CardsInv /\ InboxInv /\ CallsTyped

\* The invariant covers TypeOK.
LEMMA InvTypes == Inv => TypeOK
  BY PhoneAssumption DEF Inv, CardsInv, InboxInv, CardsTyped, InboxTyped, CallsTyped, TypeOK

LEMMA InitInv == Init => Inv
<1> SUFFICES ASSUME Init PROVE Inv
  OBVIOUS
<1>1. CardsInv
  BY DEF Init, CardsInv, CardsTyped, CardsFollow, LiveButtonsExplained, Decided
<1>2. InboxInv
  BY PhoneAssumption DEF Init, InboxInv, InboxTyped, OncePerLife
<1>3. CallsTyped
  BY PhoneAssumption DEF Init, CallsTyped
<1>4. QED BY <1>1, <1>2, <1>3 DEF Inv

----------------------------------------------------------------------------
(* The cards.                                                              *)

\* Nothing happens to a card.
LEMMA CardsStay ==
  ASSUME CardsInv, UNCHANGED <<status, cards>>
  PROVE  CardsInv'
  BY DEF CardsInv, CardsTyped, CardsFollow, LiveButtonsExplained, Decided, cards

\* A decision, from either surface.
LEMMA DecideStep ==
  ASSUME CardsInv, NEW p \in Proposals, NEW yes, Decide(p, yes)
  PROVE  CardsInv'
<1>1. CASE yes
  BY <1>1 DEF Decide, CardsInv, CardsTyped, CardsFollow, LiveButtonsExplained, Decided, cards
<1>2. CASE ~yes
  <2>1. /\ status[p] = "pending" /\ status' = [status EXCEPT ![p] = "declined"]
        /\ word' = [word EXCEPT ![p] = IF p \in asked THEN "edit" ELSE "new"]
        /\ asked' = asked \ {p} /\ ask' = ask /\ card' = card
        /\ excused' = IF ask[p] = "over" THEN excused ELSE excused \cup {p}
    BY <1>2 DEF Decide, Settle
  <2>2. QED BY <2>1 DEF CardsInv, CardsTyped, CardsFollow, LiveButtonsExplained, Decided
<1>3. QED BY <1>1, <1>2

LEMMA ToolEndsStep ==
  ASSUME CardsInv, NEW p \in Proposals, ToolEnds(p)
  PROVE  CardsInv'
<1>1. /\ status[p] = "approved" /\ status' = [status EXCEPT ![p] = "done"]
      /\ word' = [word EXCEPT ![p] = IF p \in asked THEN "edit" ELSE "new"]
      /\ asked' = asked \ {p} /\ ask' = ask /\ card' = card
      /\ excused' = IF ask[p] = "over" THEN excused ELSE excused \cup {p}
  BY DEF ToolEnds, Settle
<1>2. QED BY <1>1 DEF CardsInv, CardsTyped, CardsFollow, LiveButtonsExplained, Decided

\* The ask, from the page's card to the phone's answer.
LEMMA AskStep ==
  ASSUME CardsInv, NEW p \in Proposals,
         Propose(p) \/ AskArrives(p) \/ AskAnswered(p) \/ AskFails(p)
  PROVE  CardsInv'
<1> USE DEF CardsInv, CardsTyped, CardsFollow, LiveButtonsExplained, Decided
<1>1. CASE Propose(p)
  BY <1>1 DEF Propose
<1>2. CASE AskArrives(p)
  <2>1. PICK drawn \in {"buttons", "plain"} : card' = [card EXCEPT ![p] = drawn]
    BY <1>2 DEF AskArrives
  <2>2. QED BY <1>2, <2>1 DEF AskArrives
<1>3. CASE AskAnswered(p)
  BY <1>3 DEF AskAnswered, Recorded
<1>4. CASE AskFails(p)
  BY <1>4 DEF AskFails
<1>5. QED BY <1>1, <1>2, <1>3, <1>4

\* The outcome's edit or message, and a card that runs out.
LEMMA OutcomeStep ==
  ASSUME CardsInv, NEW p \in Proposals,
         SettleArrives(p) \/ SettleFails(p) \/ Expire(p)
  PROVE  CardsInv'
<1> USE DEF CardsInv, CardsTyped, CardsFollow, LiveButtonsExplained, Decided
<1>1. CASE SettleArrives(p)
  BY <1>1 DEF SettleArrives, Redrawn
<1>2. CASE SettleFails(p)
  BY <1>2 DEF SettleFails
<1>3. CASE Expire(p)
  BY <1>3 DEF Expire, cards
<1>4. QED BY <1>1, <1>2, <1>3

LEMMA RestartCards ==
  ASSUME CardsInv, Restart
  PROVE  CardsInv'
<1>1. /\ asked' = {} /\ card' = card /\ excused' = {p \in Proposals : status[p] # "none"}
      /\ ask' = [p \in Proposals |-> IF ask[p] = "none" THEN "none" ELSE "over"]
      /\ word' = [p \in Proposals |-> IF word[p] = "none" THEN "none" ELSE "over"]
      /\ status' = [p \in Proposals |-> IF status[p] = "approved" THEN "done" ELSE status[p]]
  BY DEF Restart, Lost
<1>2. QED BY <1>1 DEF CardsInv, CardsTyped, CardsFollow, LiveButtonsExplained, Decided

----------------------------------------------------------------------------
(* The inbox.                                                              *)

\* What a poll brings: the updates from one on, in order.
LEMMA SinceOK ==
  ASSUME InboxTyped, NEW i \in 1..Len(sent)
  PROVE  /\ Since(i) \in Seq(1..Len(sent)) /\ Since(i) # <<>> /\ Head(Since(i)) = i
         /\ \A k \in 1..Len(Since(i)) - 1 : Since(i)[k + 1] = Since(i)[k] + 1
<1>1. Len(sent) \in Nat
  BY DEF InboxTyped
<1>2. PICK n \in Nat : n = Len(sent) - i + 1 /\ n >= 1
  BY <1>1
<1>3. Since(i) = [k \in 1..n |-> i + k - 1]
  BY <1>2 DEF Since
<1>4. \A k \in 1..n : i + k - 1 \in 1..Len(sent)
  BY <1>1, <1>2
<1>5. Since(i) \in Seq(1..Len(sent)) /\ Len(Since(i)) = n
  BY <1>3, <1>4
<1>6. Since(i)[1] = i
  BY <1>2, <1>3
<1>7. \A k \in 1..n - 1 : Since(i)[k + 1] = Since(i)[k] + 1
  BY <1>2, <1>3
<1>8. QED BY <1>2, <1>5, <1>6, <1>7

\* Nothing happens to the inbox.
LEMMA InboxStays ==
  ASSUME InboxInv, UNCHANGED <<sent, held, inbox, offset, batch, times, born, blind>>
  PROVE  InboxInv'
  BY DEF InboxInv, InboxTyped, OncePerLife, Frontier

LEMMA SendStep == ASSUME InboxInv, CallsTyped, Send PROVE InboxInv'
<1>1. PICK u \in Update : Len(sent) < MaxSent /\ sent' = Append(sent, u)
  BY DEF Send
<1>2. UNCHANGED <<held, inbox, offset, batch, times, born, blind>>
  BY DEF Send, poller, log
<1>3. sent' \in Seq(Update) /\ Len(sent') = Len(sent) + 1 /\ Len(sent) \in Nat
  BY <1>1 DEF InboxInv, InboxTyped
<1>4. Len(sent') <= MaxSent
  BY <1>1, <1>3, PhoneAssumption
<1>5. batch' \in Seq(1..Len(sent'))
  BY <1>2, <1>3 DEF InboxInv, InboxTyped
<1>6. InboxTyped'
  BY <1>2, <1>3, <1>4, <1>5 DEF InboxInv, InboxTyped
<1>7. OncePerLife'
  BY <1>2, <1>3 DEF InboxInv, OncePerLife, Frontier
<1>8. QED BY <1>6, <1>7 DEF InboxInv

LEMMA SkipStep ==
  ASSUME InboxInv, CallsTyped, SkipBacklog \/ SkipFails
  PROVE  InboxInv'
<1>1. /\ inbox = "start" /\ inbox' = "poll"
      /\ UNCHANGED <<sent, batch, times>>
      /\ \/ offset' = Len(sent) + 1 /\ held' = Len(sent) /\ held <= Len(sent)
         \/ offset' = offset /\ held' = held
      /\ \/ born' = Len(sent) /\ blind' = blind
            /\ (held <= Len(sent) => offset' = Len(sent) + 1)
         \/ born' = held - 1 /\ blind' = blind + 1 /\ held' = held
  BY DEF SkipBacklog, SkipFails, Begins, PastBacklog
<1>2. Len(sent) \in Nat /\ MaxSent \in Nat /\ blind \in Nat
  BY PhoneAssumption DEF InboxInv, InboxTyped, CallsTyped
<1>3. InboxTyped'
  BY <1>1, <1>2 DEF InboxInv, InboxTyped
<1>4. Frontier' > born'
  <2>1. batch' = <<>> /\ held \in 1..Len(sent) + 1 /\ offset \in 0..Len(sent) + 1
    BY <1>1 DEF InboxInv, InboxTyped, OncePerLife
  <2>2. offset' > born' \/ (held' > born' /\ held' \in Nat /\ offset' \in Nat)
    BY <1>1, <1>2, <2>1
  <2>3. held' \in Nat /\ offset' \in Nat /\ born' \in Int
    BY <1>1, <1>2, <2>1
  <2>4. QED BY <2>1, <2>2, <2>3 DEF Frontier
<1>5. OncePerLife'
  <2>1. times \in [1..MaxSent -> Nat] /\ Frontier' \in Int /\ born' \in Int
    BY <1>1, <1>2, <1>3 DEF InboxInv, InboxTyped, OncePerLife, Frontier
  <2>2. \A i \in 1..MaxSent : times[i] <= 1 + blind /\ (i > Len(sent) => times[i] = 0)
    BY DEF InboxInv, OncePerLife
  <2>3. blind' = blind + 1 \/ (blind' = blind /\ born' = Len(sent))
    BY <1>1
  <2>4. ASSUME NEW i \in 1..MaxSent
        PROVE  /\ times[i] <= 1 + blind' /\ (i > Len(sent) => times[i] = 0)
               /\ i >= Frontier' => times[i] <= blind'
    BY <1>2, <1>4, <2>1, <2>2, <2>3
  <2>5. QED BY <1>1, <1>4, <2>4 DEF OncePerLife
<1>6. QED BY <1>3, <1>5 DEF InboxInv

LEMMA PollStep == ASSUME InboxInv, CallsTyped, Poll PROVE InboxInv'
<1>1. /\ inbox = "poll" /\ batch = <<>> /\ held' = Frontier /\ held' <= Len(sent)
      /\ batch' = Since(held') /\ UNCHANGED <<sent, inbox, offset, times, born, blind>>
  BY DEF Poll, Idle, log, Frontier
<1>2. held' \in 1..Len(sent)
  BY <1>1 DEF InboxInv, InboxTyped, Frontier
<1>3. PICK i \in 1..Len(sent) : i = held'
  BY <1>2
<1>4. /\ batch' \in Seq(1..Len(sent)) /\ batch' # <<>> /\ Head(batch') = held'
      /\ \A k \in 1..Len(batch') - 1 : batch'[k + 1] = batch'[k] + 1
  BY <1>1, <1>3, SinceOK DEF InboxInv
<1>5. InboxTyped'
  BY <1>1, <1>2, <1>4 DEF InboxInv, InboxTyped
<1>6. Frontier' = Frontier
  BY <1>1, <1>4 DEF Frontier
<1>7. OncePerLife'
  BY <1>1, <1>6 DEF InboxInv, OncePerLife
<1>8. QED BY <1>5, <1>7 DEF InboxInv

LEMMA ConflictStep == ASSUME InboxInv, Conflict PROVE InboxInv'
  BY DEF Conflict, Idle, telegram, log, InboxInv, InboxTyped, OncePerLife, Frontier

\* What handling an update does: to the cards, if it is a tap on one that is pending.
TakeDoesCards ==
  \/ UNCHANGED <<status, cards>> /\ waits' \in {waits, "turn"} \cup Proposals
  \/ \E p \in Proposals, yes \in BOOLEAN : Decide(p, yes) /\ waits' = p

LEMMA TakeDoes ==
  ASSUME InboxInv, CallsTyped, Take
  PROVE  /\ inbox = "poll" /\ batch # <<>>
         /\ batch' = Tail(batch) /\ offset' = Head(batch) + 1
         /\ times' = [times EXCEPT ![Head(batch)] = @ + 1]
         /\ UNCHANGED <<sent, held, inbox, born, blind, crashes>>
         /\ TakeDoesCards /\ faults' \in 0..MaxFaults /\ faults <= faults'
<1>1. /\ inbox = "poll" /\ batch # <<>>
      /\ batch' = Tail(batch) /\ offset' = Head(batch) + 1
      /\ times' = [times EXCEPT ![Head(batch)] = @ + 1]
      /\ UNCHANGED <<sent, held, inbox, born, blind, crashes>>
  BY DEF Take, Ahead, telegram
<1>2. PICK u : /\ u = sent[Head(batch)]
               /\ Tap(u) \/ Command(u) \/ Talk(u) \/ Ignored(u)
  BY DEF Take
<1>3. u \in Update
  <2>1. Head(batch) \in 1..Len(sent)
    BY <1>1 DEF InboxInv, InboxTyped
  <2>2. QED BY <1>2, <2>1 DEF InboxInv, InboxTyped
<1>4. faults \in 0..MaxFaults /\ MaxFaults \in Nat
  BY PhoneAssumption DEF CallsTyped
<1>5. CASE Tap(u)
  <2>1. faults' = faults
    BY <1>5 DEF Tap
  <2>2. CASE Decide(u.pid, u.kind = "approve") /\ waits' = u.pid
    <3>1. u.pid \in Proposals
      BY <1>3, <1>5 DEF Tap, Update
    <3>2. PICK p \in Proposals, yes \in BOOLEAN : p = u.pid /\ (yes <=> u.kind = "approve")
      BY <3>1
    <3>3. Decide(p, yes)
      BY <2>2, <3>2 DEF Decide
    <3>4. QED BY <1>1, <1>4, <2>1, <2>2, <3>2, <3>3 DEF TakeDoesCards
  <2>3. CASE UNCHANGED <<waits, status, cards>>
    BY <1>1, <1>4, <2>1, <2>3 DEF TakeDoesCards
  <2>4. QED BY <1>5, <2>2, <2>3 DEF Tap
<1>6. CASE Command(u) \/ Talk(u) \/ Ignored(u)
  <2>1. UNCHANGED <<status, cards>> /\ waits' \in {waits, "turn"}
    BY <1>6 DEF Command, Talk, Ignored
  <2>2. faults' \in {faults, faults + 1} /\ (faults' # faults => faults < MaxFaults)
    BY <1>6 DEF Command, Talk, Ignored, Fails
  <2>3. QED BY <1>1, <1>4, <2>1, <2>2 DEF TakeDoesCards
<1>7. QED BY <1>2, <1>5, <1>6

\* The update at the frontier is handled, and the frontier moves past it.
LEMMA TakeStep == ASSUME InboxInv, CallsTyped, Take PROVE InboxInv'
<1>1. PICK i : i = Head(batch)
  OBVIOUS
<1>2. /\ inbox = "poll" /\ batch # <<>> /\ batch' = Tail(batch) /\ offset' = i + 1
      /\ times' = [times EXCEPT ![i] = @ + 1]
      /\ UNCHANGED <<sent, held, inbox, born, blind>>
  BY <1>1, TakeDoes
<1>3. /\ batch \in Seq(1..Len(sent)) /\ Len(sent) \in Nat /\ Len(sent) <= MaxSent
      /\ i \in 1..Len(sent) /\ i \in 1..MaxSent
  BY <1>1, <1>2, PhoneAssumption DEF InboxInv, InboxTyped
<1>4. /\ batch' \in Seq(1..Len(sent)) /\ Len(batch') = Len(batch) - 1
      /\ \A k \in 1..Len(batch') : batch'[k] = batch[k + 1]
  BY <1>2, <1>3
<1>5. \A k \in 1..Len(batch') - 1 : batch'[k + 1] = batch'[k] + 1
  <2> SUFFICES ASSUME NEW k \in 1..Len(batch') - 1 PROVE batch'[k + 1] = batch'[k] + 1
    OBVIOUS
  <2>1. PICK m : m = k + 1
    OBVIOUS
  <2>2. m \in 1..Len(batch) - 1 /\ m \in 1..Len(batch') /\ k \in 1..Len(batch')
    BY <1>3, <1>4, <2>1
  <2>3. batch[m + 1] = batch[m] + 1
    BY <2>2 DEF InboxInv, InboxTyped
  <2>4. batch'[k] = batch[m]
    BY <1>4, <2>1, <2>2
  <2>5. batch'[m] = batch[m + 1]
    BY <1>4, <2>2
  <2>6. QED BY <2>1, <2>3, <2>4, <2>5
<1>6. InboxTyped'
  <2>1. offset' \in 0..Len(sent) + 1
    BY <1>2, <1>3
  <2>2. times' \in [1..MaxSent -> Nat]
    BY <1>2, <1>3 DEF InboxInv, InboxTyped
  <2>3. QED BY <1>2, <1>4, <1>5, <2>1, <2>2 DEF InboxInv, InboxTyped
<1>7. Frontier = i /\ Frontier' >= i + 1
  <2>1. Frontier = i
    BY <1>1, <1>2 DEF Frontier
  <2>2. CASE batch' = <<>>
    <3>1. held' \in Nat /\ offset' = i + 1 /\ i \in Nat
      BY <1>2, <1>3 DEF InboxInv, InboxTyped
    <3>2. Frontier' = IF offset' > held' THEN offset' ELSE held'
      BY <2>2 DEF Frontier
    <3>3. QED BY <2>1, <3>1, <3>2
  <2>3. CASE batch' # <<>>
    <3>1. Len(batch') >= 1 /\ Head(batch') = batch[2] /\ batch[2] = batch[1] + 1
      BY <1>2, <1>3, <1>4, <2>3 DEF InboxInv, InboxTyped
    <3>2. QED BY <1>1, <1>2, <1>3, <2>3, <3>1 DEF Frontier
  <2>4. QED BY <2>1, <2>2, <2>3
<1>8. OncePerLife'
  <2>1. born \in Nat /\ blind \in Nat /\ times \in [1..MaxSent -> Nat]
    BY DEF CallsTyped, InboxInv, InboxTyped
  <2>2. times[i] <= blind /\ i > born
    BY <1>2, <1>3, <1>7 DEF InboxInv, OncePerLife
  <2>3. Frontier' \in Nat
    BY <1>2, <1>3, <1>4, <1>6 DEF InboxTyped, Frontier
  <2>4. ASSUME NEW j \in 1..MaxSent
        PROVE  /\ times'[j] <= 1 + blind'
               /\ j > Len(sent') => times'[j] = 0
               /\ j >= Frontier' => times'[j] <= blind'
    <3>1. CASE j = i
      BY <1>2, <1>3, <1>7, <2>1, <2>2, <2>3, <3>1
    <3>2. CASE j # i
      BY <1>2, <1>3, <1>7, <2>1, <2>3, <3>2 DEF InboxInv, OncePerLife
    <3>3. QED BY <3>1, <3>2
  <2>5. QED BY <1>2, <1>3, <1>7, <2>1, <2>2, <2>3, <2>4 DEF OncePerLife
<1>9. QED BY <1>6, <1>8 DEF InboxInv

LEMMA RestartInbox == ASSUME InboxInv, CallsTyped, Restart PROVE InboxInv'
<1>1. /\ inbox' = "start" /\ offset' = 0 /\ batch' = <<>>
      /\ UNCHANGED <<sent, held, times, born, blind>>
  BY DEF Restart, telegram
<1>2. QED BY <1>1 DEF InboxInv, InboxTyped, OncePerLife

----------------------------------------------------------------------------
(* Every step.                                                             *)

\* The actions that neither the inbox nor a restart take: the cards' own.
OfACard(p) ==
  \/ Propose(p) \/ AskArrives(p) \/ AskAnswered(p) \/ AskFails(p)
  \/ PageDecides(p) \/ ToolEnds(p) \/ Expire(p)
  \/ SettleArrives(p) \/ SettleFails(p)

LEMMA CardsStep == ASSUME Inv, [Next]_vars PROVE CardsInv'
<1>1. CardsInv /\ InboxInv /\ CallsTyped
  BY DEF Inv
<1>2. CASE UNCHANGED <<status, cards>>
  BY <1>1, <1>2, CardsStay
<1>3. CASE Send \/ SkipBacklog \/ SkipFails \/ Poll \/ Conflict \/ TurnEnds \/ UNCHANGED vars
  BY <1>2, <1>3 DEF Send, SkipBacklog, SkipFails, Poll, Conflict, TurnEnds, vars
<1>4. CASE Take
  BY <1>1, <1>2, <1>4, TakeDoes, DecideStep DEF TakeDoesCards
<1>5. CASE Restart
  BY <1>1, <1>5, RestartCards
<1>6. ASSUME NEW p \in Proposals, OfACard(p)
      PROVE  CardsInv'
  <2>1. CASE PageDecides(p)
    BY <1>1, <2>1, DecideStep DEF PageDecides
  <2>2. CASE ToolEnds(p)
    BY <1>1, <2>2, ToolEndsStep
  <2>3. CASE Propose(p) \/ AskArrives(p) \/ AskAnswered(p) \/ AskFails(p)
    BY <1>1, <2>3, AskStep
  <2>4. CASE SettleArrives(p) \/ SettleFails(p) \/ Expire(p)
    BY <1>1, <2>4, OutcomeStep
  <2>5. QED BY <1>6, <2>1, <2>2, <2>3, <2>4 DEF OfACard
<1>7. QED BY <1>3, <1>4, <1>5, <1>6 DEF Next, OfACard

\* The cards' own actions leave the inbox as it was.
LEMMA OfACardDoes ==
  ASSUME NEW p \in Proposals, OfACard(p)
  PROVE  /\ UNCHANGED <<sent, held, inbox, offset, batch, times, born, blind, crashes>>
         /\ waits' \in {waits, "none"}
         /\ faults' = faults \/ (faults < MaxFaults /\ faults' = faults + 1)
<1>1. CASE Propose(p) \/ AskArrives(p) \/ AskAnswered(p) \/ AskFails(p)
  BY <1>1 DEF Propose, AskArrives, AskAnswered, AskFails, Fails, telegram, poller, log
<1>2. CASE PageDecides(p) \/ ToolEnds(p) \/ Expire(p)
  BY <1>2 DEF PageDecides, ToolEnds, Expire, telegram, poller, log
<1>3. CASE SettleArrives(p) \/ SettleFails(p)
  BY <1>3 DEF SettleArrives, SettleFails, Freed, Fails, telegram, log
<1>4. QED BY <1>1, <1>2, <1>3 DEF OfACard

LEMMA InboxStep == ASSUME Inv, [Next]_vars PROVE InboxInv'
<1>1. InboxInv /\ CallsTyped
  BY DEF Inv
<1>2. CASE UNCHANGED <<sent, held, inbox, offset, batch, times, born, blind>>
  BY <1>1, <1>2, InboxStays
<1>3. CASE TurnEnds \/ UNCHANGED vars
  BY <1>2, <1>3 DEF TurnEnds, vars, telegram, poller, log
<1>4. CASE Send \/ SkipBacklog \/ SkipFails \/ Poll \/ Conflict
  BY <1>1, <1>4, SendStep, SkipStep, PollStep, ConflictStep
<1>5. CASE Take \/ Restart
  BY <1>1, <1>5, TakeStep, RestartInbox
<1>6. ASSUME NEW p \in Proposals, OfACard(p)
      PROVE  InboxInv'
  BY <1>2, <1>6, OfACardDoes
<1>7. QED BY <1>3, <1>4, <1>5, <1>6 DEF Next, OfACard

LEMMA CallsStep == ASSUME Inv, [Next]_vars PROVE CallsTyped'
<1>1. InboxInv /\ CallsTyped
  BY DEF Inv
<1>2. MaxFaults \in Nat /\ MaxCrashes \in Nat
  BY PhoneAssumption
<1>3. /\ waits \in Proposals \cup {"none", "turn"}
      /\ faults \in 0..MaxFaults /\ crashes \in 0..MaxCrashes
      /\ blind \in 0..faults
  BY <1>1 DEF CallsTyped
<1>4. CASE Send \/ Poll \/ TurnEnds \/ UNCHANGED vars
  BY <1>3, <1>4 DEF Send, Poll, TurnEnds, vars, poller, log, CallsTyped
<1>5. CASE SkipBacklog
  BY <1>3, <1>5 DEF SkipBacklog, Begins, CallsTyped
<1>6. CASE SkipFails \/ Conflict
  <2>1. /\ UNCHANGED <<waits, crashes>> /\ faults' = faults + 1 /\ faults < MaxFaults
        /\ blind' \in {blind, blind + 1}
    BY <1>6 DEF SkipFails, Conflict, Begins, Fails, log
  <2>2. QED BY <1>2, <1>3, <2>1 DEF CallsTyped
<1>7. CASE Take
  <2>1. /\ UNCHANGED <<blind, crashes>> /\ faults' \in 0..MaxFaults /\ faults <= faults'
        /\ TakeDoesCards
    BY <1>1, <1>7, TakeDoes
  <2>2. waits' \in Proposals \cup {"none", "turn"}
    BY <1>3, <2>1 DEF TakeDoesCards
  <2>3. QED BY <1>2, <1>3, <2>1, <2>2 DEF CallsTyped
<1>8. CASE Restart
  BY <1>2, <1>3, <1>8 DEF Restart, CallsTyped
<1>9. ASSUME NEW p \in Proposals, OfACard(p)
      PROVE  CallsTyped'
  BY <1>2, <1>3, <1>9, OfACardDoes DEF CallsTyped
<1>10. QED BY <1>4, <1>5, <1>6, <1>7, <1>8, <1>9 DEF Next, OfACard

----------------------------------------------------------------------------
(* The theorems.                                                           *)

\* In every behaviour of the phone, its cards and the page, the inductive invariant holds.
THEOREM InvHolds == Spec => []Inv
<1>1. Init => Inv
  BY InitInv
<1>2. Inv /\ [Next]_vars => Inv'
  BY CardsStep, InboxStep, CallsStep DEF Inv
<1>3. QED BY <1>1, <1>2, PTL DEF Spec

\* Types; the updates in hand are those that follow the offset, in order (poll_once).
THEOREM TypeCorrect == Spec => []TypeOK
<1>1. QED BY InvHolds, InvTypes, PTL

\* A decided proposal does not go on showing its buttons without a reason
\* (channels.py _ask, _settle).
THEOREM ButtonsGo == Spec => []LiveButtonsExplained
<1>1. Inv => LiveButtonsExplained
  BY DEF Inv, CardsInv
<1>2. QED BY <1>1, InvHolds, PTL

\* An update is carried out at most once, and in the life it was sent to, but for the
\* lives that could not skip the backlog (inbox.py poll_once, skip_backlog).
THEOREM OnceAndInTime == Spec => HandledInItsTime
<1>1. Inv /\ [Next]_vars =>
        [\A i \in 1..MaxSent : times'[i] > times[i] => i > born /\ times'[i] <= 1 + blind]_vars
  <2> SUFFICES ASSUME Inv, Next, NEW i \in 1..MaxSent, times'[i] > times[i]
               PROVE  i > born /\ times'[i] <= 1 + blind
    OBVIOUS
  <2>1. InboxInv /\ CallsTyped
    BY DEF Inv
  <2>2. times \in [1..MaxSent -> Nat] /\ blind \in Nat /\ times[i] \in Nat
    <3>1. times \in [1..MaxSent -> Nat]
      BY <2>1 DEF InboxInv, InboxTyped
    <3>2. MaxFaults \in Nat /\ faults \in 0..MaxFaults /\ blind \in 0..faults
      BY <2>1, PhoneAssumption DEF CallsTyped
    <3>3. QED BY <3>1, <3>2
  <2>3. times' # times
    <3>1. times'[i] # times[i]
      BY <2>2
    <3>2. QED BY <3>1
  <2>4. CASE Take
    <3>1. PICK j : j = Head(batch)
      OBVIOUS
    <3>2. /\ inbox = "poll" /\ Frontier = j
          /\ times' = [times EXCEPT ![j] = @ + 1]
      BY <2>1, <2>4, <3>1, TakeDoes DEF Frontier
    <3>3. i = j
      BY <2>2, <3>2
    <3>4. times[i] <= blind /\ i > born
      BY <3>2, <3>3 DEF Inv, InboxInv, OncePerLife, InboxTyped
    <3>5. QED BY <2>2, <3>2, <3>3, <3>4
  <2>5. CASE Send \/ SkipBacklog \/ SkipFails \/ Poll \/ Conflict \/ TurnEnds \/ Restart
    BY <2>3, <2>5
       DEF Send, SkipBacklog, SkipFails, Poll, Conflict, TurnEnds, Restart, log
  <2>6. ASSUME NEW p \in Proposals, OfACard(p)
        PROVE  FALSE
    BY <2>3, <2>6, OfACardDoes
  <2>7. QED BY <2>4, <2>5, <2>6 DEF Next, OfACard
<1>2. QED BY <1>1, InvHolds, PTL DEF Spec, HandledInItsTime

=============================================================================
