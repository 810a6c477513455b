---------------------------- MODULE Conversation ----------------------------
(***************************************************************************)
(* The conversations the Keeper keeps: backend/sessions.py, and of         *)
(* backend/server.py the turn (chat, _converse, _recent_turns), the lines  *)
(* it says unbidden, the proposals it puts in front of the person, and the *)
(* endpoints that change which conversation is open.                       *)
(*                                                                         *)
(* A turn waits for models between its question and its reply.  Meanwhile  *)
(* the person opens another conversation, writes from the phone, decides   *)
(* a proposal; the Keeper speaks unbidden; the process dies.               *)
(*                                                                         *)
(* Time is the order of what is said and decided: one tick for each.       *)
(***************************************************************************)
EXTENDS Integers, Sequences, FiniteSets

CONSTANTS Proposals,   \* proposals that may be made: numbers
          PhoneHears,  \* the kinds of line the telegram channel carries
          RecentTurns, \* RECENT_TURNS
          MaxKeys,     \* bound: conversations, the phone's among them
          MaxTurns, MaxLines,   \* bounds: turns, unbidden lines
          MaxLapses,   \* bound: times the conversation is left for RECENT_TURNS_WINDOW_S
          MaxCrashes   \* bound

ASSUME ConversationAssumption ==
  /\ Proposals \subseteq Nat \ {0} /\ PhoneHears \subseteq {"proactive", "proposal"}
  /\ RecentTurns \in Nat \ {0} /\ MaxKeys \in Nat \ {0}
  /\ {MaxTurns, MaxLines, MaxLapses, MaxCrashes} \subseteq Nat

VARIABLES
  thread,   \* SessionStore.sessions, and once down its files: each one's messages
  keys,     \* those there are
  current,  \* STATE.current_key
  turn,     \* each turn: where it is, its conversation, what it was shown of it
  asked,    \* each proposal: none, waiting, decided; by which turn and when
  up,       \* the process runs
  clock, horizon, turns, lines, lapses, crashes, \* time, what is out of the window; counters
  said      \* history: what was said, and the conversations that are to hold it
vars == <<thread, keys, current, turn, asked, up, clock, horizon, turns, lines, lapses,
          crashes, said>>

None     == 0
PhoneKey == 1
Keys     == 1..MaxKeys
NoTurn   == [at |-> "none", key |-> None, phone |-> FALSE, prior |-> {}]
Over     == [NoTurn EXCEPT !.at = "over"]
Unasked  == [at |-> "none", by |-> 0, replied |-> FALSE, when |-> 0]
Working(t) == turn[t].at = "working"

Init ==
  /\ thread = [k \in Keys |-> <<>>] /\ keys = {} /\ current = None
  /\ turn = [t \in 1..MaxTurns |-> NoTurn] /\ asked = [p \in Proposals |-> Unasked]
  /\ up = TRUE
  /\ clock = 0 /\ horizon = 0 /\ turns = 0 /\ lines = 0 /\ lapses = 0 /\ crashes = 0
  /\ said = {}

----------------------------------------------------------------------------
(* The store.                                                              *)

Msg(who, kind, ref) == [who |-> who, kind |-> kind, ref |-> ref, ts |-> clock + 1]
\* new, when no conversation is open: any key not yet used.  Else the one that is open.
Open == IF current # None THEN {current}
        ELSE {k \in Keys \ (keys \cup {PhoneKey}) :
                \A j \in Keys \ (keys \cup {PhoneKey}) : k <= j}
\* append, to each of some conversations; the phone's is made on its first use.
Appends(ks, msg) ==
  /\ thread' = [k \in Keys |-> IF k \in ks THEN Append(thread[k], msg) ELSE thread[k]]
  /\ keys' = keys \cup ks
  /\ clock' = clock + 1
\* The messages of a conversation.
Kept(k) == {thread[k][i] : i \in DOMAIN thread[k]}
\* What is said unbidden is kept in the conversation that is open and, if the phone
\* hears it, in the phone's.
HeardAt(kind, k) == {k} \cup IF kind \in PhoneHears THEN {PhoneKey} ELSE {}
\* History: it was said, to be found there.
Noted(msg, homes) == said' = said \cup {[msg |-> msg, homes |-> homes]}

----------------------------------------------------------------------------
(* A turn.                                                                 *)

\* _outcome_of: a card of a proposal that is decided is followed, at the moment it was
\* decided, by what became of it.
OutcomeM(m) == [who |-> "keeper", kind |-> "outcome", ref |-> m.ref,
                ts |-> m.ts]               \* mutation: it is folded into the question
Outcome(m)  == [who |-> "keeper", kind |-> "outcome", ref |-> m.ref,
                ts |-> asked[m.ref].when]
Entries(k) ==
  LET recent == {m \in Kept(k) : m.ts > horizon}
      cards  == {m \in recent : m.kind = "proposal" /\ asked[m.ref].at = "decided"} IN
  recent \cup {Outcome(m) : m \in cards}
\* _recent_turns: the last of them, in the order of their time.
RecentOfM(k) == Entries(k)                 \* mutation: all of them
RecentOf(k)  ==
  {e \in Entries(k) : Cardinality({f \in Entries(k) : f.ts > e.ts}) < RecentTurns}

\* chat, from the page: a first message opens a conversation.  From the phone: in the
\* phone's own, one turn after another.
Begins(k, phone) ==
  LET t == turns + 1  msg == Msg("user", "reply", t) IN
  /\ up /\ turns < MaxTurns /\ turns' = t
  /\ turn' = [turn EXCEPT ![t] = [at |-> "working", key |-> k, phone |-> phone,
                                  prior |-> RecentOf(k)]]
  /\ Appends({k}, msg) /\ Noted(msg, {k})
  /\ UNCHANGED <<asked, up, horizon, lines, lapses, crashes>>
Chats == \E k \in Open : Begins(k, FALSE) /\ current' = k
PhoneTurn ==
  /\ \A t \in 1..MaxTurns : ~(Working(t) /\ turn[t].phone)
  /\ Begins(PhoneKey, TRUE)
  /\ UNCHANGED current

ReplyKeyM(t) == current                    \* mutation: where the page is by now
ReplyKey(t)  == turn[t].key
\* The models have answered, or failed and the error line stands in for an answer.
Replies(t) ==
  LET msg == Msg("keeper", "reply", t) IN
  /\ up /\ Working(t)
  /\ turn' = [turn EXCEPT ![t] = Over]
  /\ Appends({ReplyKey(t)} \ {None}, msg) /\ Noted(msg, {turn[t].key})
  /\ asked' = [p \in Proposals |->
       IF asked[p].by = t /\ asked[p].at = "waiting" THEN [asked[p] EXCEPT !.replied = TRUE]
       ELSE asked[p]]
  /\ UNCHANGED <<current, up, horizon, turns, lines, lapses, crashes>>

----------------------------------------------------------------------------
(* What the Keeper says unbidden, and asks.                                *)

Delivers(kind, ref) ==
  \E k \in Open :
    LET msg == Msg("keeper", kind, ref) IN
    /\ up /\ current' = k
    /\ Appends(HeardAt(kind, k), msg)
    /\ Noted(msg, {k} \cup IF kind \in PhoneHears THEN {PhoneKey} ELSE {})
Speaks ==
  /\ lines < MaxLines /\ lines' = lines + 1
  /\ Delivers("proactive", lines')
  /\ UNCHANGED <<turn, asked, up, horizon, turns, lapses, crashes>>
\* By a turn that is under way, or by what runs in the background.
Asks(p) ==
  /\ asked[p].at = "none"
  /\ \E t \in {0} \cup {s \in 1..MaxTurns : Working(s)} :
       asked' = [asked EXCEPT ![p] = [Unasked EXCEPT !.at = "waiting", !.by = t,
                                                     !.replied = t = 0]]
  /\ Delivers("proposal", p)
  /\ UNCHANGED <<turn, up, horizon, turns, lines, lapses, crashes>>
\* On any surface, or it expires.
Decided(p) ==
  /\ up /\ asked[p].at = "waiting"
  /\ asked' = [asked EXCEPT ![p].at = "decided", ![p].when = clock + 1]
  /\ clock' = clock + 1
  /\ UNCHANGED <<thread, keys, current, turn, up, horizon, turns, lines, lapses, crashes, said>>

----------------------------------------------------------------------------
(* Which conversation is open; leaving it for hours; death and start.      *)

\* select_session: the sidebar lists those with messages, the phone's too.
Selects(k) ==
  /\ up /\ k \in keys /\ k # current /\ current' = k
  /\ UNCHANGED <<thread, keys, turn, asked, up, clock, horizon, turns, lines, lapses, crashes,
                 said>>
BeginsAgain ==
  /\ up /\ current # None /\ current' = None
  /\ UNCHANGED <<thread, keys, turn, asked, up, clock, horizon, turns, lines, lapses, crashes,
                 said>>
\* No turn takes that long.
Lapses ==
  /\ \A t \in 1..MaxTurns : ~Working(t)
  /\ horizon < clock /\ lapses < MaxLapses /\ lapses' = lapses + 1 /\ horizon' = clock
  /\ UNCHANGED <<thread, keys, current, turn, asked, up, clock, turns, lines, crashes, said>>

\* Each append has written its file before it returns: dying loses what was under way,
\* and, inside a write, the conversation whose file it leaves half written.
Written == {turn[t].key : t \in {s \in 1..MaxTurns : Working(s)}}
           \cup ({current, PhoneKey} \cap keys)
Dies ==
  /\ up /\ crashes < MaxCrashes /\ crashes' = crashes + 1 /\ up' = FALSE
  /\ \E half \in {{}} \cup {{k} : k \in Written} :
       /\ keys' = keys \ half
       /\ thread' = [k \in Keys |-> IF k \in half THEN <<>> ELSE thread[k]]
       /\ said' = {[e EXCEPT !.homes = @ \ half] : e \in said}
  /\ turn' = [t \in 1..MaxTurns |-> IF Working(t) THEN Over ELSE turn[t]]
  /\ current' = None
  /\ UNCHANGED <<asked, clock, horizon, turns, lines, lapses>>
\* most_recent_key: the one last said something in, but never the phone's.
Latest(k) == thread[k][Len(thread[k])].ts
Resumes == keys \ {PhoneKey}
Starts ==
  /\ ~up /\ up' = TRUE
  /\ current' = IF Resumes = {} THEN None
                ELSE CHOOSE k \in Resumes : \A j \in Resumes : Latest(j) <= Latest(k)
  /\ UNCHANGED <<thread, keys, turn, asked, clock, horizon, turns, lines, lapses, crashes, said>>

Next ==
  \/ Chats \/ PhoneTurn \/ \E t \in 1..MaxTurns : Replies(t)
  \/ Speaks \/ \E p \in Proposals : Asks(p) \/ Decided(p)
  \/ \E k \in Keys : Selects(k)
  \/ BeginsAgain \/ Lapses \/ Dies \/ Starts
Spec == Init /\ [][Next]_vars

----------------------------------------------------------------------------
(* Properties.                                                             *)

\* Types, and that what is open is a conversation the store has, the one turns go to
\* (sessions.py append drops, without a word, what is for one it has not).
TypeOK ==
  /\ keys \subseteq Keys /\ current \in keys \cup {None}
  /\ \A k \in Keys : k \notin keys => thread[k] = <<>>
  /\ \A k \in keys : \A m \in Kept(k) :
       m \in [who : {"user", "keeper"}, kind : {"reply", "proactive", "proposal"},
              ref : Nat, ts : 1..clock]
  /\ \A t \in 1..MaxTurns :
       /\ turn[t].at \in {"none", "working", "over"}
       /\ Working(t) => turn[t].key \in keys /\ Cardinality(turn[t].prior) <= RecentTurns
  /\ \A p \in Proposals : asked[p].at \in {"none", "waiting", "decided"}
  /\ horizon \in 0..clock /\ up \in BOOLEAN

\* Whatever was said is in the conversations it was said in, once, in order, and in no
\* other: a reply where its question is, though another was opened meanwhile; an
\* unbidden line where the page was and where the phone heard it.  Only a write cut off
\* by death takes a conversation with it (server.py _converse, _deliver_proactive,
\* _deliver_proposal, sessions.py).
KeptWhereSaid ==
  /\ \A k \in Keys : \A i, j \in DOMAIN thread[k] :
       i < j => thread[k][i].ts < thread[k][j].ts
  /\ \A e \in said : \A k \in Keys :
       k \in e.homes <=> e.msg \in Kept(k)

\* A turn that is shown the card of a proposal decided by then is shown its outcome,
\* once, after the card and after the reply of the turn that asked; unless it was decided
\* before that turn had replied, in which case its "it is waiting" comes last
\* (server.py _recent_turns, _outcome_of).
OutcomeIsLast ==
  \A t \in 1..MaxTurns : Working(t) =>
    \A card \in turn[t].prior : LET p == card.ref IN
      (card.kind = "proposal" /\ \E e \in said :
         /\ e.msg.who = "user" /\ e.msg.ref = t
         /\ asked[p].at = "decided" /\ asked[p].when < e.msg.ts) =>
        \E e \in turn[t].prior :
          /\ {f \in turn[t].prior : f.kind = "outcome" /\ f.ref = p} = {e}
          /\ card.ts < e.ts
          /\ asked[p].replied => \A f \in turn[t].prior :
               f.kind = "reply" /\ f.who = "keeper" /\ f.ref = asked[p].by => f.ts < e.ts
=============================================================================
