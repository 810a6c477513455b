------------------------- MODULE ConversationProofs -------------------------
(***************************************************************************)
(* Proofs about Conversation, for any number of turns, conversations,      *)
(* lines, proposals, absences and deaths.                                  *)
(***************************************************************************)
EXTENDS Conversation, FiniteSetTheorems, WellFoundedInduction, TLAPS

----------------------------------------------------------------------------
(* The inductive invariant.                                                *)

Line(kinds) == [who : {"user", "keeper"}, kind : kinds, ref : Nat, ts : Nat]
Known(m) == m.kind = "proposal" => m.ref \in Proposals
Message  == {m \in Line({"reply", "proactive", "proposal"}) : Known(m)}
Entry    == {m \in Line({"reply", "proactive", "proposal", "outcome"}) : Known(m)}
Turn     == [at : {"none", "working", "over"}, key : Nat, phone : BOOLEAN, prior : SUBSET Entry]
Question == [at : {"none", "waiting", "decided"}, by : Nat, replied : BOOLEAN, when : Nat]

Typed ==
  /\ clock \in Nat /\ horizon \in 0..clock /\ up \in BOOLEAN
  /\ turns \in 0..MaxTurns /\ lines \in Nat
  /\ keys \subseteq Keys /\ current \in keys \cup {None}
  /\ thread \in [Keys -> Seq(Message)]
  /\ turn \in [1..MaxTurns -> Turn] /\ asked \in [Proposals -> Question]
  /\ said \subseteq [msg : Message, homes : SUBSET Keys]

\* The conversations hold what was said, and nothing that was not.
Stored ==
  /\ \A k \in Keys : thread[k] = <<>> <=> k \notin keys
  /\ \A k \in Keys : \A m \in Kept(k) : \E e \in said : e.msg = m
  /\ KeptWhereSaid

\* No two things happen at one moment.
Decision(p) == asked[p].at = "decided"
Ticking ==
  /\ \A e \in said : e.msg.ts \in 1..clock
  /\ \A p \in Proposals : Decision(p) => asked[p].when \in 1..clock
  /\ \A e, f \in said : e.msg.ts = f.msg.ts => e.msg = f.msg
  /\ \A p \in Proposals, e \in said : Decision(p) => asked[p].when # e.msg.ts
  /\ \A p, q \in Proposals : Decision(p) /\ Decision(q) /\ asked[p].when = asked[q].when => p = q

Turning ==
  /\ \A t \in 1..MaxTurns :
       Working(t) => t <= turns /\ turn[t].key \in keys /\ Cardinality(turn[t].prior) <= RecentTurns
  /\ ~up => current = None /\ \A t \in 1..MaxTurns : ~Working(t)
  /\ \A e \in said : e.msg.who = "user" => e.msg.ref \in 1..turns

\* A reply is the last of its turn, and comes before the decision it did not wait for.
IsReply(m) == m.kind = "reply" /\ m.who = "keeper"
Answering ==
  /\ \A e \in said : IsReply(e.msg) => e.msg.ref \in 1..turns /\ ~Working(e.msg.ref)
  /\ \A p \in Proposals : asked[p].replied =>
       asked[p].by = 0 \/ (asked[p].by \in 1..turns /\ ~Working(asked[p].by))
  /\ \A p \in Proposals, e \in said : Decision(p) =>
       /\ asked[p].replied /\ IsReply(e.msg) /\ e.msg.ref = asked[p].by
            => e.msg.ts < asked[p].when
       /\ e.msg.kind = "proposal" /\ e.msg.ref = p => e.msg.ts < asked[p].when

Inv == Typed /\ Stored /\ Ticking /\ Turning /\ Answering /\ OutcomeIsLast

LEMMA ConstantsAre ==
  /\ MaxTurns \in Nat /\ RecentTurns \in Nat \ {0} /\ PhoneKey \in Keys
  /\ Proposals \subseteq Nat \ {0} /\ None \notin Keys
  BY ConversationAssumption DEF PhoneKey, Keys, None

LEMMA InvImplies == Inv => TypeOK /\ KeptWhereSaid /\ OutcomeIsLast
<1> SUFFICES ASSUME Inv PROVE TypeOK
  BY DEF Inv, Stored
<1>1. /\ keys \subseteq Keys /\ current \in keys \cup {None}
      /\ horizon \in 0..clock /\ up \in BOOLEAN
      /\ \A k \in Keys : k \notin keys => thread[k] = <<>>
  BY DEF Inv, Typed, Stored
<1>2. ASSUME NEW k \in keys, NEW m \in Kept(k)
      PROVE  m \in [who : {"user", "keeper"}, kind : {"reply", "proactive", "proposal"},
                    ref : Nat, ts : 1..clock]
  <2>1. PICK e \in said : e.msg = m
    BY <1>1 DEF Inv, Stored
  <2>2. m \in Message /\ m.ts \in 1..clock
    BY <2>1 DEF Inv, Typed, Ticking
  <2>3. QED BY <2>2 DEF Message, Line
<1>3. ASSUME NEW t \in 1..MaxTurns
      PROVE  /\ turn[t].at \in {"none", "working", "over"}
             /\ Working(t) => turn[t].key \in keys /\ Cardinality(turn[t].prior) <= RecentTurns
  BY DEF Inv, Typed, Turn, Turning
<1>4. ASSUME NEW p \in Proposals
      PROVE  asked[p].at \in {"none", "waiting", "decided"}
  BY DEF Inv, Typed, Question
<1>5. QED BY <1>1, <1>2, <1>3, <1>4 DEF TypeOK

LEMMA InitInv == Init => Inv
<1> SUFFICES ASSUME Init PROVE Inv
  OBVIOUS
<1>1. NoTurn \in Turn /\ NoTurn.at = "none" /\ Unasked \in Question /\ Unasked.at = "none"
      /\ Unasked.replied = FALSE
  BY DEF NoTurn, Turn, None, Unasked, Question
<1>2. /\ \A t \in 1..MaxTurns : turn[t] = NoTurn /\ ~Working(t)
      /\ \A p \in Proposals : asked[p] = Unasked
      /\ \A k \in Keys : thread[k] = <<>> /\ Kept(k) = {}
  BY <1>1 DEF Init, Working, Kept
<1>3. Typed
  BY <1>1, ConstantsAre DEF Init, Typed
<1>4. Stored
  BY <1>2 DEF Init, Stored, KeptWhereSaid
<1>5. Ticking /\ Turning /\ Answering
  BY <1>1, <1>2 DEF Init, Ticking, Turning, Answering, Decision
<1>6. OutcomeIsLast
  BY <1>2 DEF OutcomeIsLast
<1>7. QED BY <1>3, <1>4, <1>5, <1>6 DEF Inv

----------------------------------------------------------------------------
(* Something is said.                                                      *)

LEMMA Appending ==
  ASSUME NEW s \in Seq(Message), NEW m \in Message
  PROVE  LET t == Append(s, m) IN
         /\ t \in Seq(Message) /\ t # <<>> /\ DOMAIN t = DOMAIN s \cup {Len(s) + 1}
         /\ \A i \in DOMAIN s : t[i] = s[i] /\ i < Len(s) + 1
         /\ t[Len(s) + 1] = m
         /\ {t[i] : i \in DOMAIN t} = {s[i] : i \in DOMAIN s} \cup {m}
<1>1. PICK t : t = Append(s, m)
  OBVIOUS
<1>2. /\ t \in Seq(Message) /\ Len(t) = Len(s) + 1 /\ Len(s) \in Nat
      /\ DOMAIN t = 1..Len(s) + 1 /\ DOMAIN s = 1..Len(s)
  BY <1>1
<1>3. (\A i \in DOMAIN s : t[i] = s[i] /\ i < Len(s) + 1) /\ t[Len(s) + 1] = m
  BY <1>1, <1>2
<1>4. DOMAIN t = DOMAIN s \cup {Len(s) + 1}
  BY <1>2
<1>5. {t[i] : i \in DOMAIN t} = {s[i] : i \in DOMAIN s} \cup {m}
  BY <1>3, <1>4
<1>6. t # <<>>
  BY <1>2
<1>7. QED BY <1>1, <1>2, <1>3, <1>4, <1>5, <1>6

\* What is said is added to the conversations it is said in, later than all else.
LEMMA Adding ==
  ASSUME Inv, NEW ks \in SUBSET Keys, NEW msg \in Message, msg.ts = clock + 1,
         Appends(ks, msg), Noted(msg, ks)
  PROVE  /\ clock' = clock + 1 /\ keys' = keys \cup ks /\ keys' \subseteq Keys
         /\ thread' \in [Keys -> Seq(Message)]
         /\ said' = said \cup {[msg |-> msg, homes |-> ks]}
         /\ said' \subseteq [msg : Message, homes : SUBSET Keys]
         /\ \A e \in said' : e \in said \/ e.msg = msg
         /\ Stored'
<1>1. /\ clock \in Nat /\ keys \subseteq Keys /\ thread \in [Keys -> Seq(Message)]
      /\ said \subseteq [msg : Message, homes : SUBSET Keys]
  BY DEF Inv, Typed
<1>2. PICK new : /\ new = [msg |-> msg, homes |-> ks] /\ said' = said \cup {new}
                 /\ new.msg = msg /\ new.homes = ks
                 /\ new \in [msg : Message, homes : SUBSET Keys]
  <2>1. PICK new : new = [msg |-> msg, homes |-> ks]
    OBVIOUS
  <2>2. QED BY <2>1 DEF Noted
<1>3. /\ clock' = clock + 1 /\ keys' = keys \cup ks
      /\ thread' = [k \in Keys |-> IF k \in ks THEN Append(thread[k], msg) ELSE thread[k]]
  BY DEF Appends
<1>4. ASSUME NEW k \in Keys
      PROVE  /\ thread'[k] \in Seq(Message)
             /\ k \notin ks => thread'[k] = thread[k] /\ Kept(k)' = Kept(k)
             /\ k \in ks => thread'[k] # <<>> /\ Kept(k)' = Kept(k) \cup {msg}
             /\ \A i, j \in DOMAIN thread'[k] : i < j => thread'[k][i].ts < thread'[k][j].ts
  <2>1. /\ thread[k] \in Seq(Message)
        /\ \A i, j \in DOMAIN thread[k] : i < j => thread[k][i].ts < thread[k][j].ts
    BY <1>1 DEF Inv, Stored, KeptWhereSaid
  <2>2. CASE k \notin ks
    BY <1>3, <2>1, <2>2 DEF Kept
  <2>3. CASE k \in ks
    <3>1. PICK s, u : s \in Seq(Message) /\ s = thread[k] /\ u = thread'[k] /\ u = Append(s, msg)
      BY <1>3, <2>1, <2>3
    <3>2. /\ u \in Seq(Message) /\ u # <<>> /\ DOMAIN u = DOMAIN s \cup {Len(s) + 1}
          /\ \A i \in DOMAIN s : u[i] = s[i] /\ i < Len(s) + 1
          /\ u[Len(s) + 1] = msg
          /\ {u[i] : i \in DOMAIN u} = {s[i] : i \in DOMAIN s} \cup {msg}
      BY <3>1, Appending
    <3>3. ASSUME NEW i \in DOMAIN s
          PROVE  s[i].ts < msg.ts
      <4>1. s[i] \in Kept(k)
        BY <3>1 DEF Kept
      <4>2. PICK e \in said : e.msg = s[i]
        BY <4>1 DEF Inv, Stored
      <4>3. e.msg.ts \in 1..clock
        BY DEF Inv, Ticking
      <4>4. QED BY <1>1, <4>2, <4>3
    <3>4. \A i, j \in DOMAIN u : i < j => u[i].ts < u[j].ts
      <4> SUFFICES ASSUME NEW i \in DOMAIN u, NEW j \in DOMAIN u, i < j
                   PROVE  u[i].ts < u[j].ts
        OBVIOUS
      <4>1. i \in Nat /\ j \in Nat /\ Len(s) \in Nat
        BY <3>1, <3>2
      <4>2. i \in DOMAIN s
        BY <3>2, <4>1
      <4>3. CASE j \in DOMAIN s
        BY <2>1, <3>1, <3>2, <4>2, <4>3
      <4>4. CASE j = Len(s) + 1
        BY <3>2, <3>3, <4>2, <4>4
      <4>5. QED BY <3>2, <4>3, <4>4
    <3>5. Kept(k)' = Kept(k) \cup {msg}
      BY <3>1, <3>2 DEF Kept
    <3>6. QED BY <2>3, <3>1, <3>2, <3>4, <3>5
  <2>4. QED BY <2>2, <2>3
<1>5. thread' \in [Keys -> Seq(Message)]
  BY <1>3, <1>4
<1>6. \A e \in said : e.msg # msg
  BY <1>1 DEF Inv, Ticking
<1>7. ASSUME NEW k \in Keys
      PROVE  msg \notin Kept(k)
  BY <1>6 DEF Inv, Stored
<1>8. Stored'
  <2>1. \A k \in Keys : thread'[k] = <<>> <=> k \notin keys'
    BY <1>3, <1>4 DEF Inv, Stored
  <2>2. (\A k \in Keys : \A m \in Kept(k) : \E e \in said : e.msg = m)'
    BY <1>2, <1>4 DEF Inv, Stored
  <2>3. ASSUME NEW e \in said', NEW k \in Keys
        PROVE  k \in e.homes <=> e.msg \in Kept(k)'
    <3>1. CASE e \in said
      BY <1>4, <1>6, <3>1 DEF Inv, Stored, KeptWhereSaid
    <3>2. CASE e = new
      BY <1>2, <1>4, <1>7, <3>2
    <3>3. QED BY <1>2, <3>1, <3>2
  <2>4. KeptWhereSaid'
    BY <1>4, <2>3 DEF KeptWhereSaid
  <2>5. QED BY <2>1, <2>2, <2>4 DEF Stored
<1>9. QED BY <1>1, <1>2, <1>3, <1>5, <1>8

----------------------------------------------------------------------------
(* What a turn is shown.                                                   *)

Below == {x \in Nat \X Nat : x[1] < x[2]}
LEMMA LeastNatural ==
  ASSUME NEW S \in SUBSET Nat, S # {}
  PROVE  \E x \in S : \A y \in S : x <= y
<1>1. IsWellFoundedOn(Below, Nat)
  BY NatLessThanWellFounded DEF OpToRel, Below
<1>2. PICK x \in S : \A y \in S : <<y, x>> \notin Below
  BY <1>1, WFMin
<1>3. \A m, n \in Nat : m < n => <<m, n>> \in Below
  BY DEF Below
<1>4. \A y \in S : x \in Nat /\ y \in Nat /\ ~(y < x)
  BY <1>2, <1>3
<1>5. QED BY <1>4

\* The entries of a conversation: its messages and the outcomes of its cards, each at a
\* moment of its own.
LEMMA EntriesAre ==
  ASSUME Inv, NEW k \in Keys
  PROVE  /\ Entries(k) \subseteq Entry
         /\ \A e \in Entries(k) : e.ts \in 1..clock
         /\ \A e, f \in Entries(k) : e.ts = f.ts => e = f
         /\ \A e \in Entries(k) :
              IF e.kind = "outcome"
              THEN e.ref \in Proposals /\ Decision(e.ref) /\ e = Outcome(e)
              ELSE \E s \in said : s.msg = e
         /\ \A e \in Entries(k) :
              e.kind = "proposal" /\ Decision(e.ref) => Outcome(e) \in Entries(k)
<1>1. ASSUME NEW e \in Entries(k)
      PROVE  \/ /\ e \in Message /\ e.kind # "outcome" /\ e.ts \in 1..clock
                /\ \E s \in said : s.msg = e
             \/ /\ e.kind = "outcome" /\ e = Outcome(e) /\ e \in Entry /\ e.ts \in 1..clock
                /\ e.ref \in Proposals /\ Decision(e.ref) /\ e.ts = asked[e.ref].when
  <2>1. PICK recent, cards :
          /\ recent = {m \in Kept(k) : m.ts > horizon}
          /\ cards = {m \in recent : m.kind = "proposal" /\ asked[m.ref].at = "decided"}
          /\ Entries(k) = recent \cup {Outcome(m) : m \in cards}
    BY DEF Entries
  <2>2. ASSUME NEW m \in Kept(k)
        PROVE  m \in Message /\ m.ts \in 1..clock /\ \E s \in said : s.msg = m
    <3>1. PICK s \in said : s.msg = m
      BY DEF Inv, Stored
    <3>2. QED BY <3>1 DEF Inv, Typed, Ticking
  <2>3. CASE e \in recent
    <3>1. e \in Message /\ e.ts \in 1..clock /\ \E s \in said : s.msg = e
      BY <2>1, <2>2, <2>3
    <3>2. e.kind # "outcome"
      BY <3>1 DEF Message, Line
    <3>3. QED BY <3>1, <3>2
  <2>4. ASSUME NEW m \in cards, e = Outcome(m)
        PROVE  /\ e.kind = "outcome" /\ e = Outcome(e) /\ e \in Entry /\ e.ts \in 1..clock
               /\ e.ref \in Proposals /\ Decision(e.ref) /\ e.ts = asked[e.ref].when
    <3>1. m \in Message /\ m.kind = "proposal" /\ asked[m.ref].at = "decided"
      BY <2>1, <2>2, <2>4
    <3>2. m.ref \in Proposals /\ m.ref \in Nat
      BY <3>1 DEF Message, Line, Known
    <3>3. /\ e = [who |-> "keeper", kind |-> "outcome", ref |-> m.ref,
                  ts |-> asked[m.ref].when]
          /\ e.ref = m.ref /\ e.kind = "outcome" /\ e.ts = asked[m.ref].when
      BY <2>4 DEF Outcome
    <3>4. e = Outcome(e) /\ Decision(e.ref)
      BY <3>1, <3>3 DEF Outcome, Decision
    <3>5. e.ts \in 1..clock /\ e.ts \in Nat
      BY <3>1, <3>2, <3>3 DEF Inv, Ticking, Decision
    <3>6. e \in Entry
      BY <3>2, <3>3, <3>5 DEF Entry, Line, Known
    <3>7. QED BY <3>2, <3>3, <3>4, <3>5, <3>6
  <2>5. QED BY <2>1, <2>3, <2>4
<1>2. Message \subseteq Entry
  BY DEF Message, Entry, Line
<1>3. ASSUME NEW e \in Entries(k), NEW f \in Entries(k), e.ts = f.ts
      PROVE  e = f
  <2>1. CASE e.kind = "outcome" /\ f.kind = "outcome"
    <3>1. /\ e.ref \in Proposals /\ Decision(e.ref) /\ e.ts = asked[e.ref].when /\ e = Outcome(e)
          /\ f.ref \in Proposals /\ Decision(f.ref) /\ f.ts = asked[f.ref].when /\ f = Outcome(f)
      BY <1>1, <2>1
    <3>2. e.ref = f.ref
      BY <1>3, <3>1 DEF Inv, Ticking
    <3>3. QED BY <3>1, <3>2 DEF Outcome
  <2>2. CASE e.kind # "outcome" /\ f.kind # "outcome"
    BY <1>1, <1>3, <2>2 DEF Inv, Ticking
  <2>3. CASE e.kind = "outcome" /\ f.kind # "outcome"
    BY <1>1, <1>3, <2>3 DEF Inv, Ticking
  <2>4. CASE e.kind # "outcome" /\ f.kind = "outcome"
    BY <1>1, <1>3, <2>4 DEF Inv, Ticking
  <2>5. QED BY <2>1, <2>2, <2>3, <2>4
<1>4. ASSUME NEW e \in Entries(k), e.kind = "proposal", Decision(e.ref)
      PROVE  Outcome(e) \in Entries(k)
  <2>1. PICK recent, cards :
          /\ recent = {m \in Kept(k) : m.ts > horizon}
          /\ cards = {m \in recent : m.kind = "proposal" /\ asked[m.ref].at = "decided"}
          /\ Entries(k) = recent \cup {Outcome(m) : m \in cards}
    BY DEF Entries
  <2>2. e \in recent
    BY <1>4, <2>1 DEF Outcome
  <2>3. QED BY <1>4, <2>1, <2>2 DEF Decision
<1>5. QED BY <1>1, <1>2, <1>3, <1>4

\* What comes later than an entry.
Later(k, e) == {f \in Entries(k) : f.ts > e.ts}

LEMMA EntriesFinite ==
  ASSUME Inv, NEW k \in Keys
  PROVE  IsFiniteSet(Entries(k))
<1>1. PICK all : all = Entries(k)
  OBVIOUS
<1>2. PICK time : time = [e \in all |-> e.ts]
  OBVIOUS
<1>3. time \in Injection(all, 1..clock)
  <2>1. \A e \in all : e.ts \in 1..clock
    BY <1>1, EntriesAre
  <2>2. \A e, f \in all : e.ts = f.ts => e = f
    BY <1>1, EntriesAre
  <2>3. QED BY <1>2, <2>1, <2>2 DEF Injection, IsInjective
<1>4. IsFiniteSet(1..clock)
  BY FS_Interval DEF Inv, Typed
<1>5. QED BY <1>1, <1>3, <1>4, FS_Injection

\* They are no more than RECENT_TURNS, and with one come all that are later.
LEMMA RecentAre ==
  ASSUME Inv, NEW k \in Keys
  PROVE  /\ RecentOf(k) \subseteq Entries(k)
         /\ Cardinality(RecentOf(k)) <= RecentTurns
         /\ \A e \in RecentOf(k) : \A f \in Entries(k) : f.ts > e.ts => f \in RecentOf(k)
<1>1. PICK all, recent : /\ all = Entries(k) /\ recent = RecentOf(k)
                         /\ recent = {e \in all : Cardinality(Later(k, e)) < RecentTurns}
  BY DEF RecentOf, Later
<1>2. /\ \A e \in all : e.ts \in Nat
      /\ \A e, f \in all : e.ts = f.ts => e = f
  BY <1>1, EntriesAre
<1>3. IsFiniteSet(all) /\ RecentTurns \in Nat \ {0}
  BY <1>1, EntriesFinite, ConstantsAre
<1>4. \A e \in all : IsFiniteSet(Later(k, e)) /\ Cardinality(Later(k, e)) \in Nat
  <2>1. \A e \in all : Later(k, e) \in SUBSET all
    BY <1>1 DEF Later
  <2>2. QED BY <1>3, <2>1, FS_Subset, FS_CardinalityType
<1>5. ASSUME NEW e \in recent, NEW f \in all, f.ts > e.ts
      PROVE  f \in recent
  <2>1. Later(k, f) \in SUBSET Later(k, e)
    BY <1>1, <1>2, <1>5 DEF Later
  <2>2. e \in all
    BY <1>1
  <2>3. Cardinality(Later(k, f)) <= Cardinality(Later(k, e))
    BY <1>4, <2>1, <2>2, FS_Subset
  <2>4. QED BY <1>1, <1>3, <1>4, <1>5, <2>2, <2>3
<1>6. IsFiniteSet(recent)
  <2>1. recent \in SUBSET all
    BY <1>1
  <2>2. QED BY <1>3, <2>1, FS_Subset
<1>7. ASSUME recent = {}
      PROVE  Cardinality(recent) <= RecentTurns
  <2>1. Cardinality(recent) = 0
    BY <1>7, FS_EmptySet
  <2>2. QED BY <1>3, <2>1
<1>8. ASSUME recent # {}
      PROVE  Cardinality(recent) <= RecentTurns
  <2>1. PICK times : times = {e.ts : e \in recent}
    OBVIOUS
  <2>2. times \in SUBSET Nat /\ times # {}
    BY <1>1, <1>2, <1>8, <2>1
  <2>3. PICK first \in recent : \A f \in recent : first.ts <= f.ts
    <3>1. PICK x \in times : \A y \in times : x <= y
      BY <2>2, LeastNatural
    <3>2. QED BY <2>1, <3>1
  <2>4. first \in all
    BY <1>1
  <2>5. recent \ {first} \in SUBSET Later(k, first)
    <3> SUFFICES ASSUME NEW f \in recent, f # first PROVE f.ts > first.ts
      BY <1>1 DEF Later
    <3>1. f \in all /\ f.ts \in Nat /\ first.ts \in Nat
      BY <1>1, <1>2, <2>4
    <3>2. f.ts # first.ts
      BY <1>2, <2>4, <3>1
    <3>3. QED BY <2>3, <3>1, <3>2
  <2>6. Cardinality(recent \ {first}) <= Cardinality(Later(k, first))
    BY <1>4, <2>4, <2>5, FS_Subset
  <2>7. Cardinality(recent \ {first}) = Cardinality(recent) - 1
    BY <1>6, FS_RemoveElement
  <2>8. Cardinality(recent) \in Nat /\ Cardinality(Later(k, first)) \in Nat
    BY <1>4, <1>6, <2>4, FS_CardinalityType
  <2>9. Cardinality(Later(k, first)) < RecentTurns
    BY <1>1
  <2>10. QED BY <1>3, <2>6, <2>7, <2>8, <2>9
<1>9. QED
  <2>1. Cardinality(recent) <= RecentTurns
    BY <1>7, <1>8
  <2>2. QED BY <1>1, <1>5, <2>1

\* What a working turn is shown of the decisions made before it.
Follows(card, prior) == \E e \in prior :
  /\ {f \in prior : f.kind = "outcome" /\ f.ref = card.ref} = {e}
  /\ card.ts < e.ts
  /\ asked[card.ref].replied => \A f \in prior :
       f.kind = "reply" /\ f.who = "keeper" /\ f.ref = asked[card.ref].by => f.ts < e.ts
Shown(t) == Working(t) =>
  \A card \in turn[t].prior :
    (card.kind = "proposal" /\ \E e \in said :
       /\ e.msg.who = "user" /\ e.msg.ref = t
       /\ Decision(card.ref) /\ asked[card.ref].when < e.msg.ts) => Follows(card, turn[t].prior)

LEMMA AllShown == OutcomeIsLast <=> \A t \in 1..MaxTurns : Shown(t)
  BY DEF OutcomeIsLast, Shown, Follows, Decision

LEMMA OutcomeFollows ==
  ASSUME Inv, NEW k \in Keys, NEW card \in RecentOf(k), card.kind = "proposal",
         Decision(card.ref)
  PROVE  Follows(card, RecentOf(k))
<1>1. PICK recent, p, e : recent = RecentOf(k) /\ p = card.ref /\ e = Outcome(card)
  OBVIOUS
<1>2. card \in Entries(k) /\ recent \subseteq Entries(k)
  BY <1>1, RecentAre
<1>3. /\ e.kind = "outcome" /\ e.ref = p /\ e.ts = asked[p].when /\ e \in Entries(k)
      /\ e = [who |-> "keeper", kind |-> "outcome", ref |-> p, ts |-> asked[p].when]
  BY <1>1, <1>2, EntriesAre DEF Outcome
<1>4. PICK s \in said : s.msg = card
  BY <1>2, EntriesAre
<1>5. p \in Proposals /\ Decision(p)
  <2>1. card \in Entry
    BY <1>2, EntriesAre
  <2>2. QED BY <1>1, <2>1 DEF Entry, Known
<1>6. card.ts < e.ts
  BY <1>1, <1>3, <1>4, <1>5 DEF Inv, Answering
<1>7. e \in recent
  <2>1. card.ts \in Nat /\ e.ts \in Nat
    BY <1>2, <1>3, EntriesAre
  <2>2. QED BY <1>1, <1>3, <1>6, <2>1, RecentAre
<1>8. {f \in recent : f.kind = "outcome" /\ f.ref = p} = {e}
  <2>1. ASSUME NEW f \in recent, f.kind = "outcome", f.ref = p
        PROVE  f = e
    <3>1. f = Outcome(f)
      BY <1>2, <2>1, EntriesAre
    <3>2. QED BY <1>3, <2>1, <3>1 DEF Outcome
  <2>2. QED BY <1>3, <1>7, <2>1
<1>9. ASSUME asked[p].replied, NEW f \in recent, IsReply(f), f.ref = asked[p].by
      PROVE  f.ts < e.ts
  <2>1. f.kind # "outcome" /\ f \in Entries(k)
    BY <1>2, <1>9 DEF IsReply
  <2>2. PICK g \in said : g.msg = f
    BY <2>1, EntriesAre
  <2>3. QED BY <1>3, <1>5, <1>9, <2>2 DEF Inv, Answering
<1>10. QED BY <1>1, <1>6, <1>7, <1>8, <1>9 DEF Follows, IsReply

\* Of a turn that goes on nothing changes: what was decided stays so, what is decided
\* now is after its question.
LEMMA StaysShown ==
  ASSUME Inv, NEW t \in 1..MaxTurns, Working(t)' => Working(t) /\ turn'[t].prior = turn[t].prior,
         asked' \in [Proposals -> Question],
         \A p \in Proposals :
           asked'[p] = asked[p] \/ asked'[p].at # "decided" \/ asked'[p].when > clock,
         \A e \in said' : e.msg.who = "user" /\ e.msg.ref = t => \E f \in said : f.msg = e.msg
  PROVE  Shown(t)'
<1> SUFFICES ASSUME Working(t)', NEW card \in turn'[t].prior, card.kind = "proposal",
                    NEW e \in said', e.msg.who = "user", e.msg.ref = t,
                    Decision(card.ref)', asked'[card.ref].when < e.msg.ts
             PROVE  Follows(card, turn[t].prior)'
  BY DEF Shown
<1>1. PICK p : p = card.ref
  OBVIOUS
<1>2. Working(t) /\ card \in turn[t].prior /\ turn'[t].prior = turn[t].prior
  OBVIOUS
<1>3. card \in Entry
  <2>1. turn[t] \in Turn
    BY DEF Inv, Typed
  <2>2. QED BY <1>2, <2>1 DEF Turn
<1>4. p \in Proposals
  BY <1>1, <1>3 DEF Entry, Known
<1>5. PICK f \in said : f.msg = e.msg
  OBVIOUS
<1>6. f.msg.ts \in 1..clock /\ clock \in Nat
  BY DEF Inv, Typed, Ticking
<1>7. asked'[p] = asked[p]
  <2>1. asked'[p].at = "decided" /\ asked'[p].when < f.msg.ts
    BY <1>1, <1>5 DEF Decision
  <2>2. asked'[p] = asked[p] \/ asked'[p].when > clock
    BY <1>4, <2>1
  <2>3. ASSUME asked'[p].when > clock PROVE FALSE
    <3>1. asked'[p] \in Question
      BY <1>4
    <3>2. PICK w \in Nat : w = asked'[p].when /\ w > clock /\ w < f.msg.ts
      BY <2>1, <2>3, <3>1 DEF Question
    <3>3. QED BY <1>6, <3>2
  <2>4. QED BY <2>2, <2>3
<1>8. Decision(card.ref) /\ asked[card.ref].when < f.msg.ts
  BY <1>1, <1>5, <1>7 DEF Decision
<1>9. Shown(t)
  BY AllShown DEF Inv
<1>10. Follows(card, turn[t].prior)
  BY <1>2, <1>5, <1>8, <1>9 DEF Shown
<1>11. QED BY <1>1, <1>2, <1>7, <1>10 DEF Follows

\* Whatever is said, by a turn or unbidden.
LEMMA Speaking ==
  ASSUME Inv, NEW ks \in SUBSET Keys, NEW msg \in Message, msg.ts = clock + 1,
         Appends(ks, msg), Noted(msg, ks), UNCHANGED <<up, horizon>>, up,
         turns' \in 0..MaxTurns, turns <= turns', lines' \in Nat, current' \in keys' \cup {None},
         turn' \in [1..MaxTurns -> Turn], asked' \in [Proposals -> Question],
         \A t \in 1..MaxTurns : Working(t)' =>
           \/ Working(t) /\ turn'[t] = turn[t]
           \/ /\ turns < t /\ t <= turns' /\ turn'[t].key \in keys'
              /\ Cardinality(turn'[t].prior) <= RecentTurns /\ Shown(t)',
         \A p \in Proposals : Decision(p)' => asked'[p] = asked[p],
         (\A p \in Proposals : asked[p].replied =>
            asked[p].by = 0 \/ (asked[p].by \in 1..turns /\ ~Working(asked[p].by)))',
         msg.who = "user" => msg.ref \in turns + 1..turns',
         IsReply(msg) => msg.ref \in 1..MaxTurns /\ Working(msg.ref) /\ ~Working(msg.ref)',
         msg.kind = "proposal" => ~Decision(msg.ref)'
  PROVE  Inv'
<1>1. /\ clock' = clock + 1 /\ keys' = keys \cup ks /\ keys' \subseteq Keys
      /\ thread' \in [Keys -> Seq(Message)]
      /\ said' \subseteq [msg : Message, homes : SUBSET Keys]
      /\ (\A e \in said' : e \in said \/ e.msg = msg)
      /\ Stored'
  BY Adding
<1>2. /\ clock \in Nat /\ clock' \in Nat /\ horizon \in 0..clock /\ horizon \in 0..clock'
      /\ turns \in 0..MaxTurns /\ MaxTurns \in Nat
  BY <1>1, ConstantsAre DEF Inv, Typed
<1>3. Typed'
  BY <1>1, <1>2 DEF Inv, Typed
<1>4. \A e \in said : e.msg.ts \in 1..clock
  BY DEF Inv, Ticking
<1>5. \A p \in Proposals : Decision(p)' => /\ Decision(p) /\ asked'[p] = asked[p]
                                           /\ asked[p].when \in 1..clock
  BY DEF Decision, Inv, Ticking
<1>6. Ticking'
  <2>1. \A e \in said' : e.msg.ts \in 1..clock'
    BY <1>1, <1>2, <1>4
  <2>2. \A p \in Proposals : Decision(p)' => asked'[p].when \in 1..clock'
    BY <1>1, <1>2, <1>5
  <2>3. \A e, f \in said' : e.msg.ts = f.msg.ts => e.msg = f.msg
    BY <1>1, <1>2, <1>4 DEF Inv, Ticking
  <2>4. \A p \in Proposals, e \in said' : Decision(p)' => asked'[p].when # e.msg.ts
    BY <1>1, <1>2, <1>5 DEF Inv, Ticking
  <2>5. \A p, q \in Proposals :
          Decision(p)' /\ Decision(q)' /\ asked'[p].when = asked'[q].when => p = q
    BY <1>5 DEF Inv, Ticking
  <2>6. QED BY <2>1, <2>2, <2>3, <2>4, <2>5 DEF Ticking
<1>7. Turning'
  <2>1. ASSUME NEW t \in 1..MaxTurns, Working(t)'
        PROVE  /\ t <= turns' /\ turn'[t].key \in keys'
               /\ Cardinality(turn'[t].prior) <= RecentTurns
    <3>1. CASE Working(t) /\ turn'[t] = turn[t]
      BY <1>1, <1>2, <3>1 DEF Inv, Turning
    <3>2. CASE ~(Working(t) /\ turn'[t] = turn[t])
      BY <2>1, <3>2
    <3>3. QED BY <3>1, <3>2
  <2>2. ASSUME NEW e \in said', e.msg.who = "user"
        PROVE  e.msg.ref \in 1..turns'
    <3>1. CASE e \in said
      BY <1>2, <2>2, <3>1 DEF Inv, Turning
    <3>2. CASE e.msg = msg
      BY <1>2, <2>2, <3>2
    <3>3. QED BY <1>1, <3>1, <3>2
  <2>3. QED BY <2>1, <2>2 DEF Turning
<1>8. \A t \in 1..turns : Working(t)' => Working(t)
  BY <1>2
<1>9. Answering'
  <2>1. ASSUME NEW e \in said', IsReply(e.msg)
        PROVE  e.msg.ref \in 1..turns' /\ ~Working(e.msg.ref)'
    <3>1. CASE e \in said
      <4>1. e.msg.ref \in 1..turns /\ ~Working(e.msg.ref)
        BY <2>1, <3>1 DEF Inv, Answering
      <4>2. QED BY <1>2, <1>8, <4>1
    <3>2. CASE e.msg = msg
      <4>1. msg.ref \in 1..MaxTurns /\ msg.ref <= turns /\ ~Working(msg.ref)'
        BY <2>1, <3>2 DEF Inv, Turning
      <4>2. QED BY <1>2, <3>2, <4>1
    <3>3. QED BY <1>1, <3>1, <3>2
  <2>2. ASSUME NEW p \in Proposals, NEW e \in said', Decision(p)'
        PROVE  /\ asked'[p].replied /\ IsReply(e.msg) /\ e.msg.ref = asked'[p].by
                    => e.msg.ts < asked'[p].when
               /\ e.msg.kind = "proposal" /\ e.msg.ref = p => e.msg.ts < asked'[p].when
    <3>1. Decision(p) /\ asked'[p] = asked[p]
      BY <1>5, <2>2
    <3>2. CASE e \in said
      BY <3>1, <3>2 DEF Inv, Answering
    <3>3. CASE e.msg = msg
      <4>1. ~(msg.kind = "proposal" /\ msg.ref = p)
        BY <2>2
      <4>2. ASSUME asked[p].replied, IsReply(msg), msg.ref = asked[p].by
            PROVE  FALSE
        <5>1. msg.ref \in 1..MaxTurns /\ Working(msg.ref)
          BY <4>2
        <5>2. msg.ref # 0 /\ ~Working(msg.ref)
          BY <4>2, <5>1, ConstantsAre DEF Inv, Answering
        <5>3. QED BY <5>1, <5>2
      <4>3. ~(e.msg.kind = "proposal" /\ e.msg.ref = p)
        BY <3>3, <4>1
      <4>4. ~(asked'[p].replied /\ IsReply(e.msg) /\ e.msg.ref = asked'[p].by)
        BY <3>1, <3>3, <4>2
      <4>5. QED BY <4>3, <4>4
    <3>4. QED BY <1>1, <3>2, <3>3
  <2>3. QED BY <2>1, <2>2 DEF Answering
<1>10. ASSUME NEW t \in 1..MaxTurns
       PROVE  Shown(t)'
  <2>1. CASE Working(t)' => Working(t) /\ turn'[t] = turn[t]
    <3>1. ASSUME NEW e \in said', e.msg.who = "user", e.msg.ref = t, Working(t)'
          PROVE  \E f \in said : f.msg = e.msg
      <4>1. t <= turns
        BY <2>1, <3>1 DEF Inv, Turning
      <4>2. e.msg # msg
        BY <1>2, <3>1, <4>1
      <4>3. QED BY <1>1, <4>2
    <3>2. CASE Working(t)'
      BY <1>5, <2>1, <3>1, <3>2, StaysShown DEF Decision
    <3>3. CASE ~Working(t)'
      BY <3>3 DEF Shown
    <3>4. QED BY <3>2, <3>3
  <2>2. CASE ~(Working(t)' => Working(t) /\ turn'[t] = turn[t])
    BY <2>2
  <2>3. QED BY <2>1, <2>2
<1>11. OutcomeIsLast'
  <2>1. (\A t \in 1..MaxTurns : Shown(t))'
    BY <1>10
  <2>2. QED BY <2>1, AllShown, PTL
<1>12. QED BY <1>1, <1>3, <1>6, <1>7, <1>9, <1>11 DEF Inv

----------------------------------------------------------------------------
(* The steps.                                                              *)

LEMMA MsgIs ==
  ASSUME Inv, NEW who \in {"user", "keeper"}, NEW kind \in {"reply", "proactive", "proposal"},
         NEW ref \in Nat, kind = "proposal" => ref \in Proposals
  PROVE  LET m == Msg(who, kind, ref) IN
         m \in Message /\ m.ts = clock + 1 /\ m.who = who /\ m.kind = kind /\ m.ref = ref
<1>1. PICK m : m = Msg(who, kind, ref)
  OBVIOUS
<1>2. clock + 1 \in Nat
  BY DEF Inv, Typed
<1>3. m = [who |-> who, kind |-> kind, ref |-> ref, ts |-> clock + 1]
  BY <1>1 DEF Msg
<1>4. m.ts = clock + 1 /\ m.who = who /\ m.kind = kind /\ m.ref = ref
  BY <1>3
<1>5. m \in Message
  BY <1>2, <1>3 DEF Message, Line, Known
<1>6. QED BY <1>1, <1>4, <1>5

LEMMA OpenIs == ASSUME Inv, NEW k \in Open PROVE k \in Keys
<1>1. CASE current # None
  BY <1>1 DEF Open, Inv, Typed
<1>2. CASE current = None
  BY <1>2 DEF Open
<1>3. QED BY <1>1, <1>2

\* A turn begins in a conversation; what it is shown is of that one.
LEMMA BeginsStep ==
  ASSUME Inv, NEW k \in Keys, NEW phone \in BOOLEAN, Begins(k, phone),
         current' = k \/ UNCHANGED current
  PROVE  Inv'
<1>1. PICK t, msg : t = turns + 1 /\ msg = Msg("user", "reply", t)
  OBVIOUS
<1>2. turns \in Nat /\ MaxTurns \in Nat /\ turns < MaxTurns
  BY ConstantsAre DEF Begins, Inv, Typed
<1>3. t \in 1..MaxTurns /\ t \in Nat
  BY <1>1, <1>2
<1>4. /\ msg \in Message /\ msg.ts = clock + 1 /\ msg.who = "user" /\ msg.kind = "reply"
      /\ msg.ref = t
  BY <1>1, <1>3, MsgIs
<1>5. PICK new : new = [at |-> "working", key |-> k, phone |-> phone, prior |-> RecentOf(k)]
  OBVIOUS
<1>6. /\ up /\ turns' = t /\ turn' = [turn EXCEPT ![t] = new]
      /\ Appends({k}, msg) /\ Noted(msg, {k})
      /\ UNCHANGED <<asked, up, horizon, lines>>
  BY <1>1, <1>5 DEF Begins
<1>7. RecentOf(k) \subseteq Entry
  BY RecentAre, EntriesAre
<1>8. new \in Turn /\ new.key = k /\ new.prior = RecentOf(k)
  BY <1>5, <1>7 DEF Turn, Keys
<1>9. /\ turn' \in [1..MaxTurns -> Turn] /\ turn'[t] = new
      /\ \A u \in 1..MaxTurns : u # t => turn'[u] = turn[u]
  BY <1>3, <1>6, <1>8 DEF Inv, Typed
<1>10. keys' = keys \cup {k} /\ {k} \in SUBSET Keys
  BY <1>6 DEF Appends
<1>11. Shown(t)'
  <2>1. PICK recent : recent = RecentOf(k) /\ recent = turn'[t].prior
    BY <1>8, <1>9
  <2>2. ASSUME NEW card \in recent, card.kind = "proposal", Decision(card.ref)'
        PROVE  Follows(card, turn[t].prior)'
    <3>1. Decision(card.ref)
      BY <1>6, <2>2 DEF Decision
    <3>2. Follows(card, recent)
      BY <2>1, <2>2, <3>1, OutcomeFollows
    <3>3. QED BY <1>6, <2>1, <3>2 DEF Follows
  <2>3. QED BY <2>1, <2>2 DEF Shown
<1>12. \A u \in 1..MaxTurns : Working(u)' =>
         \/ Working(u) /\ turn'[u] = turn[u]
         \/ /\ turns < u /\ u <= turns' /\ turn'[u].key \in keys'
            /\ Cardinality(turn'[u].prior) <= RecentTurns /\ Shown(u)'
  <2>1. Cardinality(RecentOf(k)) <= RecentTurns
    BY RecentAre
  <2>2. /\ turns < t /\ t <= turns' /\ turn'[t].key \in keys'
        /\ Cardinality(turn'[t].prior) <= RecentTurns
    BY <1>1, <1>2, <1>6, <1>8, <1>9, <1>10, <2>1
  <2>3. QED BY <1>9, <1>11, <2>2 DEF Working
<1>13. (\A p \in Proposals : asked[p].replied =>
          asked[p].by = 0 \/ (asked[p].by \in 1..turns /\ ~Working(asked[p].by)))'
  <2> SUFFICES ASSUME NEW p \in Proposals, asked[p].replied, asked[p].by # 0
               PROVE  asked[p].by \in 1..turns' /\ ~Working(asked[p].by)'
    BY <1>6
  <2>1. PICK by : by = asked[p].by /\ by \in 1..turns /\ ~Working(by)
    BY DEF Inv, Answering
  <2>2. by # t /\ by \in 1..turns' /\ by \in 1..MaxTurns
    BY <1>1, <1>2, <1>6, <2>1
  <2>3. ~Working(by)'
    BY <1>9, <2>1, <2>2 DEF Working
  <2>4. QED BY <1>6, <2>1, <2>2, <2>3 DEF Working
<1>14. QED
  <2>1. turns' \in 0..MaxTurns /\ turns <= turns' /\ msg.ref \in turns + 1..turns'
    BY <1>1, <1>2, <1>3, <1>4, <1>6
  <2>2. current' \in keys' \cup {None}
    BY <1>10 DEF Inv, Typed
  <2>3. lines' \in Nat /\ asked' \in [Proposals -> Question]
    BY <1>6 DEF Inv, Typed
  <2>4. \A p \in Proposals : Decision(p)' => asked'[p] = asked[p]
    BY <1>6
  <2>5. ~IsReply(msg) /\ msg.kind # "proposal"
    BY <1>4 DEF IsReply
  <2>6. QED BY <1>4, <1>6, <1>9, <1>10, <1>12, <1>13, <2>1, <2>2, <2>3, <2>4, <2>5, Speaking

LEMMA ChatsStep == ASSUME Inv, Chats \/ PhoneTurn PROVE Inv'
<1>1. CASE Chats
  <2>1. PICK k \in Open : Begins(k, FALSE) /\ current' = k
    BY <1>1 DEF Chats
  <2>2. QED BY <2>1, OpenIs, BeginsStep
<1>2. CASE PhoneTurn
  BY <1>2, ConstantsAre, BeginsStep DEF PhoneTurn
<1>3. QED BY <1>1, <1>2

\* The reply goes where the question is, which is still there.
LEMMA RepliesStep ==
  ASSUME Inv, NEW t \in 1..MaxTurns, Replies(t)
  PROVE  Inv'
<1>1. PICK key, msg : key = turn[t].key /\ msg = Msg("keeper", "reply", t)
  OBVIOUS
<1>2. Working(t) /\ up /\ t \in Nat /\ key \in keys /\ key \in Keys /\ t <= turns
  BY <1>1 DEF Replies, Inv, Typed, Turning
<1>3. /\ msg \in Message /\ msg.ts = clock + 1 /\ msg.who = "keeper" /\ msg.kind = "reply"
      /\ msg.ref = t
  BY <1>1, <1>2, MsgIs
<1>4. {ReplyKey(t)} \ {None} = {key}
  BY <1>1, <1>2, ConstantsAre DEF ReplyKey
<1>5. /\ turn' = [turn EXCEPT ![t] = Over] /\ Appends({key}, msg) /\ Noted(msg, {key})
      /\ UNCHANGED <<current, up, horizon, turns, lines>>
  BY <1>1, <1>4 DEF Replies
<1>6. Over \in Turn /\ Over.at = "over"
  BY DEF Over, NoTurn, None, Turn
<1>7. /\ turn' \in [1..MaxTurns -> Turn] /\ ~Working(t)'
      /\ \A u \in 1..MaxTurns : u # t => turn'[u] = turn[u]
  BY <1>5, <1>6 DEF Inv, Typed, Working
<1>8. ASSUME NEW p \in Proposals
      PROVE  /\ asked'[p] \in Question
             /\ asked'[p] = asked[p]
                \/ (asked'[p].at = "waiting" /\ asked'[p].by = t)
  <2>1. PICK q : q = asked[p] /\ q \in Question
    BY DEF Inv, Typed
  <2>2. CASE q.by = t /\ q.at = "waiting"
    <3>1. asked'[p] = [q EXCEPT !.replied = TRUE]
      BY <2>1, <2>2 DEF Replies
    <3>2. QED BY <2>1, <2>2, <3>1 DEF Question
  <2>3. CASE ~(q.by = t /\ q.at = "waiting")
    <3>1. asked'[p] = asked[p]
      BY <2>1, <2>3 DEF Replies
    <3>2. QED BY <2>1, <3>1
  <2>4. QED BY <2>2, <2>3
<1>9. asked' \in [Proposals -> Question]
  <2>1. asked' = [p \in Proposals |-> asked'[p]]
    BY DEF Replies
  <2>2. QED BY <1>8, <2>1
<1>10. \A p \in Proposals : Decision(p)' => asked'[p] = asked[p]
  BY <1>8 DEF Decision
<1>11. (\A p \in Proposals : asked[p].replied =>
          asked[p].by = 0 \/ (asked[p].by \in 1..turns /\ ~Working(asked[p].by)))'
  <2> SUFFICES ASSUME NEW p \in Proposals, asked'[p].replied, asked'[p].by # 0
               PROVE  asked'[p].by \in 1..turns' /\ (~Working(asked[p].by))'
    OBVIOUS
  <2>1. CASE asked'[p].by = t
    BY <1>2, <1>5, <1>7, <2>1 DEF Working, Inv, Typed
  <2>2. CASE asked'[p].by # t
    <3>1. asked'[p] = asked[p]
      BY <1>8, <2>2
    <3>2. PICK by : by = asked[p].by /\ by \in 1..turns /\ ~Working(by)
      BY <3>1 DEF Inv, Answering
    <3>3. by # t /\ by \in 1..MaxTurns
      BY <2>2, <3>1, <3>2, ConstantsAre DEF Inv, Typed
    <3>4. ~Working(by)'
      BY <1>7, <3>2, <3>3 DEF Working
    <3>5. QED BY <1>5, <3>1, <3>2, <3>4 DEF Working
  <2>3. QED BY <2>1, <2>2
<1>12. \A u \in 1..MaxTurns : Working(u)' => Working(u) /\ turn'[u] = turn[u]
  BY <1>7 DEF Working
<1>13. turns' \in 0..MaxTurns /\ turns <= turns' /\ lines' \in Nat /\ current' \in keys' \cup {None}
  BY <1>2, <1>5 DEF Inv, Typed, Appends
<1>14. msg.who # "user" /\ msg.kind # "proposal"
  BY <1>3
<1>15. IsReply(msg) => msg.ref \in 1..MaxTurns /\ Working(msg.ref) /\ ~Working(msg.ref)'
  BY <1>2, <1>3, <1>7
<1>16. {key} \in SUBSET Keys
  BY <1>2
<1>17. UNCHANGED <<up, horizon>>
  BY <1>5
<1>18. QED BY <1>2, <1>3, <1>5, <1>7, <1>9, <1>10, <1>11, <1>12, <1>13, <1>14, <1>15, <1>16,
              <1>17, Speaking

\* What the Keeper says unbidden, or asks.
LEMMA DeliversStep ==
  ASSUME Inv, NEW kind \in {"proactive", "proposal"}, NEW ref \in Nat, Delivers(kind, ref),
         kind = "proposal" => ref \in Proposals /\ ~Decision(ref)',
         UNCHANGED <<turn, up, horizon, turns>>, lines' \in Nat,
         asked' \in [Proposals -> Question],
         \A p \in Proposals : Decision(p)' => asked'[p] = asked[p],
         (\A p \in Proposals : asked[p].replied =>
            asked[p].by = 0 \/ (asked[p].by \in 1..turns /\ ~Working(asked[p].by)))'
  PROVE  Inv'
<1>1. PICK k \in Open : LET msg == Msg("keeper", kind, ref) IN
        /\ up /\ current' = k
        /\ Appends(HeardAt(kind, k), msg)
        /\ Noted(msg, {k} \cup IF kind \in PhoneHears THEN {PhoneKey} ELSE {})
  BY DEF Delivers
<1>2. PICK msg, ks : msg = Msg("keeper", kind, ref) /\ ks = HeardAt(kind, k)
  OBVIOUS
<1>3. up /\ current' = k /\ Appends(ks, msg) /\ Noted(msg, ks)
  BY <1>1, <1>2 DEF HeardAt
<1>4. ks \in SUBSET Keys /\ k \in ks
  BY <1>2, OpenIs, ConstantsAre DEF HeardAt
<1>5. /\ msg \in Message /\ msg.ts = clock + 1 /\ msg.who = "keeper" /\ msg.kind = kind
      /\ msg.ref = ref
  BY <1>2, MsgIs
<1>6. current' \in keys' \cup {None}
  BY <1>3, <1>4 DEF Appends
<1>7. \A u \in 1..MaxTurns : Working(u)' => Working(u) /\ turn'[u] = turn[u]
  BY DEF Working
<1>8. /\ turn' \in [1..MaxTurns -> Turn] /\ turns' \in 0..MaxTurns /\ turns <= turns'
      /\ ~IsReply(msg) /\ msg.who # "user"
  BY <1>5, ConstantsAre DEF Inv, Typed, IsReply
<1>9. msg.kind = "proposal" => ~Decision(msg.ref)'
  BY <1>5
<1>10. QED BY <1>3, <1>4, <1>5, <1>6, <1>7, <1>8, <1>9, Speaking

LEMMA SpeaksStep == ASSUME Inv, Speaks PROVE Inv'
<1>1. /\ Delivers("proactive", lines') /\ lines' = lines + 1
      /\ UNCHANGED <<turn, asked, up, horizon, turns>>
  BY DEF Speaks
<1>2. lines' \in Nat
  BY <1>1 DEF Inv, Typed
<1>3. (\A p \in Proposals : asked[p].replied =>
         asked[p].by = 0 \/ (asked[p].by \in 1..turns /\ ~Working(asked[p].by)))'
  BY <1>1 DEF Inv, Answering, Working
<1>4. asked' \in [Proposals -> Question] /\ \A p \in Proposals : asked'[p] = asked[p]
  BY <1>1 DEF Inv, Typed
<1>5. QED BY <1>1, <1>2, <1>3, <1>4, DeliversStep

LEMMA AsksStep == ASSUME Inv, NEW p \in Proposals, Asks(p) PROVE Inv'
<1>1. PICK t \in {0} \cup {s \in 1..MaxTurns : Working(s)} :
        asked' = [asked EXCEPT ![p] = [Unasked EXCEPT !.at = "waiting", !.by = t,
                                                      !.replied = t = 0]]
  BY DEF Asks
<1>2. PICK new : new = [Unasked EXCEPT !.at = "waiting", !.by = t, !.replied = t = 0]
  OBVIOUS
<1>3. PICK b \in BOOLEAN : b = (t = 0)
  OBVIOUS
<1>4. new = [Unasked EXCEPT !.at = "waiting", !.by = t, !.replied = b]
  BY <1>2, <1>3
<1>5. /\ new \in Question /\ new.at = "waiting" /\ new.by = t /\ new.replied = b
  <2>1. t \in Nat
    OBVIOUS
  <2>2. new = [at |-> "waiting", by |-> t, replied |-> b, when |-> 0]
    BY <1>4 DEF Unasked
  <2>3. QED BY <2>1, <2>2 DEF Question
<1>6. /\ asked' \in [Proposals -> Question] /\ asked'[p] = new
      /\ \A q \in Proposals : q # p => asked'[q] = asked[q]
  BY <1>1, <1>2, <1>5 DEF Inv, Typed
<1>7. Delivers("proposal", p) /\ UNCHANGED <<turn, up, horizon, turns, lines>>
  BY DEF Asks
<1>8. \A q \in Proposals : Decision(q)' => asked'[q] = asked[q]
  BY <1>5, <1>6 DEF Decision
<1>9. ~Decision(p)'
  BY <1>5, <1>6 DEF Decision
<1>10. (\A q \in Proposals : asked[q].replied =>
          asked[q].by = 0 \/ (asked[q].by \in 1..turns /\ ~Working(asked[q].by)))'
  <2> SUFFICES ASSUME NEW q \in Proposals, asked'[q].replied
               PROVE  \/ asked'[q].by = 0
                      \/ asked'[q].by \in 1..turns' /\ (~Working(asked[q].by))'
    OBVIOUS
  <2>1. CASE q = p
    BY <1>3, <1>5, <1>6, <2>1
  <2>2. CASE q # p
    BY <1>6, <1>7, <2>2 DEF Inv, Answering, Working
  <2>3. QED BY <2>1, <2>2
<1>11. lines' \in Nat /\ p \in Nat
  BY <1>7, ConstantsAre DEF Inv, Typed
<1>12. QED BY <1>6, <1>7, <1>8, <1>9, <1>10, <1>11, DeliversStep

\* A decision comes after everything that was said.
LEMMA DecidedStep == ASSUME Inv, NEW p \in Proposals, Decided(p) PROVE Inv'
<1>1. PICK old, new : /\ old = asked[p] /\ old.at = "waiting"
                      /\ new = [old EXCEPT !.at = "decided", !.when = clock + 1]
  BY DEF Decided
<1>2. /\ clock' = clock + 1 /\ clock \in Nat
      /\ UNCHANGED <<thread, keys, current, turn, up, horizon, turns, lines, said>>
  BY DEF Decided, Inv, Typed
<1>3. old \in Question
  <2>1. asked \in [Proposals -> Question]
    BY DEF Inv, Typed
  <2>2. asked[p] \in Question
    BY <2>1
  <2>3. QED BY <1>1, <2>2
<1>4. new \in Question /\ new.when = clock + 1 /\ new.by = old.by /\ new.replied = old.replied
  <2>1. PICK now \in Nat : now = clock + 1
    BY <1>2
  <2>2. PICK q \in Question : q = old
    BY <1>3
  <2>3. new = [q EXCEPT !.at = "decided", !.when = now]
    BY <1>1, <2>1, <2>2
  <2>4. new \in Question /\ new.when = now /\ new.by = q.by /\ new.replied = q.replied
    BY <2>3 DEF Question
  <2>5. QED BY <2>1, <2>2, <2>4
<1>5. /\ asked' \in [Proposals -> Question] /\ asked'[p] = new
      /\ \A q \in Proposals : q # p => asked'[q] = asked[q]
  <2>1. asked' = [asked EXCEPT ![p].at = "decided", ![p].when = clock + 1]
    BY DEF Decided
  <2>2. asked' = [asked EXCEPT ![p] = new]
    BY <1>1, <2>1 DEF Inv, Typed
  <2>3. QED BY <1>4, <2>2 DEF Inv, Typed
<1>6. Typed'
  BY <1>2, <1>5 DEF Inv, Typed
<1>7. Stored'
  BY <1>2 DEF Inv, Stored, Kept, KeptWhereSaid
<1>8. \A e \in said : e.msg.ts \in 1..clock
  BY DEF Inv, Ticking
<1>9. \A q \in Proposals : q # p /\ Decision(q)' => Decision(q) /\ asked[q].when \in 1..clock
  BY <1>5 DEF Inv, Ticking, Decision
<1>10. Ticking'
  <2>1. \A e \in said' : e.msg.ts \in 1..clock'
    BY <1>2, <1>8
  <2>2. \A q \in Proposals : Decision(q)' => asked'[q].when \in 1..clock'
    BY <1>2, <1>4, <1>5, <1>9
  <2>3. \A q \in Proposals, e \in said' : Decision(q)' => asked'[q].when # e.msg.ts
    BY <1>2, <1>4, <1>5, <1>8, <1>9 DEF Inv, Ticking
  <2>4. ASSUME NEW q \in Proposals, NEW r \in Proposals,
               Decision(q)', Decision(r)', asked'[q].when = asked'[r].when
        PROVE  q = r
    BY <1>2, <1>4, <1>5, <1>9, <2>4 DEF Inv, Ticking
  <2>5. QED BY <1>2, <2>1, <2>2, <2>3, <2>4 DEF Inv, Ticking
<1>11. Turning'
  BY <1>2 DEF Inv, Turning, Working
<1>12. Answering'
  <2>1. \A q \in Proposals : asked'[q].by = asked[q].by /\ asked'[q].replied = asked[q].replied
    BY <1>1, <1>4, <1>5
  <2>2. ASSUME NEW q \in Proposals, NEW e \in said', Decision(q)'
        PROVE  /\ asked'[q].replied /\ IsReply(e.msg) /\ e.msg.ref = asked'[q].by
                    => e.msg.ts < asked'[q].when
               /\ e.msg.kind = "proposal" /\ e.msg.ref = q => e.msg.ts < asked'[q].when
    <3>1. CASE q = p
      <4>1. e.msg.ts < clock + 1
        BY <1>2, <1>8
      <4>2. QED BY <1>4, <1>5, <3>1, <4>1
    <3>2. CASE q # p
      BY <1>2, <1>5, <1>9, <2>2, <3>2 DEF Inv, Answering
    <3>3. QED BY <3>1, <3>2
  <2>3. (\A e \in said : IsReply(e.msg) => e.msg.ref \in 1..turns /\ ~Working(e.msg.ref))'
    BY <1>2 DEF Inv, Answering, Working
  <2>4. (\A q \in Proposals : asked[q].replied =>
           asked[q].by = 0 \/ (asked[q].by \in 1..turns /\ ~Working(asked[q].by)))'
    BY <1>2, <2>1 DEF Inv, Answering, Working
  <2>5. QED BY <2>2, <2>3, <2>4 DEF Answering
<1>13. \A t \in 1..MaxTurns : Shown(t)'
  <2>1. \A q \in Proposals :
          asked'[q] = asked[q] \/ asked'[q].at # "decided" \/ asked'[q].when > clock
    BY <1>2, <1>4, <1>5
  <2>2. \A t \in 1..MaxTurns : Working(t)' => Working(t) /\ turn'[t].prior = turn[t].prior
    BY <1>2 DEF Working
  <2>3. QED BY <1>2, <1>5, <2>1, <2>2, StaysShown
<1>14. OutcomeIsLast'
  <2>1. (\A t \in 1..MaxTurns : Shown(t))'
    BY <1>13
  <2>2. QED BY <2>1, AllShown, PTL
<1>15. QED BY <1>6, <1>7, <1>10, <1>11, <1>12, <1>14 DEF Inv

\* Nothing is said, nothing decided.
LEMMA Quietly ==
  ASSUME Inv, UNCHANGED <<thread, keys, turn, asked, clock, turns, lines, said>>,
         horizon' \in 0..clock, current' \in keys \cup {None}, up' \in BOOLEAN,
         up' \/ (current' = None /\ \A t \in 1..MaxTurns : ~Working(t))
  PROVE  Inv'
<1>1. Typed'
  BY DEF Inv, Typed
<1>2. Stored'
  BY DEF Inv, Stored, Kept, KeptWhereSaid
<1>3. Ticking'
  BY DEF Inv, Ticking, Decision
<1>4. Turning'
  BY DEF Inv, Turning, Working
<1>5. Answering'
  BY DEF Inv, Answering, Working, Decision
<1>6. OutcomeIsLast'
  BY DEF Inv, OutcomeIsLast, Working
<1>7. QED BY <1>1, <1>2, <1>3, <1>4, <1>5, <1>6 DEF Inv

LEMMA SelectsStep ==
  ASSUME Inv, BeginsAgain \/ Lapses \/ \E k \in Keys : Selects(k)
  PROVE  Inv'
<1>1. /\ UNCHANGED <<thread, keys, turn, asked, clock, turns, lines, said, up>>
      /\ horizon' \in 0..clock /\ current' \in keys \cup {None}
      /\ current' = current \/ up
  <2>1. CASE BeginsAgain
    BY <2>1 DEF BeginsAgain, Inv, Typed
  <2>2. CASE Lapses
    BY <2>2 DEF Lapses, Inv, Typed
  <2>3. ASSUME NEW k \in Keys, Selects(k)
        PROVE  /\ UNCHANGED <<thread, keys, turn, asked, clock, turns, lines, said, up>>
               /\ horizon' \in 0..clock /\ current' \in keys \cup {None}
               /\ current' = current \/ up
    BY <2>3 DEF Selects, Inv, Typed
  <2>4. QED BY <2>1, <2>2, <2>3
<1>2. QED BY <1>1, Quietly DEF Inv, Typed, Turning

\* most_recent_key finds one, when there is one.
LEMMA StartsStep == ASSUME Inv, Starts PROVE Inv'
<1>1. /\ up' = TRUE /\ UNCHANGED <<thread, keys, turn, asked, clock, horizon, turns, lines, said>>
      /\ current' = IF Resumes = {} THEN None
                    ELSE CHOOSE k \in Resumes : \A j \in Resumes : Latest(j) <= Latest(k)
  BY DEF Starts
<1>2. CASE Resumes = {}
  BY <1>1, <1>2, Quietly DEF Inv, Typed
<1>3. CASE Resumes # {}
  <2>1. clock \in Nat /\ Resumes \subseteq keys /\ keys \subseteq Keys
    BY DEF Resumes, Inv, Typed
  <2>2. ASSUME NEW k \in Resumes
        PROVE  Latest(k) \in 1..clock
    <3>1. PICK s : s = thread[k] /\ s \in Seq(Message) /\ s # <<>>
      BY <2>1 DEF Inv, Typed, Stored
    <3>2. Len(s) \in DOMAIN s
      BY <3>1
    <3>3. s[Len(s)] \in Kept(k)
      BY <3>1, <3>2 DEF Kept
    <3>4. PICK e \in said : e.msg = s[Len(s)]
      BY <2>1, <3>3 DEF Inv, Stored
    <3>5. QED BY <3>1, <3>4 DEF Latest, Inv, Ticking
  <2>3. PICK ages : ages = {clock - Latest(k) : k \in Resumes}
    OBVIOUS
  <2>4. ages \in SUBSET Nat /\ ages # {}
    BY <1>3, <2>1, <2>2, <2>3
  <2>5. PICK age \in ages : \A a \in ages : age <= a
    BY <2>4, LeastNatural
  <2>6. PICK k \in Resumes : age = clock - Latest(k)
    BY <2>3
  <2>7. \A j \in Resumes : Latest(j) <= Latest(k)
    <3> SUFFICES ASSUME NEW j \in Resumes PROVE Latest(j) <= Latest(k)
      OBVIOUS
    <3>1. clock - Latest(k) <= clock - Latest(j)
      BY <2>3, <2>5, <2>6
    <3>2. QED BY <2>1, <2>2, <3>1
  <2>8. current' \in Resumes
    BY <1>1, <1>3, <2>7
  <2>9. QED BY <1>1, <2>1, <2>8, Quietly DEF Inv, Typed
<1>4. QED BY <1>2, <1>3

\* A file cut off by death takes its conversation, and from what was said there the home.
LEMMA DiesStep == ASSUME Inv, Dies PROVE Inv'
<1>1. PICK half :
        /\ half \in {{}} \cup {{k} : k \in Written}
        /\ keys' = keys \ half
        /\ thread' = [k \in Keys |-> IF k \in half THEN <<>> ELSE thread[k]]
        /\ said' = {[e EXCEPT !.homes = @ \ half] : e \in said}
  BY DEF Dies
<1>2. /\ up' = FALSE /\ current' = None
      /\ turn' = [t \in 1..MaxTurns |-> IF Working(t) THEN Over ELSE turn[t]]
      /\ UNCHANGED <<asked, clock, horizon, turns, lines>>
  BY DEF Dies
<1>3. /\ said \subseteq [msg : Message, homes : SUBSET Keys]
      /\ thread \in [Keys -> Seq(Message)] /\ keys \subseteq Keys
      /\ turn \in [1..MaxTurns -> Turn]
  BY DEF Inv, Typed
<1>4. ASSUME NEW e \in said
      PROVE  LET f == [e EXCEPT !.homes = @ \ half] IN
             /\ f.msg = e.msg /\ f.homes = e.homes \ half
             /\ f \in [msg : Message, homes : SUBSET Keys]
  BY <1>3
<1>5. \A f \in said' : \E e \in said : /\ f.msg = e.msg /\ f.homes = e.homes \ half
                                      /\ f \in [msg : Message, homes : SUBSET Keys]
  BY <1>1, <1>4
<1>6. \A e \in said : \E f \in said' : f.msg = e.msg
  BY <1>1, <1>4
<1>7. Over \in Turn /\ Over.at = "over"
  BY DEF Over, NoTurn, None, Turn
<1>8. turn' \in [1..MaxTurns -> Turn] /\ \A t \in 1..MaxTurns : ~Working(t)'
  BY <1>2, <1>3, <1>7 DEF Working
<1>9. ASSUME NEW k \in Keys
      PROVE  /\ thread'[k] \in Seq(Message)
             /\ k \in half => thread'[k] = <<>> /\ Kept(k)' = {}
             /\ k \notin half => thread'[k] = thread[k] /\ Kept(k)' = Kept(k)
  BY <1>1, <1>3 DEF Kept
<1>10. Typed'
  <2>1. thread' \in [Keys -> Seq(Message)]
    BY <1>1, <1>9
  <2>2. said' \subseteq [msg : Message, homes : SUBSET Keys]
    BY <1>5
  <2>3. QED BY <1>1, <1>2, <1>8, <2>1, <2>2 DEF Inv, Typed
<1>11. Stored'
  <2>1. \A k \in Keys : thread'[k] = <<>> <=> k \notin keys'
    BY <1>1, <1>9 DEF Inv, Stored
  <2>2. (\A k \in Keys : \A m \in Kept(k) : \E e \in said : e.msg = m)'
    BY <1>6, <1>9 DEF Inv, Stored
  <2>3. \A k \in Keys : \A i, j \in DOMAIN thread'[k] :
          i < j => thread'[k][i].ts < thread'[k][j].ts
    BY <1>9 DEF Inv, Stored, KeptWhereSaid
  <2>4. \A f \in said' : \A k \in Keys : k \in f.homes <=> f.msg \in Kept(k)'
    BY <1>5, <1>9 DEF Inv, Stored, KeptWhereSaid
  <2>5. QED BY <2>1, <2>2, <2>3, <2>4 DEF Stored, KeptWhereSaid
<1>12. Ticking'
  BY <1>2, <1>5 DEF Inv, Ticking, Decision
<1>13. Turning'
  BY <1>2, <1>5, <1>8 DEF Inv, Turning
<1>14. Answering'
  <2>1. (\A e \in said : IsReply(e.msg) => e.msg.ref \in 1..turns /\ ~Working(e.msg.ref))'
    <3>1. \A t \in 1..turns : ~Working(t)'
      BY <1>8, ConstantsAre DEF Inv, Typed
    <3>2. QED BY <1>2, <1>5, <3>1 DEF Inv, Answering
  <2>2. (\A p \in Proposals : asked[p].replied =>
           asked[p].by = 0 \/ (asked[p].by \in 1..turns /\ ~Working(asked[p].by)))'
    <3> SUFFICES ASSUME NEW p \in Proposals, asked[p].replied, asked[p].by # 0
                 PROVE  asked[p].by \in 1..turns /\ (~Working(asked[p].by))'
      BY <1>2
    <3>1. PICK by : by = asked[p].by /\ by \in 1..turns
      BY DEF Inv, Answering
    <3>2. by \in 1..MaxTurns
      BY <3>1, ConstantsAre DEF Inv, Typed
    <3>3. ~Working(by)'
      BY <1>8, <3>2
    <3>4. QED BY <1>2, <3>1, <3>3 DEF Working
  <2>3. (\A p \in Proposals, e \in said : Decision(p) =>
           /\ asked[p].replied /\ IsReply(e.msg) /\ e.msg.ref = asked[p].by
                => e.msg.ts < asked[p].when
           /\ e.msg.kind = "proposal" /\ e.msg.ref = p => e.msg.ts < asked[p].when)'
    BY <1>2, <1>5 DEF Inv, Answering, Decision
  <2>4. QED BY <2>1, <2>2, <2>3 DEF Answering
<1>15. OutcomeIsLast'
  BY <1>8 DEF OutcomeIsLast
<1>16. QED BY <1>10, <1>11, <1>12, <1>13, <1>14, <1>15 DEF Inv

LEMMA NextInv == ASSUME Inv, [Next]_vars PROVE Inv'
<1>1. CASE UNCHANGED vars
  BY <1>1, Quietly DEF vars, Inv, Typed, Turning
<1>2. QED
  BY <1>1, ChatsStep, RepliesStep, SpeaksStep, AsksStep, DecidedStep, SelectsStep, DiesStep,
     StartsStep DEF Next

----------------------------------------------------------------------------
(* The theorems.                                                           *)

\* The inductive invariant holds in every behaviour of the conversations, the turns that
\* wait for models, the decisions beside them and the deaths in between.
THEOREM InvHolds == Spec => []Inv
<1>1. Init => Inv
  BY InitInv
<1>2. Inv /\ [Next]_vars => Inv'
  BY NextInv
<1>3. QED BY <1>1, <1>2, PTL DEF Spec

\* What is open is a conversation the store has, and a turn is shown no more of it than
\* RECENT_TURNS entries (server.py chat, _recent_turns, sessions.py append).
THEOREM TypeCorrect == Spec => []TypeOK
<1>1. QED BY InvHolds, InvImplies, PTL

\* What was said is kept where it was said, once and in order, and nowhere else
\* (server.py _converse, _deliver_proactive, _deliver_proposal, sessions.py append).
THEOREM KeepsWhereSaid == Spec => []KeptWhereSaid
<1>1. QED BY InvHolds, InvImplies, PTL

\* A turn that is shown a card decided by then is shown its outcome after it, and after
\* the reply that spoke of it as waiting (server.py _recent_turns, _outcome_of).
THEOREM OutcomeComesLast == Spec => []OutcomeIsLast
<1>1. QED BY InvHolds, InvImplies, PTL
=============================================================================
