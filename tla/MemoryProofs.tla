---------------------------- MODULE MemoryProofs ----------------------------
(***************************************************************************)
(* Proofs about Memory, for any threads, texts, sizes and deaths.          *)
(***************************************************************************)
EXTENDS Memory, TLAPS

----------------------------------------------------------------------------
(* Lists of facts.                                                         *)

ListUpTo(s, n) == DOMAIN s \subseteq 1..n /\ s \in [DOMAIN s -> Fact] /\ Replaced(s)
Lists == UNION {[held -> Fact] : held \in SUBSET Nat}

LEMMA ListIs == ASSUME NEW s, NEW n \in Nat, ListUpTo(s, n) PROVE s \in Lists
<1>1. DOMAIN s \in SUBSET Nat /\ s \in [DOMAIN s -> Fact]
  BY DEF ListUpTo
<1>2. QED BY <1>1 DEF Lists

LEMMA ListGrows ==
  ASSUME NEW s, NEW m \in Nat, NEW n \in Nat, m <= n, ListUpTo(s, m)
  PROVE  ListUpTo(s, n)
  BY DEF ListUpTo

LEMMA EmptyList == ASSUME NEW n \in Nat PROVE ListUpTo(<<>>, n) /\ DOMAIN <<>> = {}
  BY DEF ListUpTo, Replaced

\* Part of a list is a list.
LEMMA SomeIs ==
  ASSUME NEW s, NEW n \in Nat, NEW held, ListUpTo(s, n)
  PROVE  /\ ListUpTo(Some(s, held), n) /\ DOMAIN Some(s, held) = DOMAIN s \cap held
         /\ \A i \in DOMAIN s \cap held : Some(s, held)[i] = s[i]
<1>1. PICK t : t = [i \in DOMAIN s \cap held |-> s[i]]
  OBVIOUS
<1>2. DOMAIN t = DOMAIN s \cap held /\ \A i \in DOMAIN s \cap held : t[i] = s[i]
  BY <1>1
<1>3. DOMAIN t \subseteq 1..n /\ t \in [DOMAIN t -> Fact]
  BY <1>1, <1>2 DEF ListUpTo
<1>4. Replaced(t)
  BY <1>2 DEF ListUpTo, Replaced
<1>5. QED BY <1>1, <1>2, <1>3, <1>4 DEF ListUpTo, Some

\* What is marked on one fact of a list leaves it a list.
LEMMA Marking ==
  ASSUME NEW s, NEW n \in Nat, NEW id \in DOMAIN s, ListUpTo(s, n), NEW f \in Fact,
         f.replaces = s[id].replaces, f.live => s[id].live
  PROVE  LET t == [s EXCEPT ![id] = f] IN
         /\ ListUpTo(t, n) /\ DOMAIN t = DOMAIN s /\ t[id] = f
         /\ \A i \in DOMAIN s : t[i].replaces = s[i].replaces /\ (t[i].live => s[i].live)
<1>1. PICK t : t = [s EXCEPT ![id] = f]
  OBVIOUS
<1>2. s \in [DOMAIN s -> Fact] /\ DOMAIN s \subseteq 1..n
  BY DEF ListUpTo
<1>3. /\ t \in [DOMAIN s -> Fact] /\ DOMAIN t = DOMAIN s
      /\ t[id] = f /\ \A i \in DOMAIN s : i # id => t[i] = s[i]
  BY <1>1, <1>2
<1>4. \A i \in DOMAIN s : t[i].replaces = s[i].replaces /\ (t[i].live => s[i].live)
  BY <1>3
<1>5. Replaced(t)
  BY <1>3, <1>4 DEF ListUpTo, Replaced
<1>6. QED BY <1>1, <1>2, <1>3, <1>4, <1>5 DEF ListUpTo

----------------------------------------------------------------------------
(* The inductive invariant.                                                *)

Saves  == {"render", "open", "flush"}
Places == {"idle", "file", "judge", "put", "sum", "archive", "rebuild", "rebind"} \cup Saves
Thread == [at : Places, todo : Seq(Claims), vec : BOOLEAN, old : Nat, merging : BOOLEAN,
           text : Lists, then : {"none", "next", "merge", "again", "sum"},
           clusters : SUBSET (SUBSET Nat), drop : SUBSET Nat, keep : SUBSET Nat]

Typed ==
  /\ ids \in Nat /\ ListUpTo(facts, ids) /\ ListUpTo(file.lines, ids)
  /\ file.torn \in BOOLEAN
  /\ archive \subseteq 1..ids /\ {up, cut} \subseteq BOOLEAN

\* What a thread holds is of the store; what it is about to put replaces nothing current;
\* what it is about to drop is archived.
ThreadOK(r) ==
  /\ r.at \in {"judge", "put"} => r.todo # <<>>
  /\ r.old <= ids
  /\ r.at = "put" /\ r.old \in DOMAIN facts => ~facts[r.old].live
  /\ r.at \in Saves => r.then # "none" /\ (r.then = "next" => r.todo # <<>>)
  /\ r.at \in {"open", "flush"} => ListUpTo(r.text, ids)
  /\ \A c \in r.clusters : c \subseteq 1..ids
  /\ r.drop \subseteq 1..ids
  /\ r.at = "rebuild" => r.drop \subseteq archive
Threading ==
  /\ th \in [Threads -> Thread]
  /\ \A t \in Threads : ThreadOK(th[t])
  /\ ~up => shown = NotShown /\ \A t \in Threads : th[t].at = "idle"

ShownOK == shown.top \subseteq 1..ids /\ NeverBoth

\* Of a set of facts, each is in the archive or in each thing that may become the store:
\* the list, a list about to take its place, the file, a text about to be the file.
InHand(r, x) ==
  /\ r.at \in {"open", "flush"} => x \subseteq DOMAIN r.text \cup archive
  /\ r.at = "rebind" => x \subseteq r.keep \cup archive
Keeps(x) ==
  ~cut =>
    /\ up => x \subseteq DOMAIN facts \cup archive
    /\ \/ \E t \in Threads : th[t].at = "flush"
       \/ x \subseteq DOMAIN file.lines \cup archive
    /\ \A t \in Threads : InHand(th[t], x)

Inv == Typed /\ Threading /\ ShownOK /\ safe \subseteq 1..ids /\ Keeps(safe)

LEMMA InvImplies == Inv => TypeOK /\ NeverBoth /\ QuietIsKept
  BY DEF Inv, Typed, ListUpTo, TypeOK, IsList, ShownOK, Keeps, QuietIsKept

LEMMA IdleOK ==
  ASSUME ids \in Nat
  PROVE  Idle \in Thread /\ ThreadOK(Idle) /\ \A x : InHand(Idle, x)
<1>1. <<>> \in Lists
  BY EmptyList, ListIs
<1>2. <<>> \in Seq(Claims)
  OBVIOUS
<1>3. Idle \in Thread
  BY <1>1, <1>2 DEF Idle, Thread, Places
<1>4. ThreadOK(Idle) /\ \A x : InHand(Idle, x)
  BY DEF Idle, ThreadOK, InHand, Saves
<1>5. QED BY <1>3, <1>4

LEMMA InitInv == Init => Inv
<1> SUFFICES ASSUME Init PROVE Inv
  OBVIOUS
<1>1. facts \in Seq(Fact) /\ Replaced(facts) /\ ids = Len(facts)
  BY MemoryAssumption DEF Init
<1>2. ids \in Nat /\ DOMAIN facts = 1..ids /\ facts \in [DOMAIN facts -> Fact]
  BY <1>1
<1>3. file.lines = facts /\ file.torn = FALSE
  BY DEF Init
<1>4. Typed
  BY <1>1, <1>2, <1>3 DEF Init, Typed, ListUpTo
<1>5. Threading
  BY <1>2, IdleOK DEF Init, Threading
<1>6. ShownOK
  BY DEF Init, ShownOK, NotShown, NeverBoth
<1>7. Keeps(safe)
  BY <1>2, <1>3, IdleOK DEF Init, Keeps
<1>8. QED BY <1>2, <1>4, <1>5, <1>6, <1>7 DEF Init, Inv

----------------------------------------------------------------------------
(* The steps of a thread.                                                  *)

\* No fact comes back, or is current again; new ones have new ids.
Tame == \A i \in DOMAIN facts' :
  \/ i \in DOMAIN facts /\ facts'[i].replaces = facts[i].replaces
     /\ (facts'[i].live => facts[i].live)
  \/ i > ids

LEMMA ThreadMoves ==
  ASSUME Inv, up, UNCHANGED <<shown, up, cut>>, NEW t \in Threads, NEW r \in Thread,
         th' = [th EXCEPT ![t] = r], ThreadOK(r)',
         Typed', ids <= ids', archive \subseteq archive', Tame
  PROVE  Threading' /\ ShownOK'
<1>1. ids \in Nat /\ ids' \in Nat
  BY DEF Inv, Typed
<1>2. th' \in [Threads -> Thread] /\ th'[t] = r /\ \A u \in Threads \ {t} : th'[u] = th[u]
  BY DEF Inv, Threading
<1>3. ASSUME NEW q \in Thread, ThreadOK(q)
      PROVE  ThreadOK(q)'
  <2>1. q.old \in Nat /\ q.old <= ids'
    BY <1>1, <1>3 DEF ThreadOK, Thread
  <2>2. q.at = "put" /\ q.old \in DOMAIN facts' => ~facts'[q.old].live
    BY <1>1, <1>3, <2>1 DEF ThreadOK, Tame
  <2>3. q.at \in {"open", "flush"} => ListUpTo(q.text, ids')
    BY <1>1, <1>3, ListGrows DEF ThreadOK
  <2>4. 1..ids \subseteq 1..ids'
    BY <1>1
  <2>5. (\A c \in q.clusters : c \subseteq 1..ids') /\ q.drop \subseteq 1..ids'
    BY <1>3, <2>4 DEF ThreadOK
  <2>6. q.at = "rebuild" => q.drop \subseteq archive'
    BY <1>3 DEF ThreadOK
  <2>7. /\ q.at \in {"judge", "put"} => q.todo # <<>>
        /\ q.at \in Saves => q.then # "none" /\ (q.then = "next" => q.todo # <<>>)
    BY <1>3 DEF ThreadOK
  <2>8. QED BY <2>1, <2>2, <2>3, <2>5, <2>6, <2>7 DEF ThreadOK
<1>4. (\A u \in Threads : ThreadOK(th[u]))'
  <2> SUFFICES ASSUME NEW u \in Threads PROVE ThreadOK(th[u])'
    OBVIOUS
  <2>1. PICK q \in Thread : q = th'[u] /\ ThreadOK(q)'
    <3>1. CASE u = t
      BY <1>2, <3>1
    <3>2. CASE u # t
      <4>1. th[u] \in Thread /\ ThreadOK(th[u])
        BY DEF Inv, Threading
      <4>2. PICK q \in Thread : q = th[u]
        BY <4>1
      <4>3. ThreadOK(q)
        BY <4>1, <4>2
      <4>4. QED BY <1>2, <1>3, <3>2, <4>2, <4>3
    <3>3. QED BY <3>1, <3>2
  <2>2. QED BY <2>1 DEF ThreadOK
<1>5. Threading'
  BY <1>2, <1>4 DEF Threading
<1>6. shown.top \subseteq 1..ids /\ 1..ids \subseteq 1..ids'
  BY <1>1 DEF Inv, ShownOK
<1>7. NeverBoth'
  BY <1>1, <1>6 DEF Tame, Inv, ShownOK, NeverBoth
<1>8. QED BY <1>5, <1>6, <1>7 DEF ShownOK

LEMMA ThreadKeeps ==
  ASSUME Inv, up, UNCHANGED <<up, cut>>, NEW t \in Threads, NEW r \in Thread,
         th' = [th EXCEPT ![t] = r], archive \subseteq archive', NEW x, Keeps(x),
         ~cut => x \subseteq DOMAIN facts' \cup archive',
         ~cut => \/ r.at = "flush" \/ (UNCHANGED file /\ th[t].at # "flush")
                 \/ x \subseteq DOMAIN file'.lines \cup archive',
         ~cut => InHand(r, x)'
  PROVE  Keeps(x)'
<1>1. th'[t] = r /\ \A u \in Threads \ {t} : th'[u] = th[u]
  BY DEF Inv, Threading
<1> SUFFICES ASSUME ~cut PROVE Keeps(x)'
  BY DEF Keeps
<1>2. (\A u \in Threads : InHand(th[u], x))'
  <2> SUFFICES ASSUME NEW u \in Threads PROVE InHand(th[u], x)'
    OBVIOUS
  <2>1. CASE u = t
    BY <1>1, <2>1 DEF InHand
  <2>2. CASE u # t
    <3>1. th'[u] = th[u] /\ InHand(th[u], x)
      BY <1>1, <2>2 DEF Keeps
    <3>2. QED BY <3>1 DEF InHand
  <2>3. QED BY <2>1, <2>2
<1>3. (\E u \in Threads : th'[u].at = "flush") \/ x \subseteq DOMAIN file'.lines \cup archive'
  <2>1. CASE r.at = "flush" \/ x \subseteq DOMAIN file'.lines \cup archive'
    BY <1>1, <2>1
  <2>2. CASE UNCHANGED file /\ th[t].at # "flush"
    <3>1. (\E u \in Threads : th[u].at = "flush") \/ x \subseteq DOMAIN file.lines \cup archive
      BY DEF Keeps
    <3>2. QED BY <1>1, <2>2, <3>1
  <2>3. QED BY <2>1, <2>2
<1>4. QED BY <1>2, <1>3 DEF Keeps

Carries == Typed' /\ Threading' /\ ShownOK' /\ \A x : Keeps(x) => Keeps(x)'

\* The store stays as it is.
LEMMA Local ==
  ASSUME Inv, up, NEW t \in Threads, NEW r \in Thread, Goes(t, r), th[t].at # "flush",
         UNCHANGED <<facts, file, archive, ids>>, ThreadOK(r),
         \A x : Keeps(x) /\ ~cut => InHand(r, x)
  PROVE  Carries
<1>1. UNCHANGED <<shown, up, cut>> /\ th' = [th EXCEPT ![t] = r]
  BY DEF Goes
<1>2. Typed'
  BY <1>1 DEF Inv, Typed
<1>3. ids <= ids' /\ archive \subseteq archive' /\ Tame
  BY DEF Inv, Typed, Tame
<1>4. ThreadOK(r)'
  BY DEF ThreadOK
<1>5. Threading' /\ ShownOK'
  BY <1>1, <1>2, <1>3, <1>4, ThreadMoves
<1>6. ASSUME NEW x, Keeps(x)
      PROVE  Keeps(x)'
  <2>1. ~cut => InHand(r, x)'
    BY <1>6 DEF InHand
  <2>2. ~cut => x \subseteq DOMAIN facts' \cup archive'
    BY <1>6 DEF Keeps
  <2>3. QED BY <1>1, <1>6, <2>1, <2>2, ThreadKeeps
<1>7. QED BY <1>2, <1>5, <1>6 DEF Carries

\* The list changes, and keeps every fact.
LEMMA Growing ==
  ASSUME Inv, up, NEW t \in Threads, NEW r \in Thread, Goes(t, r),
         th[t].at # "flush", r.at \notin {"open", "flush", "rebind"},
         UNCHANGED <<file, archive>>, ids' \in Nat, ids <= ids', ListUpTo(facts', ids'),
         DOMAIN facts \subseteq DOMAIN facts', Tame, ThreadOK(r)'
  PROVE  Carries
<1>1. UNCHANGED <<shown, up, cut>> /\ th' = [th EXCEPT ![t] = r]
  BY DEF Goes
<1>2. Typed'
  <2>1. ListUpTo(file.lines, ids') /\ 1..ids \subseteq 1..ids'
    BY ListGrows DEF Inv, Typed
  <2>2. QED BY <1>1, <2>1 DEF Inv, Typed
<1>3. Threading' /\ ShownOK'
  BY <1>1, <1>2, ThreadMoves
<1>4. ASSUME NEW x, Keeps(x)
      PROVE  Keeps(x)'
  <2>1. InHand(r, x)'
    BY DEF InHand
  <2>2. ~cut => x \subseteq DOMAIN facts' \cup archive'
    BY <1>4 DEF Keeps
  <2>3. QED BY <1>1, <1>4, <2>1, <2>2, ThreadKeeps
<1>5. QED BY <1>2, <1>3, <1>4 DEF Carries

LEMMA AThread ==
  ASSUME Inv, NEW t \in Threads
  PROVE  th[t] \in Thread /\ ThreadOK(th[t]) /\ ids \in Nat
  BY DEF Inv, Threading, Typed

LEMMA BeginsStep ==
  ASSUME Inv, NEW t \in Threads, NEW claims \in Seq(Claims), Begins(t, claims)
  PROVE  Carries
<1>1. PICK r : r = [Idle EXCEPT !.at = "file", !.todo = claims]
  OBVIOUS
<1>2. Idle \in Thread /\ ThreadOK(Idle)
  BY IdleOK DEF Inv, Typed
<1>3. r \in Thread /\ r.at = "file" /\ r.old = 0 /\ r.clusters = {} /\ r.drop = {}
  BY <1>1, <1>2 DEF Thread, Places, Idle
<1>4. ThreadOK(r) /\ \A x : InHand(r, x)
  BY <1>3 DEF ThreadOK, InHand, Saves, Inv, Typed
<1>5. QED BY <1>1, <1>3, <1>4, Local DEF Begins

LEMMA DistilsStep ==
  ASSUME Inv, NEW t \in Threads, Distils(t)
  PROVE  Carries
<1>1. PICK n \in 0..MaxClaims :
        \E claims \in [1..n -> {c \in Claims : c.kind = "word"}] : Begins(t, claims)
  BY DEF Distils
<1>2. n \in Nat
  BY MemoryAssumption
<1>3. PICK claims \in [1..n -> {c \in Claims : c.kind = "word"}] : Begins(t, claims)
  BY <1>1
<1>4. claims \in Seq(Claims)
  BY <1>2
<1>5. QED BY <1>3, <1>4, BeginsStep

LEMMA ReflectsStep ==
  ASSUME Inv, NEW t \in Threads, Reflects(t)
  PROVE  Carries
<1>1. PICK c \in Claims : Begins(t, <<c>>)
  BY DEF Reflects
<1>2. <<c>> \in Seq(Claims)
  OBVIOUS
<1>3. QED BY <1>1, <1>2, BeginsStep

\* A save begins, to be followed by something.
LEMMA SavingIs ==
  ASSUME NEW q \in Thread, ThreadOK(q), NEW next \in {"next", "merge", "again", "sum"},
         next = "next" => q.todo # <<>>
  PROVE  LET r == Saving(q, next) IN
         /\ r \in Thread /\ r.at = "render" /\ r.then = next /\ ThreadOK(r)
         /\ r.old = q.old /\ r.clusters = q.clusters /\ r.drop = q.drop /\ r.todo = q.todo
<1>1. PICK r : r = Saving(q, next)
  OBVIOUS
<1>2. r \in Thread /\ r.at = "render" /\ r.then = next
      /\ r.old = q.old /\ r.clusters = q.clusters /\ r.drop = q.drop /\ r.todo = q.todo
  BY <1>1 DEF Saving, Thread, Places, Saves
<1>3. ThreadOK(r)
  BY <1>2 DEF ThreadOK, Saves
<1>4. QED BY <1>1, <1>2, <1>3

LEMMA SeenAgainStep ==
  ASSUME Inv, up, NEW t \in Threads, th[t].at = "file", th[t].todo # <<>>,
         NEW vec \in BOOLEAN, NEW i \in DOMAIN facts, SeenAgain(t, i, vec),
         UNCHANGED <<file, archive, ids>>
  PROVE  Carries
<1>1. PICK q, r, next : /\ q = th[t] /\ r = Saving(q, next) /\ next = AfterAdd(t)
                        /\ q \in Thread /\ ThreadOK(q) /\ Goes(t, r)
  BY AThread DEF SeenAgain
<1>2. next \in {"again", "next"}
  BY <1>1 DEF AfterAdd
<1>3. /\ r \in Thread /\ r.at = "render" /\ r.then = next /\ r.old = q.old
      /\ r.clusters = q.clusters /\ r.drop = q.drop /\ r.todo = q.todo /\ ThreadOK(r)
  BY <1>1, <1>2, SavingIs
<1>4. PICK f : f = [facts[i] EXCEPT !.vec = @ \/ vec]
  OBVIOUS
<1>5. facts[i] \in Fact
  BY DEF Inv, Typed, ListUpTo
<1>6. PICK b \in BOOLEAN : b = (facts[i].vec \/ vec)
  OBVIOUS
<1>7. f = [facts[i] EXCEPT !.vec = b]
  BY <1>4, <1>6
<1>8. f \in Fact /\ f.replaces = facts[i].replaces /\ f.live = facts[i].live
  BY <1>5, <1>7 DEF Fact
<1>9. facts' = [facts EXCEPT ![i] = f]
  BY <1>4 DEF SeenAgain, Inv, Typed, ListUpTo
<1>10. /\ ListUpTo(facts', ids) /\ DOMAIN facts' = DOMAIN facts
       /\ \A j \in DOMAIN facts : facts'[j].replaces = facts[j].replaces
                                /\ (facts'[j].live => facts[j].live)
  BY <1>8, <1>9, Marking DEF Inv, Typed
<1>11. Tame
  BY <1>10 DEF Tame
<1>12. ThreadOK(r)'
  BY <1>3 DEF ThreadOK
<1>13. ids \in Nat
  BY DEF Inv, Typed
<1>14. QED BY <1>1, <1>3, <1>10, <1>11, <1>12, <1>13, Growing

LEMMA SeeksStep == ASSUME Inv, NEW t \in Threads, Seeks(t) PROVE Carries
<1>1. /\ up /\ th[t].at = "file" /\ th[t].todo # <<>> /\ UNCHANGED <<file, archive, ids>>
      /\ th[t] \in Thread /\ ThreadOK(th[t])
  BY AThread DEF Seeks
<1>2. ASSUME NEW vec \in BOOLEAN, NEW i \in Similar(Claim(t), vec), SeenAgain(t, i, vec)
      PROVE  Carries
  <2>1. i \in DOMAIN facts
    BY <1>2 DEF Similar
  <2>2. QED BY <1>1, <1>2, <2>1, SeenAgainStep
<1>3. ASSUME NEW vec \in BOOLEAN, NEW at \in {"judge", "put"}, NEW i \in 0..ids,
             at = "put" => i = 0, UNCHANGED facts,
             Goes(t, [[th[t] EXCEPT !.vec = vec] EXCEPT !.at = at, !.old = i])
      PROVE  Carries
  <2>1. PICK q \in Thread : q = th[t] /\ ThreadOK(q)
    BY <1>1
  <2>2. PICK r : r = [[q EXCEPT !.vec = vec] EXCEPT !.at = at, !.old = i]
    OBVIOUS
  <2>3. ids \in Nat /\ i \in Nat /\ i <= ids
    BY DEF Inv, Typed
  <2>4. /\ r \in Thread /\ r.at = at /\ r.old = i /\ r.todo = q.todo
        /\ r.clusters = q.clusters /\ r.drop = q.drop
    BY <2>2, <2>3 DEF Thread, Places
  <2>5. 0 \notin DOMAIN facts
    BY DEF Inv, Typed, ListUpTo
  <2>6. ThreadOK(r)
    BY <1>1, <1>3, <2>1, <2>3, <2>4, <2>5 DEF ThreadOK, Saves
  <2>7. \A x : InHand(r, x)
    BY <2>4 DEF InHand
  <2>8. QED BY <1>1, <1>3, <2>1, <2>2, <2>4, <2>6, <2>7, Local
<1>4. QED
  <2>1. ASSUME NEW vec \in BOOLEAN, NEW olds, NEW r,
               olds = IF vec /\ ~th[t].merging /\ Claim(t).kind # "insight"
                      THEN Supersedable(Claim(t)) ELSE {},
               r = [th[t] EXCEPT !.vec = vec],
               \/ \E i \in olds : Goes(t, [r EXCEPT !.at = "judge", !.old = i])
               \/ olds = {} /\ Goes(t, [r EXCEPT !.at = "put", !.old = 0]),
               UNCHANGED facts
        PROVE  Carries
    <3>1. olds \subseteq 0..ids /\ 0 \in 0..ids
      <4>1. ids \in Nat /\ DOMAIN facts \subseteq 0..ids
        BY DEF Inv, Typed, ListUpTo
      <4>2. Supersedable(Claim(t)) \subseteq DOMAIN facts
        BY DEF Supersedable
      <4>3. olds = Supersedable(Claim(t)) \/ olds = {}
        BY <2>1
      <4>4. 0 \in 0..ids
        BY <4>1
      <4>5. QED BY <4>1, <4>2, <4>3, <4>4
    <3>2. QED BY <1>3, <2>1, <3>1
  <2>2. QED BY <1>2, <2>1 DEF Seeks

LEMMA JudgesStep == ASSUME Inv, NEW t \in Threads, Judges(t) PROVE Carries
<1>1. PICK q \in Thread : q = th[t] /\ ThreadOK(q) /\ q.at = "judge" /\ up
  BY AThread DEF Judges
<1>2. UNCHANGED <<file, archive, ids>> /\ ids \in Nat
  BY DEF Judges, Inv, Typed
<1>3. CASE UNCHANGED facts /\ Goes(t, [th[t] EXCEPT !.at = "put", !.old = 0])
  <2>1. PICK r : r = [q EXCEPT !.at = "put", !.old = 0]
    OBVIOUS
  <2>2. /\ r \in Thread /\ r.at = "put" /\ r.old = 0 /\ r.todo = q.todo
        /\ r.clusters = q.clusters /\ r.drop = q.drop
    BY <2>1 DEF Thread, Places
  <2>3. 0 \notin DOMAIN facts
    BY DEF Inv, Typed, ListUpTo
  <2>4. ThreadOK(r)
    BY <1>1, <1>2, <2>2, <2>3 DEF ThreadOK, Saves
  <2>5. \A x : InHand(r, x)
    BY <2>2 DEF InHand
  <2>6. QED BY <1>1, <1>2, <1>3, <2>1, <2>2, <2>4, <2>5, Local
<1>4. CASE facts' = Closed(th[t].old) /\ Goes(t, [th[t] EXCEPT !.at = "put"])
  <2>1. PICK r : r = [q EXCEPT !.at = "put"]
    OBVIOUS
  <2>2. /\ r \in Thread /\ r.at = "put" /\ r.old = q.old /\ r.todo = q.todo
        /\ r.clusters = q.clusters /\ r.drop = q.drop
    BY <2>1 DEF Thread, Places
  <2>3. /\ ListUpTo(facts', ids) /\ DOMAIN facts' = DOMAIN facts
        /\ \A j \in DOMAIN facts : facts'[j].replaces = facts[j].replaces
                                 /\ (facts'[j].live => facts[j].live)
        /\ q.old \in DOMAIN facts => ~facts'[q.old].live
    <3>1. CASE q.old \notin DOMAIN facts
      BY <1>1, <1>4, <3>1 DEF Closed, Inv, Typed
    <3>2. CASE q.old \in DOMAIN facts
      <4>1. PICK f : f = [facts[q.old] EXCEPT !.live = FALSE]
        OBVIOUS
      <4>2. facts[q.old] \in Fact
        BY <3>2 DEF Inv, Typed, ListUpTo
      <4>3. f \in Fact /\ f.replaces = facts[q.old].replaces /\ f.live = FALSE
        BY <4>1, <4>2 DEF Fact
      <4>4. facts' = [facts EXCEPT ![q.old] = f]
        BY <1>1, <1>4, <3>2, <4>1 DEF Closed, Inv, Typed, ListUpTo
      <4>5. QED BY <3>2, <4>3, <4>4, Marking DEF Inv, Typed
    <3>3. QED BY <3>1, <3>2
  <2>4. Tame
    BY <2>3 DEF Tame
  <2>5. ThreadOK(r)'
    <3>1. /\ r.todo # <<>> /\ r.old <= ids /\ (\A c \in r.clusters : c \subseteq 1..ids)
          /\ r.drop \subseteq 1..ids
      BY <1>1, <2>2 DEF ThreadOK
    <3>2. r.old \in DOMAIN facts' => ~facts'[r.old].live
      BY <2>2, <2>3
    <3>3. ids' = ids
      BY <1>2
    <3>4. /\ r.todo # <<>> /\ r.old <= ids' /\ (\A c \in r.clusters : c \subseteq 1..ids')
          /\ r.drop \subseteq 1..ids'
      BY <3>1, <3>3
    <3>5. r.at \notin Saves \cup {"rebuild"}
      BY <2>2 DEF Saves
    <3>6. QED BY <3>2, <3>4, <3>5 DEF ThreadOK, Saves
  <2>6. Goes(t, r)
    BY <1>1, <1>4, <2>1
  <2>7. th[t].at # "flush" /\ r.at \notin {"open", "flush", "rebind"}
    BY <1>1, <2>2
  <2>8. ids' \in Nat /\ ids <= ids' /\ ListUpTo(facts', ids')
    BY <1>2, <2>3
  <2>9. UNCHANGED <<file, archive>> /\ DOMAIN facts \subseteq DOMAIN facts'
    BY <1>2, <2>3
  <2>10. QED BY <1>1, <2>2, <2>4, <2>5, <2>6, <2>7, <2>8, <2>9, Growing
<1>5. QED BY <1>3, <1>4 DEF Judges

LEMMA PutsStep == ASSUME Inv, NEW t \in Threads, Puts(t) PROVE Carries
<1>1. PICK q \in Thread : q = th[t] /\ ThreadOK(q) /\ q.at = "put" /\ up /\ q.todo # <<>>
  BY AThread DEF Puts, ThreadOK
<1>2. PICK claim \in Claims : claim = Claim(t)
  <2>1. q.todo \in Seq(Claims)
    BY <1>1 DEF Thread
  <2>2. Head(q.todo) \in Claims
    BY <1>1, <2>1
  <2>3. QED BY <1>1, <2>2 DEF Claim
<1>3. PICK next, r : next = AfterAdd(t) /\ r = Saving(q, next)
  OBVIOUS
<1>4. next \in {"again", "next"}
  BY <1>3 DEF AfterAdd
<1>5. /\ r \in Thread /\ r.at = "render" /\ r.then = next /\ r.old = q.old
      /\ r.clusters = q.clusters /\ r.drop = q.drop /\ r.todo = q.todo /\ ThreadOK(r)
  BY <1>1, <1>3, <1>4, SavingIs
<1>6. PICK n : n \in Nat /\ n = ids /\ ids' = n + 1 /\ DOMAIN facts \subseteq 1..n
  BY DEF Puts, Inv, Typed, ListUpTo
<1>7. PICK new : /\ new \in Fact /\ new.live = TRUE /\ new.replaces = q.old
                 /\ facts' = [i \in DOMAIN facts \cup {n + 1} |->
                                IF i = n + 1 THEN new ELSE facts[i]]
  <2>1. PICK warmed \in BOOLEAN :
          facts' = [i \in DOMAIN facts \cup {ids'} |-> IF i = ids' THEN
            [topic |-> Claim(t).topic, val |-> Claim(t).val, kind |-> Claim(t).kind,
             live |-> TRUE, vec |-> th[t].vec, replaces |-> th[t].old, warmed |-> warmed]
            ELSE facts[i]]
    <3>1. \A S : S = BOOLEAN \/ S = {FALSE} => \A w \in S : w \in BOOLEAN
      OBVIOUS
    <3>2. QED BY <3>1 DEF Puts
  <2>2. PICK new : new =
          [topic |-> Claim(t).topic, val |-> Claim(t).val, kind |-> Claim(t).kind,
           live |-> TRUE, vec |-> th[t].vec, replaces |-> th[t].old, warmed |-> warmed]
    OBVIOUS
  <2>3. facts' = [i \in DOMAIN facts \cup {n + 1} |-> IF i = n + 1 THEN new ELSE facts[i]]
    BY <1>6, <2>1, <2>2
  <2>4. claim.topic \in Topics /\ claim.val \in Vals /\ claim.kind \in Kinds
    BY DEF Claims
  <2>5. q.vec \in BOOLEAN /\ q.old \in Nat
    BY DEF Thread
  <2>6. new \in Fact /\ new.live = TRUE /\ new.replaces = q.old
    BY <1>1, <1>2, <2>2, <2>4, <2>5 DEF Fact
  <2>7. QED BY <2>3, <2>6
<1>8. /\ DOMAIN facts' = DOMAIN facts \cup {n + 1} /\ facts'[n + 1] = new
      /\ \A i \in DOMAIN facts : facts'[i] = facts[i]
  BY <1>6, <1>7
<1>9. q.old \in Nat /\ q.old <= n /\ (q.old \in DOMAIN facts => ~facts[q.old].live)
  BY <1>1, <1>6 DEF ThreadOK, Thread
<1>10. facts \in [DOMAIN facts -> Fact] /\ Replaced(facts)
  BY DEF Inv, Typed, ListUpTo
<1>11. facts' \in [DOMAIN facts' -> Fact]
  BY <1>7, <1>8, <1>10
<1>12. Replaced(facts')
  <2> SUFFICES ASSUME NEW i \in DOMAIN facts', NEW o, o = facts'[i].replaces
               PROVE  o < i /\ (o \in DOMAIN facts' => ~facts'[o].live)
    BY DEF Replaced
  <2>1. CASE i = n + 1
    BY <1>6, <1>7, <1>8, <1>9, <2>1
  <2>2. CASE i \in DOMAIN facts
    <3>1. o = facts[i].replaces /\ o < i /\ (o \in DOMAIN facts => ~facts[o].live)
      BY <1>8, <1>10, <2>2 DEF Replaced
    <3>2. i \in 1..n /\ facts[i] \in Fact
      BY <1>6, <1>10, <2>2
    <3>3. o # n + 1
      BY <1>6, <3>1, <3>2 DEF Fact
    <3>4. QED BY <1>8, <3>1, <3>3
  <2>3. QED BY <1>8, <2>1, <2>2
<1>13. ids' \in Nat /\ ids <= ids' /\ ListUpTo(facts', ids')
  BY <1>6, <1>8, <1>11, <1>12 DEF ListUpTo
<1>14. Tame
  BY <1>6, <1>8 DEF Tame
<1>15. ThreadOK(r)'
  <2>1. /\ r.old <= ids' /\ (\A c \in r.clusters : c \subseteq 1..ids') /\ r.drop \subseteq 1..ids'
        /\ (r.then = "next" => r.todo # <<>>) /\ r.then # "none"
    BY <1>1, <1>4, <1>5, <1>6, <1>9 DEF ThreadOK
  <2>2. QED BY <1>5, <2>1 DEF ThreadOK
<1>16. Goes(t, r) /\ th[t].at # "flush" /\ r.at \notin {"open", "flush", "rebind"}
  BY <1>1, <1>3, <1>5 DEF Puts
<1>17. UNCHANGED <<file, archive>> /\ DOMAIN facts \subseteq DOMAIN facts'
  BY <1>8 DEF Puts
<1>18. QED BY <1>1, <1>5, <1>13, <1>14, <1>15, <1>16, <1>17, Growing

----------------------------------------------------------------------------
(* A save.                                                                 *)

LEMMA RendersStep == ASSUME Inv, NEW t \in Threads, Renders(t) PROVE Carries
<1>1. PICK q \in Thread : q = th[t] /\ ThreadOK(q) /\ q.at = "render" /\ up
  BY AThread DEF Renders
<1>2. PICK r : r = [q EXCEPT !.at = "open", !.text = facts]
  OBVIOUS
<1>3. facts \in Lists /\ ListUpTo(facts, ids) /\ ids \in Nat
  BY ListIs DEF Inv, Typed
<1>4. /\ r \in Thread /\ r.at = "open" /\ r.text = facts /\ r.old = q.old /\ r.then = q.then
      /\ r.todo = q.todo /\ r.clusters = q.clusters /\ r.drop = q.drop
  BY <1>2, <1>3 DEF Thread, Places, Saves
<1>5. ThreadOK(r)
  BY <1>1, <1>3, <1>4 DEF ThreadOK, Saves
<1>6. \A x : Keeps(x) /\ ~cut => InHand(r, x)
  BY <1>1, <1>4 DEF Keeps, InHand
<1>7. Goes(t, r) /\ th[t].at # "flush"
  BY <1>1, <1>2 DEF Renders
<1>8. UNCHANGED <<facts, file, archive, ids>>
  BY DEF Renders
<1>9. QED BY <1>1, <1>4, <1>5, <1>6, <1>7, <1>8, Local

\* The file changes, and nothing else of the store.
LEMMA FileChanges ==
  ASSUME Inv, up, NEW t \in Threads, NEW r \in Thread, Goes(t, r), ThreadOK(r),
         UNCHANGED <<facts, archive, ids>>, ListUpTo(file'.lines, ids), file'.torn \in BOOLEAN,
         \A x : Keeps(x) /\ ~cut => /\ InHand(r, x)
                                    /\ r.at = "flush" \/ x \subseteq DOMAIN file'.lines \cup archive
  PROVE  Carries
<1>1. UNCHANGED <<shown, up, cut>> /\ th' = [th EXCEPT ![t] = r]
  BY DEF Goes
<1>2. Typed'
  BY <1>1 DEF Inv, Typed
<1>3. ids <= ids' /\ archive \subseteq archive' /\ Tame
  BY DEF Inv, Typed, Tame
<1>4. ThreadOK(r)'
  BY DEF ThreadOK
<1>5. Threading' /\ ShownOK'
  BY <1>1, <1>2, <1>3, <1>4, ThreadMoves
<1>6. ASSUME NEW x, Keeps(x)
      PROVE  Keeps(x)'
  <2>1. ~cut => InHand(r, x)'
    BY <1>6 DEF InHand
  <2>2. ~cut => x \subseteq DOMAIN facts' \cup archive'
    BY <1>6 DEF Keeps
  <2>3. ~cut => r.at = "flush" \/ x \subseteq DOMAIN file'.lines \cup archive'
    BY <1>6
  <2>4. archive \subseteq archive'
    BY <1>3
  <2>5. QED BY <1>1, <1>6, <2>1, <2>2, <2>3, <2>4, ThreadKeeps
<1>7. QED BY <1>2, <1>5, <1>6 DEF Carries

LEMMA OpensStep == ASSUME Inv, NEW t \in Threads, Opens(t) PROVE Carries
<1>1. PICK q \in Thread : q = th[t] /\ ThreadOK(q) /\ q.at = "open" /\ up
  BY AThread DEF Opens
<1>2. PICK r : r = [q EXCEPT !.at = "flush"]
  OBVIOUS
<1>3. /\ r \in Thread /\ r.at = "flush" /\ r.text = q.text /\ r.old = q.old /\ r.then = q.then
      /\ r.todo = q.todo /\ r.clusters = q.clusters /\ r.drop = q.drop
  BY <1>2 DEF Thread, Places, Saves
<1>4. ThreadOK(r)
  BY <1>1, <1>3 DEF ThreadOK, Saves
<1>5. ASSUME NEW x, Keeps(x), ~cut
      PROVE  InHand(r, x)
  BY <1>1, <1>3, <1>5 DEF Keeps, InHand
<1>6. ListUpTo(file'.lines, ids) /\ file'.torn \in BOOLEAN
  BY EmptyList DEF Opens, Inv, Typed
<1>7. Goes(t, r) /\ UNCHANGED <<facts, archive, ids>>
  BY <1>1, <1>2 DEF Opens
<1>8. QED BY <1>1, <1>3, <1>4, <1>5, <1>6, <1>7, FileChanges

LEMMA FlushesStep == ASSUME Inv, NEW t \in Threads, Flushes(t) PROVE Carries
<1>1. PICK q \in Thread : /\ q = th[t] /\ ThreadOK(q) /\ q.at = "flush" /\ up
                          /\ q.then \in {"next", "merge", "again", "sum"}
                          /\ (q.then = "next" => q.todo # <<>>) /\ ListUpTo(q.text, ids)
  <2>1. PICK q \in Thread : q = th[t] /\ ThreadOK(q) /\ q.at = "flush" /\ up
    BY AThread DEF Flushes
  <2>2. q.then \in {"none", "next", "merge", "again", "sum"}
    BY DEF Thread
  <2>3. QED BY <2>1, <2>2 DEF ThreadOK, Saves
<1>2. PICK done : done = [q EXCEPT !.text = <<>>, !.then = "none"]
  OBVIOUS
<1>3. /\ done \in Thread /\ done.at = "flush" /\ done.old = q.old /\ done.then = "none"
      /\ done.todo = q.todo /\ done.clusters = q.clusters /\ done.drop = q.drop
  <2>1. <<>> \in Lists
    BY EmptyList, ListIs
  <2>2. QED BY <1>1, <1>2, <2>1 DEF Thread
<1>4. PICK r : /\ Goes(t, r)
               /\ q.then = "next"  => r = [done EXCEPT !.at = "file", !.todo = Tail(@),
                                                      !.old = 0, !.vec = FALSE]
               /\ q.then = "merge" => r = [done EXCEPT !.at = "file"]
               /\ q.then = "again" => r = Saving(done, "sum")
               /\ q.then = "sum"   => r = [done EXCEPT !.at = "sum", !.todo = <<>>,
                                                      !.vec = FALSE]
  <2>1. PICK r : r =
        CASE q.then = "next"  -> [done EXCEPT !.at = "file", !.todo = Tail(@), !.old = 0,
                                              !.vec = FALSE]
          [] q.then = "merge" -> [done EXCEPT !.at = "file"]
          [] q.then = "again" -> Saving(done, "sum")
          [] q.then = "sum"   -> [done EXCEPT !.at = "sum", !.todo = <<>>, !.vec = FALSE]
    OBVIOUS
  <2>2. Goes(t, r)
    BY <1>1, <1>2, <2>1 DEF Flushes
  <2>3. QED BY <2>1, <2>2
<1>5. /\ r \in Thread /\ r.at \in {"file", "sum", "render"} /\ (r.at = "render" => r.then = "sum")
      /\ r.old \in {0, q.old} /\ r.clusters = q.clusters /\ r.drop = q.drop
  <2>1. CASE q.then = "next"
    <3>1. q.todo \in Seq(Claims) /\ q.todo # <<>>
      BY <1>1, <2>1 DEF Thread
    <3>2. Tail(q.todo) \in Seq(Claims)
      BY <3>1
    <3>3. PICK rest \in Seq(Claims) : rest = Tail(q.todo)
      BY <3>2
    <3>4. r = [done EXCEPT !.at = "file", !.todo = rest, !.old = 0, !.vec = FALSE]
      BY <1>3, <1>4, <2>1, <3>3
    <3>5. QED BY <1>3, <3>3, <3>4 DEF Thread, Places
  <2>2. CASE q.then = "merge"
    BY <1>3, <1>4, <2>2 DEF Thread, Places
  <2>3. CASE q.then = "again"
    <3>1. r = [done EXCEPT !.at = "render", !.then = "sum"]
      BY <1>4, <2>3 DEF Saving
    <3>2. QED BY <1>3, <3>1 DEF Thread, Places, Saves
  <2>4. CASE q.then = "sum"
    <3>1. r = [done EXCEPT !.at = "sum", !.todo = <<>>, !.vec = FALSE] /\ <<>> \in Seq(Claims)
      BY <1>4, <2>4
    <3>2. QED BY <1>3, <3>1 DEF Thread, Places
  <2>5. QED BY <1>1, <2>1, <2>2, <2>3, <2>4
<1>6. ThreadOK(r)
  <2>1. ids \in Nat /\ 0 <= ids
    BY DEF Inv, Typed
  <2>2. QED BY <1>1, <1>5, <2>1 DEF ThreadOK, Saves
<1>7. file'.lines = q.text /\ file'.torn \in BOOLEAN
  <2>1. PICK torn \in BOOLEAN : file' = [lines |-> th[t].text, torn |-> torn]
    <3>1. \A S : S = BOOLEAN \/ S = {FALSE} => \A w \in S : w \in BOOLEAN
      OBVIOUS
    <3>2. QED BY <3>1 DEF Flushes
  <2>2. QED BY <1>1, <2>1
<1>8. ASSUME NEW x, Keeps(x), ~cut
      PROVE  InHand(r, x) /\ x \subseteq DOMAIN file'.lines \cup archive
  <2>1. InHand(q, x)
    BY <1>1, <1>8 DEF Keeps
  <2>2. QED BY <1>1, <1>5, <1>7, <2>1 DEF InHand
<1>9. UNCHANGED <<facts, archive, ids>> /\ ListUpTo(file'.lines, ids)
  BY <1>1, <1>7 DEF Flushes
<1>10. QED BY <1>1, <1>4, <1>5, <1>6, <1>7, <1>8, <1>9, FileChanges

----------------------------------------------------------------------------
(* Consolidating.                                                          *)

LEMMA SumsOver ==
  ASSUME Inv, up, NEW t \in Threads, th[t].at \in {"file", "sum"},
         NEW near \in SUBSET (SUBSET (1..ids)),
         Goes(t, [Idle EXCEPT !.at = "sum", !.clusters = near]),
         UNCHANGED <<facts, file, archive, ids>>
  PROVE  Carries
<1>1. PICK r : r = [Idle EXCEPT !.at = "sum", !.clusters = near]
  OBVIOUS
<1>2. Idle \in Thread /\ ThreadOK(Idle) /\ ids \in Nat
  BY IdleOK DEF Inv, Typed
<1>3. near \in SUBSET (SUBSET Nat)
  BY <1>2
<1>4. r \in Thread /\ r.at = "sum" /\ r.old = 0 /\ r.clusters = near /\ r.drop = {}
  BY <1>1, <1>2, <1>3 DEF Thread, Places, Idle
<1>5. ThreadOK(r) /\ \A x : InHand(r, x)
  BY <1>2, <1>4 DEF ThreadOK, InHand, Saves
<1>6. QED BY <1>1, <1>4, <1>5, Local

LEMMA GoesIdle ==
  ASSUME Inv, up, NEW t \in Threads, th[t].at # "flush", Goes(t, Idle),
         UNCHANGED <<facts, file, archive, ids>>
  PROVE  Carries
  BY IdleOK, Local DEF Inv, Typed

LEMMA FiledStep == ASSUME Inv, NEW t \in Threads, Filed(t) PROVE Carries
<1>1. up /\ th[t].at = "file" /\ UNCHANGED <<facts, file, archive, ids>>
  BY DEF Filed
<1>2. CASE Goes(t, Idle)
  BY <1>1, <1>2, GoesIdle
<1>3. ASSUME NEW tail \in Tails, NEW near \in SUBSET Clusters(tail),
             Goes(t, [Idle EXCEPT !.at = "sum", !.clusters = near])
      PROVE  Carries
  <2>1. tail \subseteq 1..ids
    BY DEF Tails, Inv, Typed, ListUpTo
  <2>2. near \in SUBSET (SUBSET (1..ids))
    BY <2>1 DEF Clusters
  <2>3. QED BY <1>1, <1>3, <2>2, SumsOver
<1>4. QED BY <1>2, <1>3 DEF Filed

LEMMA SumsStep == ASSUME Inv, NEW t \in Threads, Sums(t) PROVE Carries
<1>1. PICK q \in Thread : q = th[t] /\ ThreadOK(q) /\ q.at = "sum" /\ up
  BY AThread DEF Sums
<1>2. UNCHANGED <<facts, file, archive, ids>> /\ ids \in Nat
  BY DEF Sums, Inv, Typed
<1>3. CASE Goes(t, Idle)
  BY <1>1, <1>2, <1>3, GoesIdle
<1>4. q.clusters \in SUBSET (SUBSET (1..ids))
  BY <1>1 DEF ThreadOK
<1>5. ASSUME NEW c \in q.clusters,
             Goes(t, [Idle EXCEPT !.at = "sum", !.clusters = q.clusters \ {c}])
      PROVE  Carries
  <2>1. PICK near \in SUBSET (SUBSET (1..ids)) : near = q.clusters \ {c}
    BY <1>4
  <2>2. QED BY <1>1, <1>2, <1>5, <2>1, SumsOver
<1>6. ASSUME NEW c \in q.clusters, NEW i \in c \cap DOMAIN facts,
             Goes(t, [[Idle EXCEPT !.at = "sum", !.clusters = q.clusters \ {c}]
                        EXCEPT !.at = "archive", !.merging = TRUE, !.drop = c,
                               !.todo = <<[topic |-> facts[i].topic, val |-> facts[i].val,
                                           kind |-> "word"]>>])
      PROVE  Carries
  <2>1. PICK claim : claim = [topic |-> facts[i].topic, val |-> facts[i].val, kind |-> "word"]
    OBVIOUS
  <2>2. facts[i] \in Fact
    BY DEF Inv, Typed, ListUpTo
  <2>3. claim \in Claims
    BY <2>1, <2>2 DEF Fact, Claims, Kinds
  <2>4. PICK near \in SUBSET (SUBSET (1..ids)) : near = q.clusters \ {c}
    BY <1>4
  <2>5. PICK sum : sum = [Idle EXCEPT !.at = "sum", !.clusters = near]
    OBVIOUS
  <2>6. near \in SUBSET (SUBSET Nat) /\ c \in SUBSET Nat /\ c \subseteq 1..ids
    <3>1. 1..ids \subseteq Nat
      BY <1>2
    <3>2. c \subseteq 1..ids
      BY <1>4
    <3>3. QED BY <3>1, <3>2
  <2>7. sum \in Thread /\ sum.old = 0 /\ sum.clusters = near
    BY <2>5, <2>6, IdleOK, <1>2 DEF Thread, Places, Idle
  <2>8. PICK r : r = [sum EXCEPT !.at = "archive", !.merging = TRUE, !.drop = c,
                                 !.todo = <<claim>>]
    OBVIOUS
  <2>9. <<claim>> \in Seq(Claims)
    BY <2>3
  <2>10. r \in Thread /\ r.at = "archive" /\ r.old = 0 /\ r.clusters = near /\ r.drop = c
    BY <2>6, <2>7, <2>8, <2>9 DEF Thread, Places
  <2>11. ThreadOK(r) /\ \A x : InHand(r, x)
    <3>1. \A d \in r.clusters : d \subseteq 1..ids
      BY <2>10
    <3>2. r.old <= ids /\ r.drop \subseteq 1..ids
      BY <1>2, <2>6, <2>10
    <3>3. QED BY <2>10, <3>1, <3>2 DEF ThreadOK, InHand, Saves
  <2>12. Goes(t, r)
    BY <1>6, <2>1, <2>4, <2>5, <2>8
  <2>13. QED BY <1>1, <1>2, <2>10, <2>11, <2>12, Local
<1>7. QED BY <1>1, <1>3, <1>5, <1>6 DEF Sums

LEMMA ArchivesStep == ASSUME Inv, NEW t \in Threads, Archives(t) PROVE Carries
<1>1. PICK q \in Thread : q = th[t] /\ ThreadOK(q) /\ q.at = "archive" /\ up
  BY AThread DEF Archives
<1>2. PICK r : r = [q EXCEPT !.at = "rebuild"]
  OBVIOUS
<1>3. /\ r \in Thread /\ r.at = "rebuild" /\ r.old = q.old
      /\ r.clusters = q.clusters /\ r.drop = q.drop
  BY <1>2 DEF Thread, Places
<1>4. archive' = archive \cup q.drop /\ UNCHANGED <<facts, file, ids>> /\ Goes(t, r)
  BY <1>1, <1>2 DEF Archives, Archived
<1>5. UNCHANGED <<shown, up, cut>> /\ th' = [th EXCEPT ![t] = r]
  BY <1>4 DEF Goes
<1>6. q.drop \subseteq 1..ids
  BY <1>1 DEF ThreadOK
<1>7. Typed'
  BY <1>4, <1>5, <1>6 DEF Inv, Typed
<1>8. ids <= ids' /\ archive \subseteq archive' /\ Tame
  BY <1>4 DEF Inv, Typed, Tame
<1>9. ThreadOK(r)'
  BY <1>1, <1>3, <1>4 DEF ThreadOK, Saves
<1>10. Threading' /\ ShownOK'
  BY <1>1, <1>3, <1>5, <1>7, <1>8, <1>9, ThreadMoves
<1>11. ASSUME NEW x, Keeps(x)
       PROVE  Keeps(x)'
  <2>1. InHand(r, x)'
    BY <1>3 DEF InHand
  <2>2. ~cut => x \subseteq DOMAIN facts' \cup archive'
    BY <1>1, <1>4, <1>11 DEF Keeps
  <2>3. UNCHANGED file /\ th[t].at # "flush"
    BY <1>1, <1>4
  <2>4. archive \subseteq archive'
    BY <1>8
  <2>5. QED BY <1>1, <1>3, <1>5, <1>11, <2>1, <2>2, <2>3, <2>4, ThreadKeeps
<1>12. QED BY <1>7, <1>10, <1>11 DEF Carries

LEMMA RebuildsStep == ASSUME Inv, NEW t \in Threads, Rebuilds(t) PROVE Carries
<1>1. PICK q \in Thread : /\ q = th[t] /\ ThreadOK(q) /\ q.at = "rebuild" /\ up
                          /\ q.drop \subseteq archive
  BY AThread DEF Rebuilds, ThreadOK
<1>2. PICK keep : keep = DOMAIN facts \ q.drop
  OBVIOUS
<1>3. PICK r : r = [q EXCEPT !.at = "rebind", !.keep = keep]
  OBVIOUS
<1>4. keep \in SUBSET Nat
  BY <1>2 DEF Inv, Typed, ListUpTo
<1>5. /\ r \in Thread /\ r.at = "rebind" /\ r.keep = keep /\ r.old = q.old
      /\ r.clusters = q.clusters /\ r.drop = q.drop
  BY <1>3, <1>4 DEF Thread, Places
<1>6. ThreadOK(r)
  BY <1>1, <1>5 DEF ThreadOK, Saves
<1>7. ASSUME NEW x, Keeps(x), ~cut
      PROVE  InHand(r, x)
  BY <1>1, <1>2, <1>5, <1>7 DEF Keeps, InHand
<1>8. Goes(t, r) /\ UNCHANGED <<facts, file, archive, ids>>
  BY <1>1, <1>2, <1>3 DEF Rebuilds
<1>9. QED BY <1>1, <1>5, <1>6, <1>7, <1>8, Local

LEMMA RebindsStep == ASSUME Inv, NEW t \in Threads, Rebinds(t) PROVE Carries
<1>1. PICK q \in Thread : q = th[t] /\ ThreadOK(q) /\ q.at = "rebind" /\ up
  BY AThread DEF Rebinds
<1>2. PICK bare : bare = [q EXCEPT !.keep = {}, !.drop = {}]
  OBVIOUS
<1>3. /\ bare \in Thread /\ bare.at = "rebind" /\ bare.old = q.old
      /\ bare.clusters = q.clusters /\ bare.drop = {}
  BY <1>1, <1>2 DEF Thread
<1>4. ThreadOK(bare)
  BY <1>1, <1>3 DEF ThreadOK, Saves
<1>5. PICK r : r = Saving(bare, "merge")
  OBVIOUS
<1>6. /\ r \in Thread /\ r.at = "render" /\ r.then = "merge" /\ ThreadOK(r)
      /\ r.old = q.old /\ r.clusters = q.clusters /\ r.drop = {}
  BY <1>3, <1>4, <1>5, SavingIs
<1>7. facts' = Some(facts, q.keep) /\ UNCHANGED <<file, archive, ids>> /\ Goes(t, r)
  BY <1>1, <1>2, <1>5 DEF Rebinds
<1>8. UNCHANGED <<shown, up, cut>> /\ th' = [th EXCEPT ![t] = r]
  BY <1>7 DEF Goes
<1>9. /\ ListUpTo(facts', ids) /\ DOMAIN facts' = DOMAIN facts \cap q.keep
      /\ \A i \in DOMAIN facts' : facts'[i] = facts[i]
  <2>1. PICK held : held = q.keep
    OBVIOUS
  <2>2. /\ ListUpTo(Some(facts, held), ids) /\ DOMAIN Some(facts, held) = DOMAIN facts \cap held
        /\ \A i \in DOMAIN facts \cap held : Some(facts, held)[i] = facts[i]
    BY SomeIs DEF Inv, Typed
  <2>3. QED BY <1>7, <2>1, <2>2
<1>10. Typed'
  BY <1>7, <1>8, <1>9 DEF Inv, Typed
<1>11. ids <= ids' /\ archive \subseteq archive' /\ Tame
  BY <1>7, <1>9 DEF Inv, Typed, Tame
<1>12. ThreadOK(r)'
  BY <1>6, <1>7 DEF ThreadOK, Saves
<1>13. Threading' /\ ShownOK'
  BY <1>1, <1>6, <1>8, <1>10, <1>11, <1>12, ThreadMoves
<1>14. ASSUME NEW x, Keeps(x)
       PROVE  Keeps(x)'
  <2>1. InHand(r, x)'
    BY <1>6 DEF InHand
  <2>2. ~cut => x \subseteq DOMAIN facts' \cup archive'
    <3>1. ~cut => x \subseteq q.keep \cup archive /\ x \subseteq DOMAIN facts \cup archive
      BY <1>1, <1>14 DEF Keeps, InHand
    <3>2. QED BY <1>7, <1>9, <3>1
  <2>3. UNCHANGED file /\ th[t].at # "flush"
    BY <1>1, <1>7
  <2>4. archive \subseteq archive'
    BY <1>11
  <2>5. QED BY <1>1, <1>6, <1>8, <1>14, <2>1, <2>2, <2>3, <2>4, ThreadKeeps
<1>15. QED BY <1>10, <1>13, <1>14 DEF Carries

----------------------------------------------------------------------------
(* Any step.                                                               *)

LEMMA FilesStep == ASSUME Inv, NEW t \in Threads, Files(t), Noted PROVE Inv'
<1>1. Carries
  BY DistilsStep, ReflectsStep, SeeksStep, JudgesStep, PutsStep, RendersStep, OpensStep,
     FlushesStep, FiledStep, SumsStep, ArchivesStep, RebuildsStep, RebindsStep DEF Files
<1>2. Typed' /\ Threading' /\ ShownOK' /\ ids <= ids'
  <2>1. ids \in Nat
    BY DEF Inv, Typed
  <2>2. Distils(t) \/ Reflects(t) => ids' = ids
    BY DEF Distils, Reflects, Begins
  <2>3. Seeks(t) \/ Judges(t) \/ Filed(t) \/ Sums(t) => ids' = ids
    BY DEF Seeks, Judges, Filed, Sums
  <2>4. Renders(t) \/ Opens(t) \/ Flushes(t) => ids' = ids
    BY DEF Renders, Opens, Flushes
  <2>5. Archives(t) \/ Rebuilds(t) \/ Rebinds(t) => ids' = ids
    BY DEF Archives, Rebuilds, Rebinds
  <2>6. Puts(t) => ids' = ids + 1
    BY DEF Puts
  <2>7. ids <= ids'
    BY <2>1, <2>2, <2>3, <2>4, <2>5, <2>6 DEF Files
  <2>8. QED BY <1>1, <2>7 DEF Carries
<1>3. CASE Quiet(th') /\ ~file'.torn
  <2>1. safe' = DOMAIN file'.lines \cap DOMAIN facts'
    BY <1>3 DEF Noted
  <2>2. \A u \in Threads : th'[u].at = "idle"
    BY <1>3 DEF Quiet
  <2>3. Keeps(safe)'
    BY <2>1, <2>2 DEF Keeps, InHand
  <2>4. (safe \subseteq 1..ids)'
    BY <1>2, <2>1 DEF Typed, ListUpTo
  <2>5. QED BY <1>2, <2>3, <2>4 DEF Inv
<1>4. CASE ~(Quiet(th') /\ ~file'.torn)
  <2>1. safe' = safe
    BY <1>4 DEF Noted
  <2>2. PICK x : x = safe
    OBVIOUS
  <2>3. Keeps(x)
    BY <2>2 DEF Inv, Keeps, InHand
  <2>4. Keeps(x)'
    BY <1>1, <2>3 DEF Carries
  <2>5. Keeps(safe)'
    BY <2>1, <2>2, <2>4 DEF Keeps, InHand
  <2>6. (safe \subseteq 1..ids)'
    BY <1>2, <2>1 DEF Inv, Typed
  <2>7. QED BY <1>2, <2>5, <2>6 DEF Inv
<1>5. QED BY <1>3, <1>4

\* What is recalled is current when it is ranked, so nothing of it replaced another.
LEMMA RecallStep == ASSUME Inv, Ranks \/ Shows \/ Answered PROVE Inv'
<1>1. UNCHANGED <<facts, file, archive, th, up, ids, safe, cut>>
  BY DEF Ranks, Shows, Answered, counters
<1>2. shown'.top \subseteq shown.top
      \/ (shown'.top \subseteq DOMAIN facts /\ \A i \in shown'.top : facts[i].live)
  <2>1. CASE Ranks
    BY <2>1 DEF Ranks, Candidates
  <2>2. CASE Shows
    BY <2>2 DEF Shows, Reranked
  <2>3. CASE Answered
    BY <2>3 DEF Answered, NotShown
  <2>4. QED BY <2>1, <2>2, <2>3
<1>3. up \/ shown' = NotShown
  <2>1. ~up => shown.at = "none"
    BY DEF Inv, Threading, NotShown
  <2>2. QED BY <2>1 DEF Ranks, Shows, Answered
<1>4. Typed'
  BY <1>1 DEF Inv, Typed
<1>5. Threading'
  BY <1>1, <1>3 DEF Inv, Threading, ThreadOK
<1>6. ShownOK'
  <2>1. CASE shown'.top \subseteq shown.top
    BY <1>1, <2>1 DEF Inv, ShownOK, NeverBoth
  <2>2. CASE shown'.top \subseteq DOMAIN facts /\ \A i \in shown'.top : facts[i].live
    BY <1>1, <2>2 DEF Inv, Typed, ListUpTo, Replaced, ShownOK, NeverBoth
  <2>3. QED BY <1>2, <2>1, <2>2
<1>7. Keeps(safe)' /\ (safe \subseteq 1..ids)'
  BY <1>1 DEF Inv, Keeps, InHand
<1>8. QED BY <1>4, <1>5, <1>6, <1>7 DEF Inv

LEMMA DiesStep == ASSUME Inv, Dies PROVE Inv'
<1>1. /\ up' = FALSE /\ facts' = <<>> /\ shown' = NotShown
      /\ th' = [t \in Threads |-> Idle] /\ UNCHANGED <<archive, ids, safe>>
  BY DEF Dies
<1>2. PICK flushing \in SUBSET Threads :
        /\ \A t \in Threads : th[t].at = "flush" <=> t \in flushing
        /\ cut' = (cut \/ flushing # {} \/ file.torn)
        /\ \/ UNCHANGED file
           \/ \E t \in flushing : \E n \in 0..ids : \E torn \in BOOLEAN :
                file' = [lines |-> Some(th[t].text, 1..n), torn |-> torn]
  BY DEF Dies
<1>3. ids \in Nat
  BY DEF Inv, Typed
<1>4. ListUpTo(file'.lines, ids) /\ file'.torn \in BOOLEAN
  <2>1. CASE UNCHANGED file
    BY <2>1 DEF Inv, Typed
  <2>2. ASSUME NEW t \in flushing, NEW n \in 0..ids, NEW torn \in BOOLEAN,
               file' = [lines |-> Some(th[t].text, 1..n), torn |-> torn]
        PROVE  ListUpTo(file'.lines, ids) /\ file'.torn \in BOOLEAN
    <3>1. PICK text, held : text = th[t].text /\ held = 1..n
      OBVIOUS
    <3>2. ListUpTo(text, ids)
      BY <1>2, <3>1 DEF Inv, Threading, ThreadOK
    <3>3. ListUpTo(Some(text, held), ids)
      BY <1>3, <3>2, SomeIs
    <3>4. QED BY <2>2, <3>1, <3>3
  <2>3. QED BY <1>2, <2>1, <2>2
<1>5. cut' \in BOOLEAN
  BY <1>2 DEF Inv, Typed
<1>6. Typed'
  BY <1>1, <1>3, <1>4, <1>5, EmptyList DEF Inv, Typed
<1>7. \A t \in Threads : th'[t] = Idle /\ Idle.at = "idle"
  BY <1>1 DEF Idle
<1>8. Threading'
  <2>1. Idle \in Thread /\ ThreadOK(Idle)'
    BY <1>1, <1>3, IdleOK DEF ThreadOK, Idle, Saves
  <2>2. \A t \in Threads : ThreadOK(th[t])'
    BY <1>7, <2>1 DEF ThreadOK
  <2>3. QED BY <1>1, <1>7, <2>1, <2>2 DEF Threading
<1>9. ShownOK'
  BY <1>1 DEF ShownOK, NeverBoth, NotShown
<1>10. Keeps(safe)'
  <2> SUFFICES ASSUME ~cut' PROVE Keeps(safe)'
    BY DEF Keeps
  <2>1. ~cut /\ flushing = {} /\ UNCHANGED file
    BY <1>2
  <2>2. safe \subseteq DOMAIN file.lines \cup archive
    BY <1>2, <2>1 DEF Inv, Keeps
  <2>3. (\A t \in Threads : InHand(th[t], safe))'
    BY <1>7 DEF InHand
  <2>4. QED BY <1>1, <2>1, <2>2, <2>3 DEF Keeps
<1>11. QED BY <1>1, <1>6, <1>8, <1>9, <1>10 DEF Inv

LEMMA StartsStep == ASSUME Inv, Starts PROVE Inv'
<1>1. /\ ~up /\ up' = TRUE /\ facts' = file.lines
      /\ UNCHANGED <<file, archive, th, shown, ids, safe, cut>>
  BY DEF Starts, counters
<1>2. shown = NotShown /\ \A t \in Threads : th[t].at = "idle"
  BY <1>1 DEF Inv, Threading
<1>3. Typed'
  BY <1>1 DEF Inv, Typed
<1>4. Threading'
  <2>1. (\A t \in Threads : ThreadOK(th[t]))'
    BY <1>1, <1>2 DEF Inv, Threading, ThreadOK
  <2>2. QED BY <1>1, <2>1 DEF Inv, Threading
<1>5. ShownOK'
  BY <1>1, <1>2 DEF ShownOK, NeverBoth, NotShown
<1>6. Keeps(safe)'
  BY <1>1, <1>2 DEF Inv, Keeps, InHand
<1>7. QED BY <1>1, <1>3, <1>4, <1>5, <1>6 DEF Inv

LEMMA NextInv == ASSUME Inv, [Next]_vars PROVE Inv'
<1>1. CASE UNCHANGED vars
  <2>1. UNCHANGED <<facts, file, archive, th, shown, up, ids, safe, cut>>
    BY <1>1 DEF vars
  <2>2. QED BY <2>1 DEF Inv, Typed, Threading, ThreadOK, ShownOK, NeverBoth, Keeps, InHand
<1>2. QED BY <1>1, FilesStep, RecallStep, DiesStep, StartsStep DEF Next

----------------------------------------------------------------------------
(* The theorems.                                                           *)

\* In every behaviour of the threads that file, the recall beside them and the deaths in
\* between, the inductive invariant holds.
THEOREM InvHolds == Spec => []Inv
<1>1. Init => Inv
  BY InitInv
<1>2. Inv /\ [Next]_vars => Inv'
  BY NextInv
<1>3. QED BY <1>1, <1>2, PTL DEF Spec

\* Types; and what a fact replaced is older and no longer current, in the list and in the
\* file (MemoryStore.add).
THEOREM TypeCorrect == Spec => []TypeOK
<1>1. QED BY InvHolds, InvImplies, PTL

\* Recall never puts a fact before the model beside the one that replaced it
\* (memory.py rank_facts, MemoryStore.add).
THEOREM NeverShowsBoth == Spec => []NeverBoth
<1>1. QED BY InvHolds, InvImplies, PTL

\* No fact is deleted: what both list and file held at a quiet moment is in the store or
\* in the archive from then on (MemoryStore.archive, consolidate).
THEOREM NothingIsLost == Spec => []QuietIsKept
<1>1. QED BY InvHolds, InvImplies, PTL
=============================================================================
