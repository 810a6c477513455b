---------------------------- MODULE VoiceProofs -----------------------------
(***************************************************************************)
(* Proofs about what the Keeper says and how it is heard.  Voice: whatever *)
(* the models say and grade, whatever the store may remember, and for any  *)
(* sentences, links and attempts.  Events: for any number of pages and     *)
(* lines, replays of any length, and any breaks and deaths.                *)
(***************************************************************************)
EXTENDS Voice, Events, FiniteSetTheorems, TLAPS

----------------------------------------------------------------------------
(* The register.                                                           *)

\* Clear of each other by the margin, the near classes of anchors are one at most.
LEMMA AnchoredIs ==
  ASSUME NEW m \in Messages
  PROVE  Anchored(m) \in WaterStates \cup {None}
<1>1. m.near \in [Anchors -> Scores]
  BY Zenon DEF Messages
<1>2. \A r \in Anchors : m.near[r] \in Int
  <2>1. Scores \subseteq Int
    BY VoiceAssumption
  <2>2. QED BY <1>1, <2>1
<1> DEFINE near == {r \in Anchors : m.near[r] >= Floor
                      /\ \A o \in Anchors \ {r} : m.near[r] - m.near[o] >= 3}
<1>3. \A r, o \in near : r = o
  BY <1>2
<1>4. near \subseteq Anchors
  OBVIOUS
<1> HIDE DEF near
<1>5. Anchored(m) = IF near \subseteq {"neutral"} THEN None ELSE CHOOSE r \in near : TRUE
  BY DEF Anchored, near
<1>6. CASE near \subseteq {"neutral"}
  BY <1>5, <1>6
<1>7. CASE ~(near \subseteq {"neutral"})
  <2>1. PICK r \in near : near = {r} /\ r # "neutral"
    BY <1>3, <1>7
  <2>2. (CHOOSE x \in near : TRUE) = r
    BY <2>1
  <2>3. QED BY <1>4, <1>5, <1>7, <2>1, <2>2 DEF Anchors
<1>8. QED BY <1>6, <1>7

LEMMA SignalIs ==
  ASSUME NEW m \in Messages
  PROVE  Signal(m) \in WaterStates \cup {None}
<1>1. Keyword(m) \in {"frozen", "tidal", None}
  BY DEF Keyword
<1>2. Local(m) \in WaterStates \cup {None}
  BY <1>1, AnchoredIs DEF Local, WaterStates
<1>3. m.live \in WaterStates \cup {None, "fails"}
  BY DEF Messages
<1>4. QED BY <1>2, <1>3 DEF Signal

\* The register is the last signal of this life: it is how a person is met until the next.
Inherits ==
  /\ register = felt
  /\ register \in WaterStates \cup {None}

LEMMA HearsStep ==
  ASSUME Inherits, Hears
  PROVE  Inherits' /\ MetWhereTheyAre'
<1>1. PICK m \in Messages :
        LET signal == Signal(m)
            kept   == IF signal # None THEN signal ELSE register
            water  == IF kept # None THEN kept ELSE Detected(m) IN
        /\ register' = kept
        /\ felt' = IF signal # None THEN signal ELSE felt
        /\ met' = [water |-> Resolved(water, WarmingBehind(m)), signal |-> signal,
                   earned |-> WarmingBehind(m)]
  BY DEF Hears
<1> DEFINE kept  == IF Signal(m) # None THEN Signal(m) ELSE register
           water == IF kept # None THEN kept ELSE Detected(m)
<1>2. kept \in WaterStates \cup {None} /\ felt' = kept
  BY <1>1, SignalIs DEF Inherits
<1>3. Detected(m) \in WaterStates
  BY DEF Detected, WaterStates
<1>4. water \in WaterStates /\ (kept = "frozen" => water = "frozen")
  BY <1>1, <1>2, <1>3 DEF None
<1>5. PICK earned : earned = WarmingBehind(m)
  OBVIOUS
<1>6. /\ Resolved(water, earned) \in WaterStates
      /\ water = "frozen" => Resolved(water, earned) = "frozen"
      /\ Resolved(water, earned) = "turn" => earned
  BY <1>4 DEF Resolved, WaterStates
<1>7. met'.water = Resolved(water, earned) /\ met'.earned = earned
  BY <1>1, <1>5
<1>8. QED BY <1>1, <1>2, <1>4, <1>6, <1>7 DEF Inherits, MetWhereTheyAre

----------------------------------------------------------------------------
(* The rubric.                                                             *)

\* Within the scale, the semantic layer earns at most what it weighs.
LEMMA CreditIs ==
  ASSUME NEW l \in Lines, l.grades # Ungraded, ~OutOfScale(l)
  PROVE  Credit(l.grades) \in 0..52
<1>1. l.grades \in Graded
  BY Zenon DEF Lines
<1>2. l.grades \in [Heavy \cup Light -> 0..9]
  BY <1>1, VoiceAssumption
<1>3. \A d \in Heavy \cup Light : l.grades[d] \in 0..2
  BY <1>2 DEF OutOfScale
<1>4. /\ l.grades.flat_declarative \in 0..2 /\ l.grades.calm_foreknowledge \in 0..2
      /\ l.grades.earned_not_overt \in 0..2
      /\ l.grades.role_address \in 0..2 /\ l.grades.ceremony \in 0..2
  BY <1>3 DEF Heavy, Light
<1>5. QED BY <1>4 DEF Credit

\* While the grades keep to the scale, an offer of service weighs more than all else earns.
LEMMA OffersNeverPass ==
  ASSUME NEW l \in Lines, Passed(l), ~OutOfScale(l)
  PROVE  ~l.offers
<1> SUFFICES ASSUME l.offers PROVE FALSE
  OBVIOUS
<1>1. ~l.quotes /\ 10 * Earned(l) >= 7 * Total(l)
  BY DEF Passed, HardFail
<1>2. PICK base \in 0..68 :
        Earned(l) = base + If(l.grades # Ungraded, Credit(l.grades))
  <2>1. If(l.terse, 8) + If(~l.hedges, 16) + If(~l.asks, 4) + If(l.motif, 20)
          + If(~l.gushes, 16) + If(l.double, 4) \in 0..68
    BY DEF If
  <2>2. QED BY <2>1 DEF Earned
<1>3. Total(l) = 124 + If(l.grades # Ungraded, 52)
  BY <1>1 DEF Total, If, OfferWeight
<1>4. CASE l.grades = Ungraded
  BY <1>1, <1>2, <1>3, <1>4 DEF If
<1>5. CASE l.grades # Ungraded
  <2>1. PICK c \in 0..52 : c = Credit(l.grades)
    BY <1>5, CreditIs
  <2>2. If(l.grades # Ungraded, 52) = 52
    BY <1>5 DEF If
  <2>3. If(l.grades # Ungraded, Credit(l.grades)) = c
    BY <1>5, <2>1 DEF If
  <2>4. Earned(l) = base + c /\ Total(l) = 176
    BY <1>2, <1>3, <2>2, <2>3
  <2>5. QED BY <1>1, <2>1, <2>4
<1>6. QED BY <1>4, <1>5

\* Ungraded, a line has no grade beyond the scale, and nothing makes up for a motif.
LEMMA MotifNeeded ==
  ASSUME NEW l \in Lines, Passed(l), l.grades = Ungraded
  PROVE  l.motif
<1> SUFFICES ASSUME ~l.motif PROVE FALSE
  BY DEF Lines
<1>1. ~OutOfScale(l)
  BY DEF OutOfScale, Ungraded
<1>2. ~l.quotes /\ ~l.offers /\ ~l.double /\ 10 * Earned(l) >= 7 * Total(l)
  BY <1>1, OffersNeverPass DEF Passed, HardFail, Lines
<1>3. Earned(l) \in 0..44
  BY <1>2 DEF Earned, If
<1>4. Total(l) = 68
  BY <1>2 DEF Total, If
<1>5. QED BY <1>2, <1>3, <1>4

\* A compose is of one of three kinds, and never an answer's.
Composing ==
  /\ call.mode \in {"passive", "proactive", "drift", None}
  /\ call = [mode |-> call.mode, n |-> call.n, best |-> call.best]

LEMMA ComposingStep == ASSUME Composing, [Next]_vars PROVE Composing'
<1>1. PICK mode, tries, top :
        /\ mode \in {"passive", "proactive", "drift", None}
        /\ call = [mode |-> mode, n |-> tries, best |-> top]
  BY DEF Composing
<1>2. CASE Attempts
  <2>1. \/ call' = NoCall
        \/ \E n, best : call' = [call EXCEPT !.n = n, !.best = best]
    BY <1>2 DEF Attempts, Says
  <2>2. CASE call' = NoCall
    BY <2>2 DEF NoCall, Composing
  <2>3. ASSUME NEW n, NEW best, call' = [call EXCEPT !.n = n, !.best = best]
        PROVE  Composing'
    <3>1. call' = [mode |-> mode, n |-> n, best |-> best]
      BY <1>1, <2>3
    <3>2. call'.mode = mode /\ call'.n = n /\ call'.best = best
      BY <3>1
    <3>3. QED BY <1>1, <3>1, <3>2 DEF Composing
  <2>4. QED BY <2>1, <2>2, <2>3
<1>3. CASE Composes
  <2>1. PICK new \in {"passive", "proactive", "drift"} : call' = [NoCall EXCEPT !.mode = new]
    BY <1>3 DEF Composes
  <2>2. call' = [mode |-> new, n |-> 0, best |-> Unsaid]
    BY <2>1 DEF NoCall
  <2>3. QED BY <2>2 DEF Composing
<1>4. CASE Declines \/ Notes \/ Raises \/ Restarts
  BY <1>4 DEF Declines, Notes, Raises, Restarts, Says, NoCall, Composing
<1>5. CASE Hears \/ Revoices \/ Rests \/ UNCHANGED vars
  BY <1>5 DEF Hears, Revoices, Rests, vars, Composing
<1>6. QED BY <1>2, <1>3, <1>4, <1>5 DEF Next

LEMMA AttemptsStep ==
  ASSUME Attempts
  PROVE  said' = said \/ (FitToSay' /\ said'.mode \in {"passive", "proactive"})
<1>1. PICK l \in Lines :
        \/ Passed(l) /\ said' = [mode |-> call.mode, how |-> "passed", line |-> l]
        \/ said' = said
        \/ \E best : said' = Settles(best)
  BY DEF Attempts, Says
<1> call.mode \in {"passive", "proactive"}
  BY DEF Attempts
<1>2. CASE Passed(l) /\ said' = [mode |-> call.mode, how |-> "passed", line |-> l]
  <2>1. said'.line = l /\ said'.how = "passed" /\ said'.mode = call.mode
    BY <1>2
  <2>2. /\ l.offers => OutOfScale(l)
        /\ ~HardFail(l) /\ (l.grades = Ungraded => l.motif)
    BY <1>2, OffersNeverPass, MotifNeeded DEF Passed
  <2>3. QED BY <2>1, <2>2 DEF FitToSay
<1>3. ASSUME NEW best, said' = Settles(best)
      PROVE  FitToSay' /\ said'.mode \in {"passive", "proactive"}
  <2>1. CASE call.mode = "proactive"
    BY <1>3, <2>1 DEF Settles, Silent, FitToSay
  <2>2. CASE call.mode # "proactive" /\ HardFail(best)
    BY <1>3, <2>2 DEF Settles, FitToSay
  <2>3. CASE call.mode # "proactive" /\ ~HardFail(best)
    <3>1. said'.mode = "passive" /\ said'.how = "best" /\ said'.line = best
      BY <1>3, <2>3 DEF Settles
    <3>2. QED BY <2>3, <3>1 DEF FitToSay
  <2>4. QED BY <2>1, <2>2, <2>3
<1>4. QED BY <1>1, <1>2, <1>3

\* What the other outcomes of a compose are.
LEMMA OutcomesAre ==
  /\ Unsaid.mode = None
  /\ \A mode : Silent(mode).mode = mode /\ Silent(mode).how = "silent"
  BY DEF Unsaid, Silent

----------------------------------------------------------------------------
(* An answer, revoiced.                                                    *)

\* A number that is lost, or a name of a sentence that is not excused, is found out.
LEMMA NothingLost ==
  ASSUME NEW a \in Answers, NEW text, Lost(a.says, text) = {}
  PROVE  /\ \A t \in Nums(a.says) : Found(text, t)
         /\ \A x \in a.says :
              (\A t \in x.names : Found(text, t)) \/ Excused(x, text)
<1>1. Gone(Nums(a.says), text) = {}
  BY DEF Lost
<1>2. ASSUME NEW x \in a.says, ~Excused(x, text)
      PROVE  Gone(x.names, text) = {}
  <2>1. x \in {y \in a.says : ~Excused(y, text)}
    BY <1>2
  <2>2. Gone(x.names, text) \subseteq Lost(a.says, text)
    BY <2>1 DEF Lost
  <2>3. QED BY <2>2
<1>3. QED BY <1>1, <1>2 DEF Gone

LEMMA RevoicesStep ==
  ASSUME Revoices
  PROVE  FactsSurvive' /\ said'.mode = "answer"
<1>1. PICK a \in Answers :
        \/ said' = [mode |-> "answer", of |-> a, text |-> Plainly(a)]
        \/ \E out \in Voiced : \E links \in Relinked(a.links, out) :
             LET text == [out EXCEPT !.links = links] IN
             said' = [mode |-> "answer", of |-> a,
                      text |-> IF Lost(a.says, text) # {} THEN Plainly(a) ELSE text]
  BY DEF Revoices
<1>2. CASE said' = [mode |-> "answer", of |-> a, text |-> Plainly(a)]
  <2>1. said'.text = Plainly(a) /\ said'.of = a /\ said'.mode = "answer"
    BY <1>2
  <2>2. Plainly(a).says = Names(a.says) \cup Nums(a.says) /\ Plainly(a).links = a.links
    BY DEF Plainly
  <2>3. \A l \in a.links : Holds(a.links, l)
    BY DEF Holds
  <2>4. \A t \in Nums(a.says) : Found(Plainly(a), t)
    BY <2>2 DEF Found
  <2>5. \A x \in a.says : \A t \in x.names : Found(Plainly(a), t)
    BY <2>2 DEF Found, Names
  <2>6. QED BY <2>1, <2>2, <2>3, <2>4, <2>5 DEF FactsSurvive
<1>3. ASSUME NEW out \in Voiced, NEW links \in Relinked(a.links, out), NEW text,
             text = [out EXCEPT !.links = links], Lost(a.says, text) = {},
             said' = [mode |-> "answer", of |-> a, text |-> text]
      PROVE  FactsSurvive' /\ said'.mode = "answer"
  <2>1. said'.text = text /\ said'.of = a /\ said'.mode = "answer"
    BY <1>3
  <2>2. text.links = links
    BY <1>3 DEF Voiced
  <2>3. links \subseteq a.links /\ \A l \in a.links : Holds(links, l)
    BY DEF Relinked
  <2>4. QED BY <1>3, <2>1, <2>2, <2>3, NothingLost DEF FactsSurvive
<1>4. QED BY <1>1, <1>2, <1>3

----------------------------------------------------------------------------
(* The theorems.                                                           *)

Inv == Inherits /\ Composing /\ MetWhereTheyAre /\ FitToSay /\ FactsSurvive

\* In every behaviour, whatever is heard, composed and revoiced, the invariant holds.
THEOREM InvHolds == Spec => []Inv
<1>1. Init => Inv
  <2> SUFFICES ASSUME Init PROVE Inv
    OBVIOUS
  <2>1. Composing
    BY DEF Init, NoCall, Composing
  <2>2. Inherits /\ MetWhereTheyAre /\ FitToSay /\ FactsSurvive
    BY DEF Init, Inherits, MetWhereTheyAre, FitToSay, FactsSurvive, Unsaid, None
  <2>3. QED BY <2>1, <2>2 DEF Inv
<1>2. Inv /\ [Next]_vars => Inv'
  <2> SUFFICES ASSUME Inv, [Next]_vars PROVE Inv'
    OBVIOUS
  <2> Composing'
    BY ComposingStep DEF Inv
  <2>1. CASE Hears
    <3>1. said' = said
      BY <2>1 DEF Hears
    <3>2. QED BY <2>1, <3>1, HearsStep DEF Inv, FitToSay, FactsSurvive
  <2>2. CASE Composes \/ UNCHANGED vars
    BY <2>2 DEF Composes, vars, Inv, Inherits, MetWhereTheyAre, FitToSay, FactsSurvive
  <2>3. CASE Declines \/ Notes \/ Raises
    <3>1. UNCHANGED <<register, felt, met>>
      BY <2>3 DEF Declines, Notes, Raises
    <3>2. \/ said' = Silent(call.mode) /\ call.mode \in {"passive", "proactive", "drift", None}
          \/ said' = [mode |-> "drift", how |-> "note"]
          \/ said' = Unsaid
      BY <2>3 DEF Declines, Notes, Raises, Says, Inv, Composing
    <3>3. QED BY <3>1, <3>2, OutcomesAre
              DEF Inv, Inherits, MetWhereTheyAre, FitToSay, FactsSurvive, None
  <2>4. CASE Attempts
    <3>1. UNCHANGED <<register, felt, met>>
      BY <2>4 DEF Attempts
    <3>2. QED BY <2>4, <3>1, AttemptsStep
              DEF Inv, Inherits, MetWhereTheyAre, FitToSay, FactsSurvive
  <2>5. CASE Revoices
    <3>1. UNCHANGED <<register, felt, met>>
      BY <2>5 DEF Revoices
    <3>2. QED BY <2>5, <3>1, RevoicesStep DEF Inv, Inherits, MetWhereTheyAre, FitToSay
  <2>6. CASE Rests \/ Restarts
    BY <2>6 DEF Rests, Restarts, Unsaid, None,
                Inv, Inherits, MetWhereTheyAre, FitToSay, FactsSurvive
  <2>7. QED BY <2>1, <2>2, <2>3, <2>4, <2>5, <2>6 DEF Next
<1>3. QED BY <1>1, <1>2, PTL DEF Spec

\* A person is met where the last signal left them, whichever of the live model, the
\* words and the four classes of anchors gave it, and in the rarest register only with a
\* reversal behind it (server.py _converse, _resolve_turn, mood.py classify).
THEOREM AlwaysMet == Spec => []MetWhereTheyAre
<1>1. Inv => MetWhereTheyAre
  BY DEF Inv
<1>2. QED BY <1>1, InvHolds, PTL

\* Nothing is said that fails hard, and unbidden nothing below the mark; no offer of
\* service reaches it but by a grade beyond the scale the rubric asks for, which the code
\* does not refuse (voice_eval.py evaluate, compose.py compose).
THEOREM AlwaysFit == Spec => []FitToSay
<1>1. Inv => FitToSay
  BY DEF Inv
<1>2. QED BY <1>1, InvHolds, PTL

\* What an answer holds is found in what is said, in the voice or plainly, as far as
\* containment tells: a fact found inside another counts (compose.py revoice).
THEOREM AlwaysTrue == Spec => []FactsSurvive
<1>1. Inv => FactsSurvive
  BY DEF Inv
<1>2. QED BY <1>1, InvHolds, PTL

----------------------------------------------------------------------------
(* The log and the stream of it.                                           *)

----------------------------------------------------------------------------
(* Sequences.                                                              *)

Elements(s) == {s[k] : k \in 1..Len(s)}

LEMMA AppendIs ==
  ASSUME NEW S, NEW s \in Seq(S), NEW x \in S
  PROVE  /\ Append(s, x) \in Seq(S) /\ Len(Append(s, x)) = Len(s) + 1 /\ Len(s) \in Nat
         /\ \A k \in 1..Len(s) : Append(s, x)[k] = s[k]
         /\ Append(s, x)[Len(s) + 1] = x
         /\ Elements(Append(s, x)) = Elements(s) \cup {x}
<1>1. PICK t : t = Append(s, x)
  OBVIOUS
<1>2. /\ t \in Seq(S) /\ Len(t) = Len(s) + 1 /\ Len(s) \in Nat
      /\ \A k \in 1..Len(s) : t[k] = s[k]
      /\ t[Len(s) + 1] = x
  BY <1>1
<1>3. Elements(t) = Elements(s) \cup {x}
  BY <1>2 DEF Elements
<1>4. QED BY <1>1, <1>2, <1>3

LEMMA TailIs ==
  ASSUME NEW S, NEW s \in Seq(S), s # <<>>
  PROVE  /\ Tail(s) \in Seq(S) /\ Len(Tail(s)) = Len(s) - 1 /\ Len(s) \in Nat \ {0}
         /\ \A k \in 1..Len(Tail(s)) : Tail(s)[k] = s[k + 1]
         /\ Head(s) = s[1] /\ s[1] \in S
  OBVIOUS

LEMMA FrontIs ==
  ASSUME NEW S, NEW s \in Seq(S)
  PROVE  /\ SubSeq(s, 1, Len(s) - 1) \in Seq(S)
         /\ Len(SubSeq(s, 1, Len(s) - 1)) = IF s = <<>> THEN 0 ELSE Len(s) - 1
         /\ \A k \in 1..Len(SubSeq(s, 1, Len(s) - 1)) : SubSeq(s, 1, Len(s) - 1)[k] = s[k]
<1>1. CASE s = <<>>
  <2>1. SubSeq(s, 1, Len(s) - 1) = <<>>
    BY <1>1
  <2>2. QED BY <1>1, <2>1
<1>2. CASE s # <<>>
  <2>1. PICK n \in Nat : n = Len(s) - 1
    BY <1>2
  <2>2. /\ SubSeq(s, 1, n) \in Seq(S) /\ Len(SubSeq(s, 1, n)) = n
        /\ \A k \in 1..n : SubSeq(s, 1, n)[k] = s[k]
    BY <2>1
  <2>3. QED BY <1>2, <2>1, <2>2
<1>3. QED BY <1>1, <1>2

----------------------------------------------------------------------------
(* The inductive invariant.                                                *)

\* The lines of a log have the order of their ids, which is that of what was said.
Ordered(s) == \A j, k \in 1..Len(s) : j < k => s[j].id < s[k].id /\ s[j].what < s[k].what
Counted(s, n) == \A x \in Elements(s) : x.id <= x.what /\ x.what <= n

\* While the process runs, what parses in the file is in the log.
LogOK ==
  /\ Ordered(log) /\ Ordered(file) /\ Counted(log, spoken) /\ Counted(file, spoken)
  /\ IF up THEN Elements(file) \subseteq Elements(log) ELSE log = <<>>

GotOK(p) ==
  /\ \A f \in LinesGot(p) : got[p][f].what <= spoken
  /\ last[p] = 0 => LinesGot(p) = {}
  /\ last[p] # 0 => \E f \in LinesGot(p) : got[p][f].id = last[p]
  /\ \A j, k \in LinesGot(p) : j < k => got[p][j].what < got[p][k].what

\* What a replay may bring is later than all the page has, although an id that was lost
\* with its line is given again.
Ahead(p) == \A x \in Elements(log) \cup Elements(file), f \in LinesGot(p) :
              x.id > last[p] => x.what > got[p][f].what

\* The lines in a page's queue, by their places.
Queued(p) == {i \in 1..Len(queue[p]) : queue[p][i].id # 0}

\* What an open stream is to bring is in the log, the replay before the queue, and later
\* than all the page has.
StreamOK(p) ==
  IF stream[p] # "open" THEN queue[p] = <<>> /\ replay[p] = {}
  ELSE /\ up /\ replayed[p] <= LastId
       /\ \A i \in Queued(p) : \E k \in 1..Len(log) :
            queue[p][i] = log[k] /\ \A j \in replay[p] : j < k
       /\ \A i, j \in Queued(p) : i < j => queue[p][i].what < queue[p][j].what
       /\ \A i \in Queued(p) : /\ queue[p][i].id > replayed[p]
                               /\ \A f \in LinesGot(p) : queue[p][i].what > got[p][f].what
       /\ \A k \in replay[p] : /\ log[k].id > replayed[p]
                               /\ \A f \in LinesGot(p) : log[k].what > got[p][f].what

\* A line that is still to be brought: by the stream, or by the replay of the next one.
Coming(p, k) == IF stream[p] = "open"
                THEN k \in replay[p] \/ \E i \in Queued(p) : queue[p][i] = file[k]
                ELSE k > last[p]

\* As long as no line was lost to another, ids are places, and a page has, will have, or
\* is too late for every line after its first.
AllLogged ==
  /\ \A k \in 1..Len(file) : file[k] = [id |-> k, what |-> k]
  /\ up => log = file
  /\ tail = "clean" => spoken = Len(file)
Intact(p) ==
  /\ \A f \in LinesGot(p) : got[p][f].id = got[p][f].what /\ got[p][f].id <= Len(file)
  /\ stream[p] = "open" => \A j, k \in 1..Len(file) : j < k /\ Coming(p, j) => Coming(p, k)
  /\ \A k \in 1..Len(file), f \in LinesGot(p) :
       \/ k <= got[p][f].what \/ Has(p, file[k]) \/ Len(file) - k >= Limit
       \/ Coming(p, k)

PageOK(p) == GotOK(p) /\ Ahead(p) /\ StreamOK(p) /\ (~glued => Intact(p))
EventsInv == TypeOK /\ LogOK /\ (~glued => AllLogged) /\ \A p \in Pages : PageOK(p)

----------------------------------------------------------------------------
(* The log.                                                                *)

LEMMA Constants == MaxLines \in Nat /\ Asks \subseteq 1..MaxLines /\ Limit \in Nat \ {0}
                   /\ MaxBreaks \in Nat /\ MaxCrashes \in Nat
  BY EventsAssumption DEF Numbers

LEMMA LineIs ==
  /\ Line \subseteq Payload
  /\ \A x \in Line : x.id \in Nat \ {0} /\ x.what \in Nat \ {0} /\ x.id <= MaxLines /\ x.what <= MaxLines
  /\ \A x \in Payload : x.id \in Nat /\ x.what \in Nat \ {0} /\ x.id <= MaxLines
                        /\ (x.id # 0 => x \in Line)
  BY Constants DEF Line, Payload, Numbers

\* The last id is the highest.
LEMMA LastIs ==
  ASSUME TypeOK, LogOK
  PROVE  /\ LastId \in Nat /\ LastId <= spoken /\ spoken \in Nat
         /\ \A k \in 1..Len(log) : log[k].id <= LastId
<1>1. log \in Seq(Line) /\ spoken \in Nat /\ Len(log) \in Nat
  BY Constants DEF TypeOK
<1>2. CASE log = <<>>
  BY <1>1, <1>2 DEF LastId
<1>3. CASE log # <<>>
  <2>1. Len(log) \in 1..Len(log) /\ LastId = log[Len(log)].id
    BY <1>1, <1>3 DEF LastId
  <2>2. \A k \in 1..Len(log) : log[k] \in Line
    BY <1>1
  <2>3. LastId \in Nat /\ LastId <= spoken
    BY <1>1, <2>1, <2>2, LineIs DEF LogOK, Counted, Elements
  <2>4. ASSUME NEW k \in 1..Len(log) PROVE log[k].id <= LastId
    <3>1. k = Len(log) \/ k < Len(log)
      BY <1>1
    <3>2. QED BY <2>1, <2>2, <2>3, <3>1, LineIs DEF LogOK, Ordered
  <2>5. QED BY <1>1, <2>3, <2>4
<1>4. QED BY <1>2, <1>3

\* A new line is later than all others, by its id and by what it says.
LEMMA SaidIs ==
  ASSUME TypeOK, LogOK, up, spoken < MaxLines
  PROVE  /\ Said \in Line /\ Said.id = LastId + 1 /\ Said.what = spoken + 1 /\ Said.id <= Said.what
         /\ \A x \in Elements(log) \cup Elements(file) : x.id < Said.id /\ x.what < Said.what
<1>1. /\ Said.id = LastId + 1 /\ Said.what = spoken + 1 /\ LastId \in Nat /\ spoken \in Nat
      /\ LastId <= spoken
  BY LastIs DEF Said, NextId
<1>2. Said \in Line
  BY <1>1, Constants DEF Said, NextId, Line, Numbers
<1>3. ASSUME NEW x \in Elements(log) PROVE x.id < Said.id /\ x.what < Said.what
  <2>1. x \in Line
    BY DEF TypeOK, Elements
  <2>2. x.id <= LastId /\ x.what <= spoken
    BY LastIs DEF LogOK, Counted, Elements
  <2>3. QED BY <1>1, <2>1, <2>2, LineIs
<1>4. QED BY <1>1, <1>2, <1>3 DEF LogOK

\* What an append leaves of the file.
LEMMA ParsedIs ==
  ASSUME TypeOK, LogOK
  PROVE  /\ Parsed \in Seq(Line) /\ Ordered(Parsed) /\ Elements(Parsed) \subseteq Elements(file)
         /\ tail # "unended" => Parsed = file
<1>1. file \in Seq(Line) /\ Ordered(file)
  BY DEF TypeOK, LogOK
<1>2. PICK s : s = SubSeq(file, 1, Len(file) - 1)
  OBVIOUS
<1>3. /\ s \in Seq(Line) /\ Len(s) = IF file = <<>> THEN 0 ELSE Len(file) - 1
      /\ \A k \in 1..Len(s) : s[k] = file[k]
  BY <1>1, <1>2, FrontIs
<1>4. \A k \in 1..Len(s) : k \in 1..Len(file)
  BY <1>1, <1>3
<1>5. Ordered(s) /\ Elements(s) \subseteq Elements(file)
  BY <1>1, <1>3, <1>4 DEF Ordered, Elements
<1>6. QED BY <1>1, <1>2, <1>3, <1>5 DEF Parsed

LEMMA OrderedAppend ==
  ASSUME NEW s \in Seq(Line), Ordered(s), NEW x \in Line,
         \A y \in Elements(s) : y.id < x.id /\ y.what < x.what
  PROVE  Ordered(Append(s, x))
<1>1. PICK t : t = Append(s, x)
  OBVIOUS
<1>2. /\ Len(t) = Len(s) + 1 /\ Len(s) \in Nat /\ t[Len(s) + 1] = x
      /\ \A k \in 1..Len(s) : t[k] = s[k]
  BY <1>1, AppendIs
<1>3. ASSUME NEW j \in 1..Len(t), NEW k \in 1..Len(t), j < k
      PROVE  t[j].id < t[k].id /\ t[j].what < t[k].what
  <2>1. j \in 1..Len(s) /\ (k \in 1..Len(s) \/ k = Len(s) + 1)
    BY <1>2, <1>3
  <2>2. QED BY <1>2, <1>3, <2>1 DEF Ordered, Elements
<1>4. QED BY <1>1, <1>3 DEF Ordered

LEMMA WrittenIs ==
  ASSUME TypeOK, LogOK, up, spoken < MaxLines
  PROVE  /\ Written(Said) \in Seq(Line) /\ Ordered(Written(Said))
         /\ Elements(Written(Said)) \subseteq Elements(file) \cup {Said}
         /\ tail = "clean" => /\ Written(Said) = Append(file, Said)
                              /\ Elements(Written(Said)) = Elements(file) \cup {Said}
<1>1. file \in Seq(Line) /\ Ordered(file)
  BY DEF TypeOK, LogOK
<1>2. PICK x \in Line : x = Said
  BY SaidIs
<1>3. Ordered(Append(file, x)) /\ Append(file, x) \in Seq(Line)
      /\ Elements(Append(file, x)) = Elements(file) \cup {x}
  BY <1>1, <1>2, SaidIs, OrderedAppend, AppendIs
<1>4. QED BY <1>2, <1>3, ParsedIs DEF Written

LEMMA EmptyLog == Ordered(<<>>) /\ \A n : Counted(<<>>, n)
  BY DEF Ordered, Counted, Elements

LEMMA LogStays ==
  ASSUME LogOK, UNCHANGED <<up, spoken, log, file>>
  PROVE  LogOK'
  BY DEF LogOK, Ordered, Counted, Elements

LEMMA SpeakLog ==
  ASSUME TypeOK, LogOK, Speak
  PROVE  LogOK' /\ Elements(file') \subseteq Elements(file) \cup {Said} /\ Elements(log') = Elements(log) \cup {Said}
<1>1. /\ up /\ spoken < MaxLines /\ spoken' = spoken + 1 /\ up' = up
      /\ log' = Append(log, Said) /\ file' = Written(Said)
  BY DEF Speak
<1>2. log \in Seq(Line) /\ file \in Seq(Line) /\ spoken \in Nat
  BY DEF TypeOK
<1>3. /\ Ordered(log') /\ Ordered(file')
      /\ Elements(file') \subseteq Elements(file) \cup {Said} /\ Elements(log') = Elements(log) \cup {Said}
  BY <1>1, <1>2, SaidIs, WrittenIs, OrderedAppend, AppendIs DEF LogOK
<1>4. Counted(log', spoken') /\ Counted(file', spoken')
  <2>1. \A x \in Elements(log) \cup Elements(file) : x \in Line /\ x.id <= x.what /\ x.what <= spoken
    BY <1>2 DEF LogOK, Counted, Elements
  <2>2. Said \in Line /\ Said.id <= Said.what /\ Said.what = spoken + 1
    BY <1>1, SaidIs
  <2>3. \A x \in Elements(log) \cup Elements(file) \cup {Said} : x.id <= x.what /\ x.what <= spoken + 1
    BY <1>2, <2>1, <2>2, LineIs
  <2>4. QED BY <1>1, <1>3, <2>3 DEF Counted
<1>5. Elements(file') \subseteq Elements(log')
  BY <1>1, <1>3 DEF LogOK
<1>6. QED BY <1>1, <1>3, <1>4, <1>5 DEF LogOK, Ordered, Counted, Elements

\* A death leaves the file as it was, or with the line that was being written.
Dies == Crash \/ \E end \in {"torn", "unended", "clean"} : CrashInRecord(end)

LEMMA DiesDoes ==
  ASSUME TypeOK, LogOK, Dies
  PROVE  /\ Down /\ LogOK' /\ file' \in Seq(Line) /\ spoken' \in 0..MaxLines /\ spoken <= spoken'
         /\ \A x \in Elements(file') : x \in Elements(file) \/ x.what > spoken
<1>1. Down /\ up /\ up' = FALSE /\ log' = <<>>
  BY DEF Dies, Crash, CrashInRecord, Down
<1>2. file \in Seq(Line) /\ spoken \in 0..MaxLines /\ MaxLines \in Nat /\ Ordered(file)
  BY Constants DEF TypeOK, LogOK
<1>3. CASE UNCHANGED <<spoken, file>>
  <2>1. Ordered(file') /\ Counted(file', spoken')
    BY <1>3 DEF LogOK
  <2>2. QED BY <1>1, <1>2, <1>3, <2>1, EmptyLog DEF LogOK
<1>4. ASSUME spoken < MaxLines, spoken' = spoken + 1, file' \in {Parsed, Written(Said)}
      PROVE  /\ LogOK' /\ file' \in Seq(Line)
             /\ \A x \in Elements(file') : x \in Elements(file) \/ x.what > spoken
  <2>1. /\ file' \in Seq(Line) /\ Ordered(file')
        /\ Elements(file') \subseteq Elements(file) \cup {Said}
    BY <1>1, <1>4, ParsedIs, WrittenIs
  <2>2. Said \in Line /\ Said.id <= Said.what /\ Said.what = spoken + 1
    BY <1>1, <1>4, SaidIs
  <2>3. \A x \in Elements(file) : x \in Line /\ x.id <= x.what /\ x.what <= spoken
    BY <1>2 DEF LogOK, Counted, Elements
  <2>4. Counted(file', spoken')
    <3>1. \A x \in Elements(file) \cup {Said} : x.id <= x.what /\ x.what <= spoken + 1
      BY <1>2, <2>2, <2>3, LineIs
    <3>2. QED BY <1>4, <2>1, <3>1 DEF Counted
  <2>5. \A x \in Elements(file') : x \in Elements(file) \/ x.what > spoken
    BY <1>2, <2>1, <2>2
  <2>6. QED BY <1>1, <2>1, <2>4, <2>5, EmptyLog DEF LogOK
<1>5. Crash \/ (spoken < MaxLines /\ spoken' = spoken + 1 /\ file' \in {Parsed, Written(Said)})
  BY DEF Dies, CrashInRecord
<1>6. QED BY <1>1, <1>2, <1>3, <1>4, <1>5 DEF Crash

LEMMA BootLog ==
  ASSUME TypeOK, LogOK, Boot
  PROVE  LogOK' /\ log' = file
<1>1. up' = TRUE /\ log' = file /\ file' = file /\ spoken' = spoken
  BY DEF Boot, Loaded
<1>2. QED BY <1>1 DEF LogOK

----------------------------------------------------------------------------
(* The steps keep the types.                                               *)

LEMMA SaidTypes ==
  ASSUME TypeOK, LogOK, up, spoken < MaxLines
  PROVE  Said \in Line /\ Said \in Payload /\ spoken + 1 \in 0..MaxLines
BY SaidIs, LineIs, Constants DEF TypeOK

LEMMA PushTypes ==
  ASSUME TypeOK, NEW x \in Payload, Push(x)
  PROVE  queue' \in [Pages -> Seq(Payload)]
<1>1. \A p \in Pages : queue[p] \in Seq(Payload) /\ Put(queue[p], x) \in Seq(Payload)
  BY DEF TypeOK, Put
<1>2. QED BY <1>1 DEF Push

LEMMA ReceiveTypes ==
  ASSUME TypeOK, NEW p \in Pages, NEW x \in Payload, NEW open \in SUBSET Asks, Receive(p, x, open)
  PROVE  /\ got' \in [Pages -> Seq(Payload)] /\ last' \in [Pages -> 0..MaxLines]
         /\ live' \in [Pages -> SUBSET Asks]
<1>1. Append(got[p], x) \in Seq(Payload) /\ x.id \in 0..MaxLines
  BY Constants, LineIs DEF TypeOK
<1>2. /\ got' = [got EXCEPT ![p] = Append(got[p], x)]
      /\ last' = [last EXCEPT ![p] = IF x.id = 0 THEN last[p] ELSE x.id]
      /\ live' = [live EXCEPT ![p] = IF x.what \in open THEN live[p] \cup {x.what} ELSE live[p] \ {x.what}]
  BY DEF Receive
<1>3. got' \in [Pages -> Seq(Payload)] /\ last' \in [Pages -> 0..MaxLines]
  BY <1>1, <1>2 DEF TypeOK
<1>4. (IF x.what \in open THEN live[p] \cup {x.what} ELSE live[p] \ {x.what}) \in SUBSET Asks
  BY DEF TypeOK
<1>5. QED BY <1>2, <1>3, <1>4 DEF TypeOK

LEMMA TypeStep ==
  ASSUME TypeOK, LogOK, \A p \in Pages : StreamOK(p), [EventsNext]_events
  PROVE  TypeOK'
<1>0. /\ log \in Seq(Line) /\ Len(log) \in Nat /\ MaxLines \in Nat /\ MaxBreaks \in Nat /\ MaxCrashes \in Nat
      /\ \A p \in Pages : replay[p] \subseteq 1..Len(log) /\ queue[p] \in Seq(Payload)
  BY Constants DEF TypeOK
<1>1. CASE Speak
  <2>1. Said \in Line /\ Said \in Payload /\ spoken + 1 \in 0..MaxLines /\ Written(Said) \in Seq(Line)
    BY <1>1, SaidTypes, WrittenIs DEF Speak
  <2>2. queue' \in [Pages -> Seq(Payload)]
    BY <1>1, <2>1, PushTypes DEF Speak
  <2>3. log' \in Seq(Line) /\ file' \in Seq(Line) /\ spoken' \in 0..MaxLines /\ tail' = "clean"
    BY <1>0, <1>1, <2>1, AppendIs DEF Speak
  <2>4. glued' \in BOOLEAN
    BY <1>1 DEF TypeOK, Speak
  <2>5. replay' \in [Pages -> SUBSET (1..Len(log'))]
    <3>1. 1..Len(log) \subseteq 1..Len(log')
      BY <1>0, <1>1, <2>1, AppendIs DEF Speak
    <3>2. QED BY <1>1, <3>1 DEF TypeOK, Speak
  <2>6. QED BY <1>1, <2>2, <2>3, <2>4, <2>5 DEF TypeOK, Speak, page
<1>2. ASSUME NEW u \in Asks, Decide(u) PROVE TypeOK'
  <2>1. [id |-> 0, what |-> u] \in Payload
    BY Constants DEF Payload, Numbers
  <2>2. queue' \in [Pages -> Seq(Payload)]
    BY <1>2, <2>1, PushTypes DEF Decide
  <2>3. QED BY <1>2, <2>2 DEF TypeOK, Decide, logs, page
<1>3. ASSUME NEW p \in Pages, Connect(p) PROVE TypeOK'
  <2>1. (IF last[p] = 0 THEN {} ELSE After(last[p])) \in SUBSET (1..Len(log))
    BY DEF After, Recent
  <2>2. /\ replay' \in [Pages -> SUBSET (1..Len(log))]
        /\ stream' \in [Pages -> {"new", "open", "down"}] /\ replayed' \in [Pages -> 0..MaxLines]
    BY <1>0, <1>3, <2>1 DEF TypeOK, Connect
  <2>3. QED BY <1>3, <2>2 DEF TypeOK, Connect, logs, page
<1>4. ASSUME NEW p \in Pages, Replay(p) PROVE TypeOK'
  <2>1. PICK k \in replay[p] :
          /\ Receive(p, log[k], Asks \ decided)
          /\ replayed' = [replayed EXCEPT ![p] = log[k].id]
          /\ replay' = [replay EXCEPT ![p] = @ \ {k}]
    BY <1>4 DEF Replay
  <2>2. k \in 1..Len(log) /\ log[k] \in Line /\ log[k] \in Payload /\ log[k].id \in 0..MaxLines
    BY <1>0, <2>1, LineIs
  <2>3. /\ got' \in [Pages -> Seq(Payload)] /\ last' \in [Pages -> 0..MaxLines]
        /\ live' \in [Pages -> SUBSET Asks]
    BY <2>1, <2>2, ReceiveTypes
  <2>4. replayed' \in [Pages -> 0..MaxLines]
    BY <2>1, <2>2 DEF TypeOK
  <2>5. replay' \in [Pages -> SUBSET (1..Len(log))]
    BY <2>1 DEF TypeOK
  <2>6. QED BY <1>4, <2>3, <2>4, <2>5 DEF TypeOK, Replay, logs
<1>5. ASSUME NEW p \in Pages, Took(p), Next1(p) PROVE queue' \in [Pages -> Seq(Payload)]
  <2>1. Tail(queue[p]) \in Seq(Payload)
    BY <1>0, <1>5, TailIs DEF Next1
  <2>2. QED BY <1>5, <2>1 DEF TypeOK, Took
<1>6. ASSUME NEW p \in Pages, Skip(p) PROVE TypeOK'
  <2>1. queue' \in [Pages -> Seq(Payload)]
    BY <1>5, <1>6 DEF Skip
  <2>2. QED BY <1>6, <2>1 DEF TypeOK, Skip, Took, logs, page
<1>7. ASSUME NEW p \in Pages, Send(p) PROVE TypeOK'
  <2>1. queue' \in [Pages -> Seq(Payload)]
    BY <1>5, <1>7 DEF Send
  <2>2. PICK x : x = Head(queue[p])
    OBVIOUS
  <2>3. x \in Payload
    BY <1>0, <1>7, <2>2, TailIs DEF Send, Next1
  <2>4. PICK open \in SUBSET Asks : Receive(p, x, open)
    BY <1>7, <2>2 DEF Send
  <2>5. /\ got' \in [Pages -> Seq(Payload)] /\ last' \in [Pages -> 0..MaxLines]
        /\ live' \in [Pages -> SUBSET Asks]
    BY <2>3, <2>4, ReceiveTypes
  <2>6. QED BY <1>7, <2>1, <2>5 DEF TypeOK, Send, Took, logs
<1>8. ASSUME NEW p \in Pages, Break(p) PROVE TypeOK'
  <2>1. breaks' \in 0..MaxBreaks
    BY <1>0, <1>8 DEF TypeOK, Break
  <2>2. /\ stream' \in [Pages -> {"new", "open", "down"}] /\ queue' \in [Pages -> Seq(Payload)]
        /\ replay' \in [Pages -> SUBSET (1..Len(log))]
    BY <1>8 DEF TypeOK, Break
  <2>3. QED BY <1>8, <2>1, <2>2 DEF TypeOK, Break, logs, page
<1>9. CASE Dies
  <2>1. Down /\ file' \in Seq(Line) /\ spoken' \in 0..MaxLines
    BY <1>9, DiesDoes
  <2>2. tail' \in {"clean", "torn", "unended"} /\ glued' \in BOOLEAN
    BY <1>9 DEF Dies, Crash, CrashInRecord, TypeOK
  <2>3. crashes' \in 0..MaxCrashes
    BY <1>0, <2>1 DEF TypeOK, Down
  <2>4. /\ log' \in Seq(Line) /\ stream' \in [Pages -> {"new", "open", "down"}]
        /\ queue' \in [Pages -> Seq(Payload)] /\ replay' \in [Pages -> SUBSET (1..Len(log'))]
    BY <2>1 DEF TypeOK, Down
  <2>5. /\ up' = FALSE /\ breaks' \in 0..MaxBreaks /\ decided' \subseteq Asks
        /\ got' \in [Pages -> Seq(Payload)] /\ live' \in [Pages -> SUBSET Asks]
        /\ replayed' \in [Pages -> 0..MaxLines] /\ last' \in [Pages -> 0..MaxLines]
    BY <2>1 DEF TypeOK, Down, page
  <2>6. QED BY <2>1, <2>2, <2>3, <2>4, <2>5 DEF TypeOK
<1>10. CASE Boot
  <2>1. log' = file /\ replay' = replay /\ up = FALSE
    BY <1>10, BootLog DEF TypeOK, Boot, streams
  <2>2. \A p \in Pages : replay[p] = {}
    BY <2>1 DEF StreamOK
  <2>3. replay' \in [Pages -> SUBSET (1..Len(log'))]
    BY <2>1, <2>2 DEF TypeOK
  <2>4. log' \in Seq(Line)
    BY <2>1 DEF TypeOK
  <2>5. QED BY <1>10, <2>3, <2>4 DEF TypeOK, Boot, streams, page
<1>11. CASE UNCHANGED events
  BY <1>11 DEF TypeOK, events, logs, streams, page
<1>12. QED
  BY <1>1, <1>2, <1>3, <1>4, <1>6, <1>7, <1>8, <1>9, <1>10, <1>11 DEF EventsNext, Dies

----------------------------------------------------------------------------
(* As long as no line was lost to another, ids are places.                 *)

LEMMA WholeSaid ==
  ASSUME TypeOK, LogOK, AllLogged, up, spoken < MaxLines, tail = "clean"
  PROVE  /\ Said = [id |-> Len(file) + 1, what |-> Len(file) + 1] /\ log = file
         /\ Len(file) \in Nat /\ spoken = Len(file)
<1>1. log = file /\ spoken = Len(file) /\ Len(file) \in Nat /\ file \in Seq(Line)
  BY DEF AllLogged, TypeOK
<1>2. LastId = Len(file)
  <2>1. CASE file = <<>>
    BY <1>1, <2>1 DEF LastId
  <2>2. CASE file # <<>>
    <3>1. Len(file) \in 1..Len(file)
      BY <1>1, <2>2
    <3>2. file[Len(file)] = [id |-> Len(file), what |-> Len(file)]
      BY <3>1 DEF AllLogged
    <3>3. QED BY <1>1, <2>2, <3>2 DEF LastId
  <2>3. QED BY <2>1, <2>2
<1>3. QED BY <1>1, <1>2 DEF Said, NextId

LEMMA WholeLine ==
  ASSUME AllLogged
  PROVE  \A k \in 1..Len(file) : file[k].id = k /\ file[k].what = k
<1>1. ASSUME NEW k \in 1..Len(file) PROVE file[k].id = k /\ file[k].what = k
  <2>1. file[k] = [id |-> k, what |-> k]
    BY DEF AllLogged
  <2>2. QED BY <2>1
<1>2. QED BY <1>1

LEMMA WholeAppend ==
  ASSUME TypeOK, LogOK, AllLogged, up, spoken < MaxLines, tail = "clean"
  PROVE  \A k \in 1..Len(Append(file, Said)) : Append(file, Said)[k] = [id |-> k, what |-> k]
<1>1. PICK x \in Line : x = Said
  BY SaidIs
<1>2. file \in Seq(Line) /\ Len(file) \in Nat
  BY DEF TypeOK
<1>3. PICK t : t = Append(file, x)
  OBVIOUS
<1>4. Len(t) = Len(file) + 1 /\ t[Len(file) + 1] = x /\ \A k \in 1..Len(file) : t[k] = file[k]
  BY <1>2, <1>3, AppendIs
<1>5. ASSUME NEW k \in 1..Len(t) PROVE t[k] = [id |-> k, what |-> k]
  <2>1. k \in 1..Len(file) \/ k = Len(file) + 1
    BY <1>2, <1>4
  <2>2. QED BY <1>1, <1>4, <2>1, WholeSaid DEF AllLogged
<1>6. QED BY <1>1, <1>3, <1>5

LEMMA WholeStep ==
  ASSUME TypeOK, LogOK, ~glued => AllLogged, [EventsNext]_events, ~glued'
  PROVE  AllLogged'
<1>1. CASE UNCHANGED <<up, spoken, log, file, tail, glued>>
  BY <1>1 DEF AllLogged
<1>2. CASE Speak
  <2>1. ~glued /\ tail = "clean" /\ up /\ spoken < MaxLines /\ AllLogged
    BY <1>2 DEF Speak
  <2>2. file' = Append(file, Said) /\ log' = file' /\ spoken' = spoken + 1
    BY <1>2, <2>1, WholeSaid DEF Speak, Written
  <2>3. Len(file') = spoken'
    BY <2>1, <2>2, WholeSaid, SaidIs, AppendIs DEF TypeOK
  <2>4. QED BY <2>1, <2>2, <2>3, WholeAppend DEF AllLogged
<1>3. CASE Dies
  <2>1. CASE Crash
    <3>1. ~glued /\ UNCHANGED <<spoken, file, tail>> /\ up' = FALSE
      BY <2>1 DEF Crash, Down
    <3>2. QED BY <3>1 DEF AllLogged
  <2>2. ASSUME NEW end \in {"torn", "unended", "clean"}, CrashInRecord(end) PROVE AllLogged'
    <3>1. ~glued /\ tail = "clean" /\ up /\ spoken < MaxLines /\ AllLogged /\ up' = FALSE
      BY <2>2 DEF CrashInRecord, Down
    <3>2. spoken' = spoken + 1 /\ tail' = end
      BY <2>2, <3>1 DEF CrashInRecord
    <3>3. CASE end = "torn"
      BY <2>2, <3>1, <3>2, <3>3 DEF CrashInRecord, Parsed, AllLogged
    <3>4. CASE end # "torn"
      <4>1. file' = Append(file, Said)
        BY <2>2, <3>1, <3>4 DEF CrashInRecord, Written
      <4>2. Len(file') = spoken'
        BY <3>1, <3>2, <4>1, WholeSaid, SaidIs, AppendIs DEF TypeOK
      <4>3. QED BY <3>1, <4>1, <4>2, WholeAppend DEF AllLogged
    <3>5. QED BY <3>3, <3>4
  <2>3. QED BY <1>3, <2>1, <2>2 DEF Dies
<1>4. CASE Boot
  <2>1. ~glued /\ AllLogged /\ log' = file /\ file' = file /\ spoken' = spoken /\ tail' = tail
    BY <1>4, BootLog DEF Boot
  <2>2. QED BY <2>1 DEF AllLogged
<1>5. QED
  BY <1>1, <1>2, <1>3, <1>4
     DEF EventsNext, Dies, Decide, Connect, Replay, Skip, Send, Took, Break, events, logs

LEMMA LogStep ==
  ASSUME TypeOK, LogOK, [EventsNext]_events
  PROVE  LogOK'
<1>1. CASE UNCHANGED <<up, spoken, log, file>>
  BY <1>1, LogStays
<1>2. CASE Speak \/ Dies \/ Boot
  BY <1>2, SpeakLog, DiesDoes, BootLog
<1>3. QED
  BY <1>1, <1>2
     DEF EventsNext, Dies, Decide, Connect, Replay, Skip, Send, Took, Break, events, logs

----------------------------------------------------------------------------
(* What a page has got.                                                    *)

\* The page's lines, and the id it holds, are as they were.
SameGot(p) == /\ LinesGot(p)' = LinesGot(p) /\ last'[p] = last[p]
              /\ \A f \in LinesGot(p) : got'[p][f] = got[p][f]

\* The lines in its queue are as they were, in their places.
SameQueue(p) == /\ stream[p] # "open" => queue'[p] = queue[p]
                /\ Queued(p)' = Queued(p)
                /\ \A i \in Queued(p) : queue'[p][i] = queue[p][i]

LEMMA GotLine ==
  ASSUME TypeOK, NEW p \in Pages
  PROVE  /\ \A f \in LinesGot(p) : got[p][f] \in Line /\ f \in Nat \ {0}
         /\ got[p] \in Seq(Payload) /\ Len(got[p]) \in Nat /\ last[p] \in Nat
         /\ queue[p] \in Seq(Payload) /\ Len(queue[p]) \in Nat /\ replay[p] \subseteq 1..Len(log)
         /\ \A i \in Queued(p) : queue[p][i] \in Line /\ i \in Nat \ {0} /\ i \in 1..Len(queue[p])
         /\ log \in Seq(Line) /\ file \in Seq(Line) /\ Len(log) \in Nat /\ Len(file) \in Nat
         /\ \A x \in Elements(log) \cup Elements(file) : x \in Line
         /\ spoken \in Nat /\ replayed[p] \in Nat
<1>1. /\ got[p] \in Seq(Payload) /\ queue[p] \in Seq(Payload) /\ last[p] \in Nat
      /\ log \in Seq(Line) /\ file \in Seq(Line) /\ spoken \in Nat /\ replayed[p] \in Nat
      /\ replay[p] \subseteq 1..Len(log)
  BY Constants DEF TypeOK
<1>2. \A f \in LinesGot(p) : got[p][f] \in Line /\ f \in Nat \ {0}
  BY <1>1, LineIs DEF LinesGot
<1>3. \A i \in Queued(p) : queue[p][i] \in Line /\ i \in Nat \ {0} /\ i \in 1..Len(queue[p])
  BY <1>1, LineIs DEF Queued
<1>4. \A x \in Elements(log) \cup Elements(file) : x \in Line
  BY <1>1 DEF Elements
<1>5. QED BY <1>1, <1>2, <1>3, <1>4

LEMMA SameGotIs ==
  ASSUME NEW p \in Pages, UNCHANGED <<got, last>>
  PROVE  SameGot(p)
  BY DEF SameGot, LinesGot

LEMMA GotStays ==
  ASSUME TypeOK, NEW p \in Pages, SameGot(p), GotOK(p), spoken' \in Nat, spoken <= spoken'
  PROVE  GotOK(p)'
<1>1. \A f \in LinesGot(p) : got[p][f].what \in Nat
  BY GotLine, LineIs
<1>2. spoken \in Nat
  BY GotLine
<1>3. \A f \in LinesGot(p) : got[p][f].what <= spoken'
  BY <1>1, <1>2 DEF GotOK
<1>4. QED BY <1>3 DEF GotOK, SameGot

\* A log that grows grows by lines later than all.
LEMMA AheadStays ==
  ASSUME TypeOK, LogOK, NEW p \in Pages, SameGot(p), GotOK(p), Ahead(p),
         \A x \in Elements(log)' \cup Elements(file)' :
           x \in Elements(log) \cup Elements(file) \/ (x \in Line /\ x.what > spoken)
  PROVE  Ahead(p)'
<1>1. ASSUME NEW x \in Elements(log)' \cup Elements(file)', NEW f \in LinesGot(p), x.id > last[p]
      PROVE  x.what > got[p][f].what
  <2>1. CASE x \in Elements(log) \cup Elements(file)
    BY <1>1, <2>1 DEF Ahead
  <2>2. CASE x \in Line /\ x.what > spoken
    BY <2>2, GotLine, LineIs DEF GotOK
  <2>3. QED BY <1>1, <2>1, <2>2
<1>2. QED BY <1>1 DEF Ahead, SameGot

\* Nothing of the page's changes.
LEMMA PageStays ==
  ASSUME TypeOK, LogOK, NEW p \in Pages, PageOK(p), SameGot(p),
         stream'[p] = stream[p], SameQueue(p), replay'[p] = replay[p],
         replayed'[p] = replayed[p], UNCHANGED <<up, spoken, log, file, glued>>
  PROVE  PageOK(p)'
<1>1. GotOK(p)'
  BY GotStays, GotLine DEF PageOK
<1>2. Ahead(p)'
  BY AheadStays DEF PageOK, Elements
<1>3. StreamOK(p)'
  BY DEF PageOK, StreamOK, SameGot, SameQueue, LastId
<1>4. ASSUME ~glued' PROVE Intact(p)'
  <2>1. \A k : Coming(p, k)' <=> Coming(p, k)
    BY DEF Coming, SameGot, SameQueue
  <2>2. \A x : Has(p, x)' <=> Has(p, x)
    BY DEF Has, SameGot
  <2>3. Intact(p)
    BY <1>4 DEF PageOK
  <2>4. QED BY <2>1, <2>2, <2>3 DEF Intact, SameGot
<1>5. QED BY <1>1, <1>2, <1>3, <1>4 DEF PageOK

\* The id a page holds is one of a line it got; while ids are places, none is beyond the file.
LEMMA LastGot ==
  ASSUME TypeOK, NEW p \in Pages, PageOK(p), ~glued
  PROVE  /\ last[p] <= Len(file)
         /\ \A k \in Nat : (\A f \in LinesGot(p) : k > got[p][f].what) /\ k # 0 => k > last[p]
<1>1. Intact(p) /\ GotOK(p) /\ last[p] \in Nat /\ Len(file) \in Nat
  BY GotLine DEF PageOK
<1>2. CASE last[p] = 0
  BY <1>1, <1>2
<1>3. CASE last[p] # 0
  <2>1. PICK f \in LinesGot(p) : got[p][f].id = last[p]
    BY <1>1, <1>3 DEF GotOK
  <2>2. got[p][f].id = got[p][f].what /\ got[p][f].id <= Len(file)
    BY <1>1, <2>1 DEF Intact
  <2>3. QED BY <1>1, <2>1, <2>2
<1>4. QED BY <1>2, <1>3

\* A stream that closes, or stays closed, leaves what it had not brought to the next.
LEMMA Shut ==
  ASSUME TypeOK, LogOK, ~glued => AllLogged, NEW p \in Pages, PageOK(p), SameGot(p),
         stream'[p] # "open", queue'[p] = <<>>, replay'[p] = {},
         spoken' \in Nat, spoken <= spoken',
         \A x \in Elements(log)' \cup Elements(file)' :
           x \in Elements(log) \cup Elements(file) \/ (x \in Line /\ x.what > spoken),
         ~glued' => /\ ~glued /\ Len(file') \in Nat /\ Len(file) <= Len(file')
                    /\ \A k \in 1..Len(file) : file'[k] = file[k]
  PROVE  PageOK(p)'
<1>1. GotOK(p)' /\ Ahead(p)' /\ StreamOK(p)'
  <2>1. GotOK(p)'
    BY GotStays DEF PageOK
  <2>2. Ahead(p)'
    BY AheadStays DEF PageOK
  <2>3. StreamOK(p)'
    BY DEF StreamOK
  <2>4. QED BY <2>1, <2>2, <2>3
<1>2. ASSUME ~glued' PROVE Intact(p)'
  <2>1. /\ ~glued /\ AllLogged /\ Intact(p) /\ StreamOK(p)
        /\ Len(file') \in Nat /\ Len(file) \in Nat /\ Len(file) <= Len(file')
        /\ \A k \in 1..Len(file) : file'[k] = file[k]
    BY <1>2, GotLine DEF PageOK
  <2>2. \A k \in 1..Len(file) : Coming(p, k) => k > last[p]
    <3>1. ASSUME NEW k \in 1..Len(file), Coming(p, k), stream[p] = "open"
          PROVE  k > last[p]
      <4>1. file[k].what = k
        BY <2>1, <3>1, WholeLine
      <4>2. up /\ log = file
        BY <2>1, <3>1 DEF StreamOK, AllLogged
      <4>3. \A f \in LinesGot(p) : k > got[p][f].what
        BY <2>1, <3>1, <4>1, <4>2 DEF Coming, StreamOK
      <4>4. QED BY <2>1, <4>3, LastGot
    <3>2. ASSUME NEW k \in 1..Len(file), Coming(p, k), stream[p] # "open"
          PROVE  k > last[p]
      BY <3>2 DEF Coming
    <3>3. QED BY <3>1, <3>2
  <2>3. \A f \in LinesGot(p) : got'[p][f].id = got'[p][f].what /\ got'[p][f].id <= Len(file')
    <3>1. ASSUME NEW f \in LinesGot(p) PROVE got[p][f].id <= Len(file')
      <4>1. got[p][f].id \in Nat /\ got[p][f].id <= Len(file)
        BY <2>1, GotLine, LineIs DEF Intact
      <4>2. QED BY <2>1, <4>1
    <3>2. QED BY <2>1, <3>1 DEF SameGot, Intact
  <2>4. ASSUME NEW k \in 1..Len(file'), NEW f \in LinesGot(p)
        PROVE  \/ k <= got'[p][f].what \/ Has(p, file[k])' \/ Len(file') - k >= Limit
               \/ Coming(p, k)'
    <3>1. Coming(p, k)' <=> k > last[p]
      BY DEF Coming, SameGot
    <3>2. CASE k \in 1..Len(file)
      <4>1. \/ k <= got[p][f].what \/ Has(p, file[k]) \/ Len(file) - k >= Limit \/ Coming(p, k)
        BY <2>1, <2>4, <3>2 DEF Intact
      <4>2. Has(p, file[k]) => Has(p, file[k])'
        BY <2>1, <3>2 DEF Has, SameGot
      <4>3. Len(file) - k >= Limit => Len(file') - k >= Limit
        BY <2>1, <3>2, Constants
      <4>4. QED BY <2>2, <3>1, <3>2, <4>1, <4>2, <4>3 DEF SameGot
    <3>3. CASE k \notin 1..Len(file)
      BY <2>1, <3>1, <3>3, LastGot, GotLine
    <3>4. QED BY <3>2, <3>3
  <2>5. QED BY <2>3, <2>4 DEF Intact, SameGot
<1>3. QED BY <1>1, <1>2 DEF PageOK

LEMMA BreakPage ==
  ASSUME TypeOK, LogOK, ~glued => AllLogged, NEW p \in Pages, PageOK(p), Break(p)
  PROVE  PageOK(p)'
<1>1. stream'[p] = "down" /\ queue'[p] = <<>> /\ replay'[p] = {}
  BY DEF Break, TypeOK
<1>2. UNCHANGED <<got, last, spoken, log, file, glued>>
  BY DEF Break, logs, page
<1>3. Elements(log)' = Elements(log) /\ Elements(file)' = Elements(file)
  BY <1>2 DEF Elements
<1>4. spoken \in Nat /\ Len(file) \in Nat
  BY GotLine
<1>5. QED BY <1>1, <1>2, <1>3, <1>4, SameGotIs, Shut

LEMMA DiesPage ==
  ASSUME TypeOK, LogOK, ~glued => AllLogged, NEW p \in Pages, PageOK(p), Dies
  PROVE  PageOK(p)'
<1>1. Down /\ UNCHANGED <<got, last>> /\ log' = <<>>
  BY DiesDoes DEF Down, page
<1>2. stream'[p] # "open" /\ queue'[p] = <<>> /\ replay'[p] = {}
  BY <1>1 DEF Down, TypeOK
<1>3. /\ spoken' \in Nat /\ spoken <= spoken' /\ file' \in Seq(Line) /\ Len(file) \in Nat
      /\ \A x \in Elements(file') : x \in Elements(file) \/ (x \in Line /\ x.what > spoken)
  BY DiesDoes, GotLine, Constants DEF Elements
<1>4. Elements(log)' = {} /\ Elements(file)' = Elements(file')
  BY <1>1 DEF Elements
<1>5. ASSUME ~glued'
      PROVE  /\ ~glued /\ Len(file') \in Nat /\ Len(file) <= Len(file')
             /\ \A k \in 1..Len(file) : file'[k] = file[k]
  <2>1. CASE Crash
    BY <1>3, <1>5, <2>1 DEF Crash
  <2>2. ASSUME NEW end \in {"torn", "unended", "clean"}, CrashInRecord(end)
        PROVE  ~glued /\ file' \in {file, Append(file, Said)} /\ up /\ spoken < MaxLines
    BY <1>5, <2>2 DEF CrashInRecord, Down, Written, Parsed
  <2>3. up /\ spoken < MaxLines => \A k \in 1..Len(file) : Append(file, Said)[k] = file[k]
    BY SaidIs, AppendIs DEF TypeOK
  <2>4. CASE file' = file /\ ~glued
    BY <1>3, <2>4
  <2>5. CASE file' = Append(file, Said) /\ ~glued /\ up /\ spoken < MaxLines
    <3>1. Len(file') = Len(file) + 1
      BY <2>5, SaidIs, AppendIs DEF TypeOK
    <3>2. QED BY <1>3, <2>3, <2>5, <3>1
  <2>6. QED BY <2>1, <2>2, <2>4, <2>5 DEF Dies
<1>6. QED BY <1>1, <1>2, <1>3, <1>4, <1>5, SameGotIs, Shut

LEMMA BootPage ==
  ASSUME TypeOK, LogOK, ~glued => AllLogged, NEW p \in Pages, PageOK(p), Boot
  PROVE  PageOK(p)'
<1>1. ~up /\ log' = file /\ UNCHANGED <<got, last, stream, queue, replay, spoken, file, glued>>
  BY BootLog DEF Boot, streams, page
<1>2. stream[p] # "open" /\ queue[p] = <<>> /\ replay[p] = {}
  BY <1>1 DEF PageOK, StreamOK
<1>3. Elements(log)' = Elements(file) /\ Elements(file)' = Elements(file)
  BY <1>1 DEF Elements
<1>4. spoken \in Nat /\ Len(file) \in Nat
  BY GotLine
<1>5. QED BY <1>1, <1>2, <1>3, <1>4, SameGotIs, Shut

----------------------------------------------------------------------------
(* What goes on a queue, and comes off it.                                 *)

LEMMA Pushed ==
  ASSUME TypeOK, NEW p \in Pages, NEW x \in Payload, Push(x)
  PROVE  /\ stream[p] # "open" => queue'[p] = queue[p]
         /\ Queued(p) \subseteq Queued(p)' /\ \A i \in Queued(p) : queue'[p][i] = queue[p][i]
         /\ \A i \in Queued(p)' \ Queued(p) :
              stream[p] = "open" /\ i = Len(queue[p]) + 1 /\ x.id # 0 /\ queue'[p][i] = x
         /\ stream[p] = "open" /\ x.id # 0 => Len(queue[p]) + 1 \in Queued(p)'
<1>1. CASE stream[p] # "open"
  BY <1>1 DEF Push, Queued
<1>2. CASE stream[p] = "open"
  <2>1. queue'[p] = Append(queue[p], x)
    BY <1>2 DEF Push, Put
  <2>2. queue[p] \in Seq(Payload) /\ Len(queue[p]) \in Nat
    BY GotLine
  <2>3. PICK t : t = Append(queue[p], x)
    OBVIOUS
  <2>4. /\ Len(t) = Len(queue[p]) + 1 /\ t[Len(queue[p]) + 1] = x
        /\ \A i \in 1..Len(queue[p]) : t[i] = queue[p][i]
    BY <2>2, <2>3, AppendIs
  <2>5. Queued(p)' = {i \in 1..Len(t) : t[i].id # 0}
    BY <2>1, <2>3 DEF Queued
  <2>6. \A i \in 1..Len(t) : i \in 1..Len(queue[p]) \/ i = Len(queue[p]) + 1
    BY <2>2, <2>4
  <2>7. \A i \in 1..Len(queue[p]) : i \in 1..Len(t)
    BY <2>2, <2>4
  <2>8. Len(queue[p]) + 1 \in 1..Len(t)
    BY <2>2, <2>4
  <2>9. /\ Queued(p) \subseteq Queued(p)' /\ \A i \in Queued(p) : queue'[p][i] = queue[p][i]
    BY <2>1, <2>3, <2>4, <2>5, <2>7 DEF Queued
  <2>10. ASSUME NEW i \in Queued(p)', i \notin Queued(p)
         PROVE  i = Len(queue[p]) + 1 /\ x.id # 0 /\ queue'[p][i] = x
    BY <2>1, <2>3, <2>4, <2>5, <2>6, <2>10 DEF Queued
  <2>11. QED BY <1>2, <2>4, <2>5, <2>8, <2>9, <2>10
<1>3. QED BY <1>1, <1>2

LEMMA DecidePage ==
  ASSUME TypeOK, LogOK, NEW p \in Pages, PageOK(p), NEW u \in Asks, Decide(u)
  PROVE  PageOK(p)'
<1>1. PICK x : x = [id |-> 0, what |-> u]
  OBVIOUS
<1>2. x \in Payload /\ x.id = 0 /\ Push(x)
  BY <1>1, Constants DEF Payload, Numbers, Decide
<1>3. SameQueue(p)
  <2>1. Queued(p)' = Queued(p)
    BY <1>2, Pushed
  <2>2. QED BY <1>2, <2>1, Pushed DEF SameQueue
<1>4. QED BY <1>3, SameGotIs, PageStays DEF Decide, logs, page

LEMMA Shifted ==
  ASSUME TypeOK, NEW p \in Pages, Took(p), queue[p] # <<>>
  PROVE  /\ \A i \in Queued(p)' : i \in Nat \ {0} /\ i + 1 \in Queued(p) /\ queue'[p][i] = queue[p][i + 1]
         /\ \A i \in Queued(p) : i = 1 \/ (i - 1 \in Queued(p)' /\ queue'[p][i - 1] = queue[p][i])
         /\ Head(queue[p]) = queue[p][1] /\ Head(queue[p]) \in Payload
         /\ 1 \in Queued(p) <=> Head(queue[p]).id # 0
<1>1. queue'[p] = Tail(queue[p])
  BY DEF Took, TypeOK
<1>2. queue[p] \in Seq(Payload) /\ Len(queue[p]) \in Nat
  BY GotLine
<1>3. PICK t : t = Tail(queue[p])
  OBVIOUS
<1>4. /\ Len(t) = Len(queue[p]) - 1 /\ Len(queue[p]) \in Nat \ {0}
      /\ \A i \in 1..Len(t) : t[i] = queue[p][i + 1]
      /\ Head(queue[p]) = queue[p][1] /\ queue[p][1] \in Payload
  BY <1>2, <1>3, TailIs
<1>5. Queued(p)' = {i \in 1..Len(t) : t[i].id # 0}
  BY <1>1, <1>3 DEF Queued
<1>6. ASSUME NEW i \in Queued(p)'
      PROVE  i \in Nat \ {0} /\ i + 1 \in Queued(p) /\ queue'[p][i] = queue[p][i + 1]
  <2>1. i \in 1..Len(t) /\ t[i] = queue[p][i + 1] /\ t[i].id # 0 /\ i + 1 \in 1..Len(queue[p])
    BY <1>4, <1>5
  <2>2. QED BY <1>1, <1>3, <2>1 DEF Queued
<1>7. ASSUME NEW i \in Queued(p), i # 1
      PROVE  i - 1 \in Queued(p)' /\ queue'[p][i - 1] = queue[p][i]
  <2>1. i \in 1..Len(queue[p]) /\ i - 1 \in 1..Len(t) /\ (i - 1) + 1 = i /\ queue[p][i].id # 0
    BY <1>4, <1>7 DEF Queued
  <2>2. t[i - 1] = queue[p][i]
    BY <1>4, <2>1
  <2>3. QED BY <1>1, <1>3, <1>5, <2>1, <2>2
<1>8. 1 \in Queued(p) <=> Head(queue[p]).id # 0
  BY <1>4 DEF Queued
<1>9. QED BY <1>4, <1>6, <1>7, <1>8

\* A payload without an id goes by, sent or not.
LEMMA Passes ==
  ASSUME TypeOK, LogOK, NEW p \in Pages, PageOK(p), Took(p), Next1(p), SameGot(p),
         Head(queue[p]).id = 0
  PROVE  PageOK(p)'
<1>1. /\ up /\ stream[p] = "open" /\ replay[p] = {} /\ queue[p] # <<>>
      /\ stream'[p] = stream[p] /\ replay'[p] = replay[p] /\ replayed'[p] = replayed[p]
      /\ UNCHANGED <<up, spoken, log, file, glued>>
  BY DEF Next1, Opened, Took, logs
<1>2. 1 \notin Queued(p)
  BY <1>1, Shifted
<1>3. /\ \A i \in Queued(p)' : i \in Nat /\ i + 1 \in Queued(p) /\ queue'[p][i] = queue[p][i + 1]
      /\ \A i \in Queued(p) : i - 1 \in Queued(p)' /\ queue'[p][i - 1] = queue[p][i]
  BY <1>1, <1>2, Shifted
<1>4. GotOK(p)' /\ Ahead(p)'
  <2>1. GotOK(p)'
    BY <1>1, GotStays, GotLine DEF PageOK
  <2>2. Ahead(p)'
    BY <1>1, AheadStays DEF PageOK, Elements
  <2>3. QED BY <2>1, <2>2
<1>5. StreamOK(p)'
  <2>1. StreamOK(p)
    BY DEF PageOK
  <2>2. /\ \A i \in Queued(p)' : \E k \in 1..Len(log) :
             queue'[p][i] = log[k] /\ \A j \in replay[p] : j < k
        /\ \A i \in Queued(p)' : /\ queue'[p][i].id > replayed[p]
                                 /\ \A f \in LinesGot(p) : queue'[p][i].what > got[p][f].what
    BY <1>1, <1>3, <2>1 DEF StreamOK
  <2>3. ASSUME NEW i \in Queued(p)', NEW j \in Queued(p)', i < j
        PROVE  queue'[p][i].what < queue'[p][j].what
    <3>1. i + 1 < j + 1
      BY <1>3, <2>3
    <3>2. QED BY <1>1, <1>3, <2>1, <3>1 DEF StreamOK
  <2>4. LastId' = LastId
    BY <1>1 DEF LastId
  <2>5. QED BY <1>1, <2>1, <2>2, <2>3, <2>4 DEF StreamOK, SameGot
<1>6. ASSUME ~glued' PROVE Intact(p)'
  <2>1. \A k : Coming(p, k)' <=> Coming(p, k)
    BY <1>1, <1>3 DEF Coming
  <2>2. \A x : Has(p, x)' <=> Has(p, x)
    BY DEF Has, SameGot
  <2>3. Intact(p)
    BY <1>1, <1>6 DEF PageOK
  <2>4. QED BY <1>1, <2>1, <2>2, <2>3 DEF Intact, SameGot
<1>7. QED BY <1>4, <1>5, <1>6 DEF PageOK

\* What a stream takes off its queue and does not send is no line: those were not replayed.
LEMMA SkipPage ==
  ASSUME TypeOK, LogOK, NEW p \in Pages, PageOK(p), Skip(p)
  PROVE  PageOK(p)'
<1>1. Next1(p) /\ Took(p) /\ Skips(p, Head(queue[p])) /\ UNCHANGED <<got, last>>
  BY DEF Skip, page
<1>2. Opened(p) /\ queue[p] # <<>>
  BY <1>1 DEF Next1
<1>3. Head(queue[p]).id = 0
  <2>1. ASSUME Head(queue[p]).id # 0 PROVE FALSE
    <3>1. 1 \in Queued(p) /\ Head(queue[p]) = queue[p][1]
      BY <1>1, <1>2, <2>1, Shifted
    <3>2. queue[p][1].id > replayed[p] /\ queue[p][1].id <= replayed[p]
      BY <1>1, <1>2, <3>1 DEF PageOK, StreamOK, Opened, Skips
    <3>3. queue[p][1].id \in Nat /\ replayed[p] \in Nat
      BY <3>1, GotLine, LineIs
    <3>4. QED BY <3>2, <3>3
  <2>2. QED BY <2>1
<1>4. QED BY <1>1, <1>3, SameGotIs, Passes

LEMMA ReceiveIs ==
  ASSUME TypeOK, NEW p \in Pages, NEW x \in Payload, NEW open, Receive(p, x, open)
  PROVE  /\ x.id = 0 => SameGot(p)
         /\ x.id # 0 => /\ LinesGot(p)' = LinesGot(p) \cup {Len(got[p]) + 1}
                        /\ last'[p] = x.id
         /\ \A f \in LinesGot(p) : got'[p][f] = got[p][f] /\ f < Len(got[p]) + 1
         /\ got'[p][Len(got[p]) + 1] = x
         /\ \A q \in Pages \ {p} : SameGot(q)
<1>1. got'[p] = Append(got[p], x) /\ last'[p] = IF x.id = 0 THEN last[p] ELSE x.id
  BY DEF Receive, TypeOK
<1>2. got[p] \in Seq(Payload) /\ Len(got[p]) \in Nat
  BY GotLine
<1>3. PICK t : t = Append(got[p], x)
  OBVIOUS
<1>4. /\ Len(t) = Len(got[p]) + 1 /\ t[Len(got[p]) + 1] = x
      /\ \A i \in 1..Len(got[p]) : t[i] = got[p][i]
  BY <1>2, <1>3, AppendIs
<1>5. LinesGot(p)' = {i \in 1..Len(t) : t[i].id # 0}
  BY <1>1, <1>3 DEF LinesGot
<1>6. \A f \in LinesGot(p) : t[f] = got[p][f] /\ f < Len(got[p]) + 1 /\ f \in LinesGot(p)'
  BY <1>2, <1>4, <1>5 DEF LinesGot
<1>7. ASSUME NEW f \in LinesGot(p)', f \notin LinesGot(p) PROVE f = Len(got[p]) + 1 /\ x.id # 0
  BY <1>2, <1>4, <1>5, <1>7 DEF LinesGot
<1>8. x.id # 0 => Len(got[p]) + 1 \in LinesGot(p)'
  <2>1. Len(got[p]) + 1 \in 1..Len(t)
    BY <1>2, <1>4
  <2>2. QED BY <1>4, <1>5, <2>1
<1>9. \A q \in Pages \ {p} : SameGot(q)
  BY DEF Receive, TypeOK, SameGot, LinesGot
<1>10. /\ x.id = 0 => LinesGot(p)' = LinesGot(p)
       /\ x.id # 0 => LinesGot(p)' = LinesGot(p) \cup {Len(got[p]) + 1}
  BY <1>6, <1>7, <1>8
<1>11. x.id = 0 => SameGot(p)
  BY <1>1, <1>3, <1>6, <1>10 DEF SameGot
<1>12. QED BY <1>1, <1>3, <1>4, <1>6, <1>9, <1>10, <1>11

\* A page that receives a line of the log, later than all it had.
LEMMA GotReceived ==
  ASSUME TypeOK, LogOK, up, NEW p \in Pages, GotOK(p), Ahead(p), NEW x \in Elements(log), NEW open,
         Receive(p, x, open), \A f \in LinesGot(p) : x.what > got[p][f].what,
         UNCHANGED <<spoken, log, file>>
  PROVE  GotOK(p)' /\ Ahead(p)' /\ x \in Payload /\ x.id # 0
<1>1. x \in Line /\ x \in Payload /\ x.id # 0 /\ x.what <= spoken /\ x.what \in Nat /\ x.id \in Nat
  BY GotLine, LineIs DEF LogOK, Counted
<1>2. PICK n \in Nat : n = Len(got[p]) + 1
  BY GotLine
<1>3. /\ LinesGot(p)' = LinesGot(p) \cup {n} /\ last'[p] = x.id
      /\ \A f \in LinesGot(p) : got'[p][f] = got[p][f] /\ f < n
      /\ got'[p][n] = x
  BY <1>1, <1>2, ReceiveIs
<1>4. \A f \in LinesGot(p) : f \in Nat /\ got[p][f].what \in Nat
  BY GotLine, LineIs
<1>5. GotOK(p)'
  <2>1. \A f \in LinesGot(p)' : got'[p][f].what <= spoken
    BY <1>1, <1>3 DEF GotOK
  <2>2. ASSUME NEW j \in LinesGot(p)', NEW k \in LinesGot(p)', j < k
        PROVE  got'[p][j].what < got'[p][k].what
    <3>1. j \in LinesGot(p)
      BY <1>2, <1>3, <1>4, <2>2
    <3>2. CASE k \in LinesGot(p)
      BY <1>3, <2>2, <3>1, <3>2 DEF GotOK
    <3>3. CASE k = n
      BY <1>1, <1>3, <1>4, <3>1, <3>3
    <3>4. QED BY <1>3, <3>2, <3>3
  <2>3. n \in LinesGot(p)' /\ got'[p][n].id = last'[p] /\ last'[p] # 0
    BY <1>1, <1>3
  <2>4. QED BY <2>1, <2>2, <2>3 DEF GotOK
<1>6. Ahead(p)'
  <2>1. ASSUME NEW y \in Elements(log) \cup Elements(file), NEW f \in LinesGot(p)', y.id > last'[p]
        PROVE  y.what > got'[p][f].what
    <3>1. y \in Elements(log) /\ y \in Line
      BY GotLine DEF LogOK
    <3>2. PICK k \in 1..Len(log), m \in 1..Len(log) : y = log[k] /\ x = log[m]
      BY <3>1 DEF Elements
    <3>3. y.id \in Nat /\ y.what \in Nat /\ k \in Nat /\ m \in Nat /\ y.id > x.id
      BY <1>3, <2>1, <3>1, LineIs
    <3>4. m < k
      <4>1. ASSUME k <= m PROVE FALSE
        <5>1. k = m \/ k < m
          BY <3>3, <4>1
        <5>2. QED BY <1>1, <3>2, <3>3, <5>1 DEF LogOK, Ordered
      <4>2. QED BY <3>3, <4>1
    <3>5. y.what > x.what
      BY <1>1, <3>2, <3>3, <3>4 DEF LogOK, Ordered
    <3>6. CASE f = n
      BY <1>3, <3>5, <3>6
    <3>7. CASE f \in LinesGot(p)
      BY <1>1, <1>3, <1>4, <3>3, <3>5, <3>7
    <3>8. QED BY <1>3, <3>6, <3>7
  <2>2. QED BY <2>1 DEF Ahead, Elements
<1>7. QED BY <1>1, <1>5, <1>6

\* The new line answers for itself; the lines after it are still to come.
LEMMA IntactReceived ==
  ASSUME TypeOK, LogOK, ~glued, AllLogged, up, NEW p \in Pages, Intact(p), stream[p] = "open",
         NEW m \in 1..Len(log), NEW open, Receive(p, log[m], open), Coming(p, m),
         UNCHANGED <<spoken, log, file, stream>>,
         \A k \in 1..Len(file) : Coming(p, k)' <=> Coming(p, k) /\ k # m,
         \A k \in 1..Len(file) : Coming(p, k) => m <= k
  PROVE  Intact(p)'
<1>1. log = file /\ Len(file) \in Nat /\ m \in 1..Len(file)
  BY GotLine DEF AllLogged
<1>2. log[m].id = m /\ log[m].what = m /\ log[m] \in Payload /\ m # 0
  BY <1>1, WholeLine, GotLine, LineIs DEF Elements
<1>3. PICK n : n = Len(got[p]) + 1
  OBVIOUS
<1>4. /\ LinesGot(p)' = LinesGot(p) \cup {n}
      /\ \A f \in LinesGot(p) : got'[p][f] = got[p][f]
      /\ got'[p][n] = log[m]
  BY <1>2, <1>3, ReceiveIs
<1>5. \A f \in LinesGot(p)' : got'[p][f].id = got'[p][f].what /\ got'[p][f].id <= Len(file)
  <2>1. \A f \in LinesGot(p) : got'[p][f].id = got'[p][f].what /\ got'[p][f].id <= Len(file)
    BY <1>4 DEF Intact
  <2>2. QED BY <1>1, <1>2, <1>4, <2>1
<1>6. \A j, k \in 1..Len(file) : j < k /\ Coming(p, j)' => Coming(p, k)'
  <2>1. ASSUME NEW j \in 1..Len(file), NEW k \in 1..Len(file), j < k, Coming(p, j)'
        PROVE  Coming(p, k)'
    <3>1. Coming(p, j) /\ m <= j
      BY <2>1
    <3>2. Coming(p, k) /\ k # m
      BY <1>1, <2>1, <3>1 DEF Intact
    <3>3. QED BY <3>2
  <2>2. QED BY <2>1
<1>7. ASSUME NEW k \in 1..Len(file), NEW f \in LinesGot(p)'
      PROVE  \/ k <= got'[p][f].what \/ Has(p, file[k])' \/ Len(file) - k >= Limit
             \/ Coming(p, k)'
  <2>1. CASE k = m
    BY <1>1, <1>4, <2>1 DEF Has
  <2>2. CASE k # m /\ f \in LinesGot(p)
    <3>1. \/ k <= got[p][f].what \/ Has(p, file[k]) \/ Len(file) - k >= Limit \/ Coming(p, k)
      BY <2>2 DEF Intact
    <3>2. Has(p, file[k]) => Has(p, file[k])'
      BY <1>4 DEF Has
    <3>3. QED BY <1>4, <2>2, <3>1, <3>2
  <2>3. CASE k # m /\ f = n
    <3>1. k <= m \/ m < k
      BY <1>1
    <3>2. m < k => Coming(p, k)
      BY <1>1 DEF Intact
    <3>3. QED BY <1>2, <1>4, <2>3, <3>1, <3>2
  <2>4. QED BY <1>4, <2>1, <2>2, <2>3
<1>8. QED BY <1>5, <1>6, <1>7 DEF Intact

LEMMA SendPage ==
  ASSUME TypeOK, LogOK, ~glued => AllLogged, NEW p \in Pages, PageOK(p), Send(p)
  PROVE  PageOK(p)'
<1>1. PICK x : x = Head(queue[p])
  OBVIOUS
<1>2. PICK open : Receive(p, x, open)
  BY <1>1 DEF Send
<1>3. /\ Next1(p) /\ Took(p) /\ Opened(p) /\ replay[p] = {} /\ queue[p] # <<>> /\ up
      /\ stream[p] = "open" /\ stream'[p] = "open" /\ replay'[p] = {} /\ replayed'[p] = replayed[p]
      /\ UNCHANGED <<up, spoken, log, file, glued, stream>>
  BY DEF Send, Next1, Opened, Took, logs
<1>4. x \in Payload
  BY <1>1, <1>3, Shifted
<1>5. CASE x.id = 0
  BY <1>1, <1>2, <1>3, <1>4, <1>5, ReceiveIs, Passes
<1>6. CASE x.id # 0
  <2>1. 1 \in Queued(p) /\ queue[p][1] = x
    BY <1>1, <1>3, <1>6, Shifted
  <2>2. StreamOK(p) /\ GotOK(p) /\ Ahead(p)
    BY DEF PageOK
  <2>3. PICK m \in 1..Len(log) : x = log[m]
    BY <1>3, <2>1, <2>2 DEF StreamOK
  <2>4. \A f \in LinesGot(p) : x.what > got[p][f].what
    BY <1>3, <2>1, <2>2 DEF StreamOK
  <2>5. x \in Elements(log)
    BY <2>3 DEF Elements
  <2>6. GotOK(p)' /\ Ahead(p)'
    BY <1>2, <1>3, <2>2, <2>4, <2>5, GotReceived
  <2>7. PICK n : n = Len(got[p]) + 1
    OBVIOUS
  <2>8. /\ LinesGot(p)' = LinesGot(p) \cup {n}
        /\ \A f \in LinesGot(p) : got'[p][f] = got[p][f]
        /\ got'[p][n] = x
    BY <1>2, <1>4, <1>6, <2>7, ReceiveIs
  <2>9. \A i \in Queued(p)' : i \in Nat \ {0} /\ i + 1 \in Queued(p) /\ queue'[p][i] = queue[p][i + 1]
    BY <1>3, Shifted
  <2>10. \A i \in Queued(p)' : queue'[p][i].what > x.what
    <3>1. \A i \in Queued(p)' : 1 < i + 1 /\ i + 1 \in Queued(p)
      BY <2>9
    <3>2. \A i \in Queued(p)' : x.what < queue[p][i + 1].what
      BY <1>3, <2>1, <2>2, <3>1 DEF StreamOK
    <3>3. \A i \in Queued(p)' : x.what \in Nat /\ queue[p][i + 1].what \in Nat
      BY <2>1, <3>1, GotLine, LineIs
    <3>4. QED BY <2>9, <3>2, <3>3
  <2>11. StreamOK(p)'
    <3>1. \A i \in Queued(p)' : \E k \in 1..Len(log) :
            queue'[p][i] = log[k] /\ \A j \in replay[p] : j < k
      BY <1>3, <2>2, <2>9 DEF StreamOK
    <3>2. ASSUME NEW i \in Queued(p)', NEW j \in Queued(p)', i < j
          PROVE  queue'[p][i].what < queue'[p][j].what
      <4>1. i + 1 < j + 1
        BY <2>9, <3>2
      <4>2. QED BY <1>3, <2>2, <2>9, <4>1 DEF StreamOK
    <3>3. ASSUME NEW i \in Queued(p)'
          PROVE  /\ queue'[p][i].id > replayed[p]
                 /\ \A f \in LinesGot(p)' : queue'[p][i].what > got'[p][f].what
      BY <1>3, <2>2, <2>8, <2>9, <2>10 DEF StreamOK
    <3>4. LastId' = LastId /\ replayed[p] <= LastId
      BY <1>3, <2>2 DEF LastId, StreamOK
    <3>5. QED BY <1>3, <3>1, <3>2, <3>3, <3>4 DEF StreamOK
  <2>12. ASSUME ~glued' PROVE Intact(p)'
    <3>1. AllLogged /\ Intact(p) /\ ~glued
      BY <1>3, <2>12 DEF PageOK
    <3>2. log = file /\ m \in Nat
      BY <1>3, <3>1, GotLine DEF AllLogged
    <3>3. \A k \in 1..Len(file) : file[k].what = k
      BY <3>1, WholeLine
    <3>4. Coming(p, m)
      BY <1>3, <2>1, <2>3, <3>2 DEF Coming
    <3>5. ASSUME NEW k \in 1..Len(file) PROVE Coming(p, k)' <=> Coming(p, k) /\ k # m
      <4>1. ASSUME Coming(p, k)' PROVE Coming(p, k) /\ k # m
        <5>1. PICK i \in Queued(p)' : queue'[p][i] = file[k]
          BY <1>3, <4>1 DEF Coming
        <5>2. queue[p][i + 1] = file[k] /\ i + 1 \in Queued(p)
          BY <2>9, <5>1
        <5>3. file[k].what > x.what
          BY <2>10, <5>1
        <5>4. k # m
          <6>1. ASSUME k = m PROVE FALSE
            <7>1. file[k] = x /\ x.what \in Nat
              BY <2>3, <3>2, <6>1, <2>5, GotLine, LineIs
            <7>2. QED BY <5>3, <7>1
          <6>2. QED BY <6>1
        <5>5. QED BY <1>3, <5>2, <5>4 DEF Coming
      <4>2. ASSUME Coming(p, k), k # m PROVE Coming(p, k)'
        <5>1. PICK i \in Queued(p) : queue[p][i] = file[k]
          BY <1>3, <4>2 DEF Coming
        <5>2. i # 1
          BY <2>1, <2>3, <3>2, <3>3, <4>2, <5>1
        <5>3. i - 1 \in Queued(p)' /\ queue'[p][i - 1] = file[k]
          BY <1>3, <5>1, <5>2, Shifted
        <5>4. QED BY <1>3, <5>3 DEF Coming
      <4>3. QED BY <4>1, <4>2
    <3>6. ASSUME NEW k \in 1..Len(file), Coming(p, k) PROVE m <= k
      <4>1. PICK i \in Queued(p) : queue[p][i] = file[k]
        BY <1>3, <3>6 DEF Coming
      <4>2. i = 1 \/ 1 < i
        BY GotLine
      <4>3. CASE i = 1
        <5>1. file[k] = file[m]
          BY <2>1, <2>3, <3>2, <4>1, <4>3
        <5>2. k = m
          BY <3>2, <3>3, <5>1
        <5>3. QED BY <3>2, <5>2
      <4>4. CASE 1 < i
        <5>1. x.what < file[k].what
          BY <1>3, <2>1, <2>2, <4>1, <4>4 DEF StreamOK
        <5>2. m < k
          BY <2>3, <3>2, <3>3, <5>1
        <5>3. k \in Nat
          BY GotLine
        <5>4. QED BY <3>2, <5>2, <5>3
      <4>5. QED BY <4>2, <4>3, <4>4
    <3>7. Receive(p, log[m], open)
      BY <1>2, <2>3
    <3>8. QED BY <1>3, <3>1, <3>4, <3>5, <3>6, <3>7, IntactReceived
  <2>13. QED BY <2>6, <2>11, <2>12 DEF PageOK
<1>7. QED BY <1>5, <1>6

LEMMA ReplayPage ==
  ASSUME TypeOK, LogOK, ~glued => AllLogged, NEW p \in Pages, PageOK(p), Replay(p)
  PROVE  PageOK(p)'
<1>1. PICK m \in replay[p] :
        /\ \A j \in replay[p] : m <= j
        /\ Receive(p, log[m], Asks \ decided)
        /\ replayed' = [replayed EXCEPT ![p] = log[m].id]
        /\ replay' = [replay EXCEPT ![p] = @ \ {m}]
  BY DEF Replay
<1>2. /\ up /\ stream[p] = "open" /\ replay'[p] = replay[p] \ {m} /\ replayed'[p] = log[m].id
      /\ UNCHANGED <<up, spoken, log, file, glued, stream, queue>>
  BY <1>1 DEF Replay, Opened, TypeOK, logs
<1>3. PICK open : open = Asks \ decided
  OBVIOUS
<1>4. /\ m \in 1..Len(log) /\ m \in Nat /\ log[m] \in Elements(log) /\ log[m] \in Line
      /\ log[m] \in Payload /\ log[m].id \in Nat /\ log[m].id # 0 /\ log[m].what \in Nat
      /\ \A j \in replay[p] : j \in 1..Len(log) /\ j \in Nat
  BY <1>1, GotLine, LineIs DEF Elements
<1>5. StreamOK(p) /\ GotOK(p) /\ Ahead(p) /\ Receive(p, log[m], open)
  BY <1>1, <1>3 DEF PageOK
<1>6. GotOK(p)' /\ Ahead(p)'
  <2>1. \A f \in LinesGot(p) : log[m].what > got[p][f].what
    BY <1>1, <1>2, <1>5 DEF StreamOK
  <2>2. QED BY <1>2, <1>4, <1>5, <2>1, GotReceived
<1>7. PICK n : n = Len(got[p]) + 1
  OBVIOUS
<1>8. /\ LinesGot(p)' = LinesGot(p) \cup {n}
      /\ \A f \in LinesGot(p) : got'[p][f] = got[p][f]
      /\ got'[p][n] = log[m]
  BY <1>4, <1>5, <1>7, ReceiveIs
<1>9. ASSUME NEW i \in Queued(p)
      PROVE  \E k \in 1..Len(log) : /\ queue[p][i] = log[k] /\ m < k
                                    /\ \A j \in replay[p] : j < k
  BY <1>1, <1>2, <1>5 DEF StreamOK
<1>10. \A k \in 1..Len(log) : m < k => log[k].id > log[m].id /\ log[k].what > log[m].what
  <2>1. \A k \in 1..Len(log) : m < k => log[m].id < log[k].id /\ log[m].what < log[k].what
    BY <1>4 DEF LogOK, Ordered
  <2>2. \A k \in 1..Len(log) : log[k].id \in Nat /\ log[k].what \in Nat
    BY GotLine, LineIs DEF Elements
  <2>3. QED BY <1>4, <2>1, <2>2
<1>11. Queued(p)' = Queued(p)
  BY <1>2 DEF Queued
<1>12. StreamOK(p)'
  <2>1. ASSUME NEW i \in Queued(p)
        PROVE  /\ \E k \in 1..Len(log) : queue[p][i] = log[k] /\ \A j \in replay'[p] : j < k
               /\ queue[p][i].id > log[m].id
               /\ \A f \in LinesGot(p)' : queue[p][i].what > got'[p][f].what
    <3>1. PICK k \in 1..Len(log) : queue[p][i] = log[k] /\ m < k /\ \A j \in replay[p] : j < k
      BY <1>9
    <3>2. \A f \in LinesGot(p) : queue[p][i].what > got[p][f].what
      BY <1>2, <1>5 DEF StreamOK
    <3>3. queue[p][i].id > log[m].id /\ queue[p][i].what > log[m].what
      BY <1>10, <3>1
    <3>4. QED BY <1>2, <1>8, <3>1, <3>2, <3>3
  <2>2. ASSUME NEW k \in replay'[p]
        PROVE  /\ log[k].id > log[m].id
               /\ \A f \in LinesGot(p)' : log[k].what > got'[p][f].what
    <3>1. k \in replay[p] /\ k # m /\ m <= k /\ k \in 1..Len(log) /\ k \in Nat
      BY <1>1, <1>2, <1>4, <2>2
    <3>2. m < k
      BY <1>4, <3>1
    <3>3. \A f \in LinesGot(p) : log[k].what > got[p][f].what
      BY <1>2, <1>5, <3>1 DEF StreamOK
    <3>4. QED BY <1>8, <1>10, <3>1, <3>2, <3>3
  <2>3. LastId' = LastId /\ log[m].id <= LastId
    BY <1>2, <1>4, LastIs DEF LastId
  <2>4. \A i, j \in Queued(p) : i < j => queue[p][i].what < queue[p][j].what
    BY <1>2, <1>5 DEF StreamOK
  <2>5. QED BY <1>2, <1>11, <2>1, <2>2, <2>3, <2>4 DEF StreamOK
<1>13. ASSUME ~glued' PROVE Intact(p)'
  <2>1. AllLogged /\ Intact(p) /\ ~glued
    BY <1>2, <1>13 DEF PageOK
  <2>2. log = file
    BY <1>2, <2>1 DEF AllLogged
  <2>3. \A k \in 1..Len(file) : file[k].what = k
    BY <2>1, WholeLine
  <2>4. Coming(p, m)
    BY <1>2, <1>1 DEF Coming
  <2>5. ASSUME NEW k \in 1..Len(file), NEW i \in Queued(p), queue[p][i] = file[k] PROVE m < k
    <3>1. PICK j \in 1..Len(log) : queue[p][i] = log[j] /\ m < j
      BY <1>9
    <3>2. file[k].what = file[j].what
      BY <2>2, <2>5, <3>1
    <3>3. QED BY <2>2, <2>3, <3>1, <3>2
  <2>6. ASSUME NEW k \in 1..Len(file) PROVE Coming(p, k)' <=> Coming(p, k) /\ k # m
    <3>1. Coming(p, k)' <=> k \in replay[p] \ {m} \/ \E i \in Queued(p) : queue[p][i] = file[k]
      BY <1>2, <1>11 DEF Coming
    <3>2. Coming(p, k) <=> k \in replay[p] \/ \E i \in Queued(p) : queue[p][i] = file[k]
      BY <1>2 DEF Coming
    <3>3. (\E i \in Queued(p) : queue[p][i] = file[k]) => k # m
      BY <1>4, <2>5
    <3>4. QED BY <3>1, <3>2, <3>3
  <2>7. ASSUME NEW k \in 1..Len(file), Coming(p, k) PROVE m <= k
    <3>1. k \in replay[p] \/ \E i \in Queued(p) : queue[p][i] = file[k]
      BY <1>2, <2>7 DEF Coming
    <3>2. k \in Nat
      BY GotLine
    <3>3. QED BY <1>1, <1>4, <2>5, <3>1, <3>2
  <2>8. QED BY <1>2, <1>4, <1>5, <2>1, <2>4, <2>6, <2>7, IntactReceived
<1>14. QED BY <1>6, <1>12, <1>13 DEF PageOK

LEMMA SpeakPage ==
  ASSUME TypeOK, LogOK, ~glued => AllLogged, NEW p \in Pages, PageOK(p), Speak
  PROVE  PageOK(p)'
<1>1. PICK x : x = Said
  OBVIOUS
<1>2. /\ up /\ spoken < MaxLines /\ spoken' = spoken + 1 /\ Push(x)
      /\ log' = Append(log, x) /\ file' = Written(x) /\ glued' = (glued \/ tail # "clean")
      /\ UNCHANGED <<up, stream, replay, replayed, got, last>>
  BY <1>1 DEF Speak, page
<1>3. /\ x \in Line /\ x \in Payload /\ x.id = LastId + 1 /\ x.what = spoken + 1 /\ x.id # 0
      /\ x.id \in Nat /\ x.what \in Nat /\ LastId \in Nat
      /\ \A y \in Elements(log) \cup Elements(file) : y.id < x.id /\ y.what < x.what
  BY <1>1, <1>2, SaidIs, LineIs, LastIs
<1>4. /\ Len(log') = Len(log) + 1 /\ log'[Len(log) + 1] = x /\ Len(log) \in Nat
      /\ \A k \in 1..Len(log) : log'[k] = log[k]
  BY <1>2, <1>3, GotLine, AppendIs
<1>5. SameGot(p) /\ StreamOK(p) /\ GotOK(p) /\ Ahead(p)
  BY <1>2, SameGotIs DEF PageOK
<1>6. GotOK(p)' /\ Ahead(p)'
  <2>1. spoken \in Nat /\ spoken' \in Nat /\ spoken <= spoken'
    BY <1>2, GotLine
  <2>2. \A y \in Elements(log)' \cup Elements(file)' :
          y \in Elements(log) \cup Elements(file) \/ (y \in Line /\ y.what > spoken)
    <3>1. Elements(log') = Elements(log)' /\ Elements(file') = Elements(file)'
      BY DEF Elements
    <3>2. x.what > spoken
      BY <1>3, <2>1
    <3>3. QED BY <1>1, <1>3, <3>1, <3>2, SpeakLog
  <2>3. GotOK(p)'
    BY <1>5, <2>1, GotStays
  <2>4. QED BY <1>5, <2>2, <2>3, AheadStays
<1>7. /\ stream[p] # "open" => queue'[p] = queue[p]
      /\ Queued(p) \subseteq Queued(p)' /\ \A i \in Queued(p) : queue'[p][i] = queue[p][i]
      /\ \A i \in Queued(p)' \ Queued(p) : i = Len(queue[p]) + 1 /\ queue'[p][i] = x
      /\ stream[p] = "open" => Len(queue[p]) + 1 \in Queued(p)'
      /\ \A i \in Queued(p) : i < Len(queue[p]) + 1 /\ i \in Nat /\ Len(queue[p]) \in Nat
  BY <1>2, <1>3, Pushed, GotLine
<1>8. stream[p] = "open" => Len(queue[p]) + 1 \notin Queued(p)
  BY <1>7
<1>9. stream[p] = "open" => \A i \in Queued(p) : queue[p][i] \in Elements(log)
  BY <1>5 DEF StreamOK, Elements
<1>10. StreamOK(p)'
  <2>1. CASE stream[p] # "open"
    BY <1>2, <1>5, <1>7, <2>1 DEF StreamOK
  <2>2. CASE stream[p] = "open"
    <3>1. Len(log') \in 1..Len(log') /\ \A k \in 1..Len(log) : k \in 1..Len(log')
      BY <1>4
    <3>2. LastId' = LastId + 1 /\ replayed[p] <= LastId /\ replayed[p] \in Nat
      <4>1. log' # <<>> /\ log'[Len(log')] = x
        BY <1>4
      <4>2. QED BY <1>3, <1>5, <2>2, <4>1, GotLine DEF LastId, StreamOK
    <3>3. ASSUME NEW i \in Queued(p)'
          PROVE  \E k \in 1..Len(log') : queue'[p][i] = log'[k] /\ \A j \in replay[p] : j < k
      <4>1. CASE i \in Queued(p)
        BY <1>4, <1>5, <1>7, <2>2, <3>1, <4>1 DEF StreamOK
      <4>2. CASE i \notin Queued(p)
        <5>1. queue'[p][i] = log'[Len(log')] /\ \A j \in replay[p] : j < Len(log')
          BY <1>4, <1>7, <4>2, GotLine
        <5>2. QED BY <3>1, <5>1
      <4>3. QED BY <4>1, <4>2
    <3>4. ASSUME NEW i \in Queued(p)', NEW j \in Queued(p)', i < j
          PROVE  queue'[p][i].what < queue'[p][j].what
      <4>1. i \in Queued(p)
        BY <1>7, <3>4
      <4>2. CASE j \in Queued(p)
        BY <1>5, <1>7, <2>2, <3>4, <4>1, <4>2 DEF StreamOK
      <4>3. CASE j \notin Queued(p)
        BY <1>3, <1>7, <1>9, <2>2, <4>1, <4>3
      <4>4. QED BY <4>2, <4>3
    <3>5. ASSUME NEW i \in Queued(p)'
          PROVE  /\ queue'[p][i].id > replayed[p]
                 /\ \A f \in LinesGot(p) : queue'[p][i].what > got[p][f].what
      <4>1. CASE i \in Queued(p)
        BY <1>5, <1>7, <2>2, <4>1 DEF StreamOK
      <4>2. CASE i \notin Queued(p)
        <5>1. queue'[p][i] = x
          BY <1>7, <4>2
        <5>2. \A f \in LinesGot(p) : got[p][f].what \in Nat /\ got[p][f].what <= spoken
          BY <1>5, GotLine, LineIs DEF GotOK
        <5>3. QED BY <1>3, <3>2, <5>1, <5>2, GotLine
      <4>3. QED BY <4>1, <4>2
    <3>6. \A k \in replay[p] : /\ log'[k].id > replayed[p]
                               /\ \A f \in LinesGot(p) : log'[k].what > got[p][f].what
      BY <1>4, <1>5, <2>2, GotLine DEF StreamOK
    <3>7. replayed[p] <= LastId'
      BY <1>3, <3>2
    <3>8. QED BY <1>2, <1>5, <2>2, <3>3, <3>4, <3>5, <3>6, <3>7 DEF StreamOK, SameGot
  <2>3. QED BY <2>1, <2>2
<1>11. ASSUME ~glued' PROVE Intact(p)'
  <2>0. PICK c : c = Len(file) + 1
    OBVIOUS
  <2>1. AllLogged /\ Intact(p) /\ ~glued /\ tail = "clean"
    BY <1>2, <1>11 DEF PageOK
  <2>2. /\ log = file /\ file' = log' /\ x = [id |-> Len(file) + 1, what |-> Len(file) + 1]
        /\ Len(file) \in Nat
    BY <1>1, <1>2, <2>1, WholeSaid DEF Written
  <2>3. Len(file') = c /\ file'[c] = x /\ c = Len(file) + 1
        /\ \A k \in 1..Len(file) : file'[k] = file[k]
    BY <1>4, <2>0, <2>2
  <2>4. ASSUME NEW k \in 1..Len(file) PROVE Coming(p, k)' <=> Coming(p, k)
    <3>1. CASE stream[p] # "open"
      BY <1>2, <1>5, <3>1 DEF Coming, SameGot
    <3>2. CASE stream[p] = "open"
      <4>1. file'[k] = file[k] /\ file[k] # x
        <5>1. file[k] \in Elements(file) /\ file[k] \in Line
          BY GotLine DEF Elements
        <5>2. file[k].id < x.id /\ file[k].id \in Nat
          BY <1>3, <5>1, LineIs
        <5>3. QED BY <1>3, <2>3, <5>2
      <4>2. (\E i \in Queued(p)' : queue'[p][i] = file[k]) <=> \E i \in Queued(p) : queue[p][i] = file[k]
        BY <1>7, <4>1
      <4>3. QED BY <1>2, <3>2, <4>1, <4>2 DEF Coming
    <3>3. QED BY <3>1, <3>2
  <2>5. Coming(p, c)'
    <3>1. CASE stream[p] = "open"
      <4>1. PICK n : n = Len(queue[p]) + 1
        OBVIOUS
      <4>2. n \in Queued(p)' /\ n \notin Queued(p)
        BY <1>7, <1>8, <3>1, <4>1
      <4>3. queue'[p][n] = file'[c]
        BY <1>7, <2>3, <4>2
      <4>4. QED BY <1>2, <3>1, <4>2, <4>3 DEF Coming
    <3>2. CASE stream[p] # "open"
      <4>1. last[p] <= Len(file) /\ last[p] \in Nat
        BY <2>1, LastGot, GotLine
      <4>2. QED BY <1>2, <2>2, <2>3, <3>2, <4>1 DEF Coming
    <3>3. QED BY <3>1, <3>2
  <2>6. \A k \in 1..Len(file') : k \in Nat /\ (k \in 1..Len(file) \/ k = c)
    BY <2>2, <2>3
  <2>7. ASSUME NEW j \in 1..Len(file'), NEW k \in 1..Len(file'), j < k, stream[p] = "open", Coming(p, j)'
        PROVE  Coming(p, k)'
    <3>1. j \in 1..Len(file)
      BY <2>2, <2>6, <2>7
    <3>2. CASE k \in 1..Len(file)
      <4>1. Coming(p, j)
        BY <2>4, <2>7, <3>1
      <4>2. Coming(p, k)
        BY <2>1, <2>7, <3>1, <3>2, <4>1 DEF Intact
      <4>3. QED BY <2>4, <3>2, <4>2
    <3>3. QED BY <2>5, <2>6, <3>2
  <2>8. ASSUME NEW k \in 1..Len(file'), NEW f \in LinesGot(p)
        PROVE  \/ k <= got[p][f].what \/ Has(p, file[k])' \/ Len(file') - k >= Limit
               \/ Coming(p, k)'
    <3>1. CASE k \in 1..Len(file)
      <4>1. \/ k <= got[p][f].what \/ Has(p, file[k]) \/ Len(file) - k >= Limit \/ Coming(p, k)
        BY <2>1, <3>1 DEF Intact
      <4>2. Has(p, file[k]) => Has(p, file[k])'
        BY <1>5, <2>3, <3>1 DEF Has, SameGot
      <4>3. Len(file) - k >= Limit => Len(file') - k >= Limit
        <5>1. Limit \in Nat /\ k \in Nat /\ Len(file) \in Nat /\ Len(file') = Len(file) + 1
          BY <2>2, <2>3, <2>6, Constants
        <5>2. QED BY <5>1
      <4>4. QED BY <2>4, <3>1, <4>1, <4>2, <4>3
    <3>2. QED BY <2>5, <2>6, <3>1
  <2>9. ASSUME NEW f \in LinesGot(p)
        PROVE  got[p][f].id = got[p][f].what /\ got[p][f].id <= Len(file')
    <3>1. got[p][f].id \in Nat /\ got[p][f].id <= Len(file)
      BY <2>1, GotLine, LineIs DEF Intact
    <3>2. QED BY <2>1, <2>2, <2>3, <3>1 DEF Intact
  <2>10. QED BY <1>2, <1>5, <2>7, <2>8, <2>9 DEF Intact, SameGot
<1>12. QED BY <1>6, <1>10, <1>11 DEF PageOK

\* How many of the log's places are later than one, of some or of all.
LEMMA LaterIs ==
  ASSUME NEW n \in Nat, NEW S \in SUBSET (1..n), NEW j \in 1..n
  PROVE  /\ Cardinality({i \in S : i > j}) \in Nat /\ Cardinality({i \in S : i > j}) <= n - j
         /\ \A k \in 1..n : j < k => Cardinality({i \in S : i > k}) <= Cardinality({i \in S : i > j})
<1>1. IsFiniteSet((j + 1)..n) /\ Cardinality((j + 1)..n) = n - j
  <2>1. j + 1 \in Int /\ n \in Int
    OBVIOUS
  <2>2. IsFiniteSet((j + 1)..n) /\ Cardinality((j + 1)..n) = IF j + 1 > n THEN 0 ELSE n - (j + 1) + 1
    BY <2>1, FS_Interval
  <2>3. QED BY <2>2
<1>2. {i \in S : i > j} \subseteq (j + 1)..n
  <2>1. \A i \in S : i \in 1..n /\ i \in Nat /\ j \in Nat
    OBVIOUS
  <2>2. \A i \in S : i > j => i \in (j + 1)..n
    BY <2>1
  <2>3. QED BY <2>2
<1>3. IsFiniteSet({i \in S : i > j}) /\ Cardinality({i \in S : i > j}) <= n - j
  BY <1>1, <1>2, FS_Subset
<1>4. Cardinality({i \in S : i > j}) \in Nat
  BY <1>3, FS_CardinalityType
<1>5. ASSUME NEW k \in 1..n, j < k
      PROVE  Cardinality({i \in S : i > k}) <= Cardinality({i \in S : i > j})
  <2>1. {i \in S : i > k} \subseteq {i \in S : i > j}
    <3>1. \A i \in S : i \in Nat /\ j \in Nat /\ k \in Nat
      OBVIOUS
    <3>2. \A i \in S : i > k => i > j
      BY <1>5, <3>1
    <3>3. QED BY <3>2
  <2>2. QED BY <1>3, <2>1, FS_Subset
<1>6. QED BY <1>3, <1>4, <1>5

LEMMA ConnectPage ==
  ASSUME TypeOK, LogOK, ~glued => AllLogged, NEW p \in Pages, PageOK(p), Connect(p)
  PROVE  PageOK(p)'
<1>1. /\ up /\ stream[p] # "open" /\ stream'[p] = "open" /\ replayed'[p] = 0
      /\ replay'[p] = IF last[p] = 0 THEN {} ELSE After(last[p])
      /\ UNCHANGED <<up, spoken, log, file, glued, queue, got, last>>
  BY DEF Connect, TypeOK, logs, page
<1>2. SameGot(p) /\ GotOK(p) /\ Ahead(p) /\ queue[p] = <<>>
  BY <1>1, SameGotIs DEF PageOK, StreamOK
<1>3. GotOK(p)' /\ Ahead(p)'
  <2>1. GotOK(p)'
    BY <1>1, <1>2, GotStays, GotLine
  <2>2. Ahead(p)'
    BY <1>1, <1>2, AheadStays DEF Elements
  <2>3. QED BY <2>1, <2>2
<1>4. Queued(p)' = {}
  BY <1>1, <1>2 DEF Queued
<1>5. \A k \in replay'[p] : k \in 1..Len(log) /\ log[k].id > last[p]
  BY <1>1 DEF After, Recent, Beyond
<1>6. StreamOK(p)'
  <2>1. ASSUME NEW k \in replay'[p]
        PROVE  log[k].id > 0 /\ \A f \in LinesGot(p) : log[k].what > got[p][f].what
    <3>1. log[k] \in Elements(log)
      BY <1>5 DEF Elements
    <3>2. log[k].id > 0
      BY <3>1, GotLine, LineIs
    <3>3. QED BY <1>2, <1>5, <3>1, <3>2 DEF Ahead
  <2>2. LastId' = LastId /\ 0 <= LastId
    BY <1>1, LastIs DEF LastId
  <2>3. QED BY <1>1, <1>2, <1>4, <2>1, <2>2 DEF StreamOK, SameGot
<1>7. ASSUME ~glued' PROVE Intact(p)'
  <2>1. AllLogged /\ Intact(p) /\ ~glued /\ log = file /\ Len(file) \in Nat /\ last[p] \in Nat
    BY <1>1, <1>7, GotLine DEF PageOK, AllLogged
  <2>2. PICK S : S = {k \in 1..Len(log) : Beyond(log[k], last[p])}
    OBVIOUS
  <2>3. S \in SUBSET (1..Len(file)) /\ \A k \in 1..Len(file) : k \in S <=> k > last[p]
    <3>1. \A k \in 1..Len(file) : log[k].id = k
      BY <2>1, WholeLine
    <3>2. QED BY <2>1, <2>2, <3>1 DEF Beyond
  <2>4. replay'[p] = IF last[p] = 0 THEN {} ELSE {k \in S : Cardinality({j \in S : j > k}) < Limit}
    BY <1>1, <2>2 DEF After, Recent
  <2>5. \A k : Coming(p, k)' <=> k \in replay'[p]
    BY <1>1, <1>4 DEF Coming
  <2>6. ASSUME NEW j \in 1..Len(file), NEW k \in 1..Len(file), j < k, j \in replay'[p]
        PROVE  k \in replay'[p]
    <3>1. last[p] # 0 /\ j \in S /\ Cardinality({i \in S : i > j}) < Limit
      BY <2>4, <2>6
    <3>2. k \in S
      BY <2>1, <2>3, <2>6, <3>1
    <3>3. Cardinality({i \in S : i > k}) <= Cardinality({i \in S : i > j})
          /\ Cardinality({i \in S : i > k}) \in Nat /\ Cardinality({i \in S : i > j}) \in Nat
      BY <2>1, <2>3, <2>6, LaterIs
    <3>4. Cardinality({i \in S : i > k}) < Limit
      BY <3>1, <3>3, Constants
    <3>5. QED BY <2>4, <3>1, <3>2, <3>4
  <2>7. ASSUME NEW k \in 1..Len(file), NEW f \in LinesGot(p)
        PROVE  \/ k <= got[p][f].what \/ Has(p, file[k])' \/ Len(file) - k >= Limit
               \/ k \in replay'[p]
    <3>1. \/ k <= got[p][f].what \/ Has(p, file[k]) \/ Len(file) - k >= Limit \/ k > last[p]
      BY <1>1, <2>1 DEF Intact, Coming
    <3>2. Has(p, file[k]) => Has(p, file[k])'
      BY <1>1, <1>2 DEF Has, SameGot
    <3>3. ASSUME k > last[p] PROVE Len(file) - k >= Limit \/ k \in replay'[p]
      <4>1. k \in S /\ last[p] # 0
        BY <1>2, <2>3, <3>3 DEF GotOK
      <4>2. PICK c : c = Cardinality({j \in S : j > k})
        OBVIOUS
      <4>3. c \in Nat /\ c <= Len(file) - k
        BY <2>1, <2>3, <4>2, LaterIs
      <4>4. c < Limit \/ Len(file) - k >= Limit
        <5>1. Limit \in Nat /\ k \in Nat /\ Len(file) \in Nat
          BY <2>1, Constants
        <5>2. QED BY <4>3, <5>1
      <4>5. QED BY <2>4, <4>1, <4>2, <4>4
    <3>4. QED BY <3>1, <3>2, <3>3
  <2>8. QED BY <1>1, <1>2, <2>1, <2>5, <2>6, <2>7 DEF Intact, SameGot
<1>8. QED BY <1>3, <1>6, <1>7 DEF PageOK

----------------------------------------------------------------------------
(* The theorems.                                                           *)

LEMMA PageStep ==
  ASSUME EventsInv, [EventsNext]_events, NEW p \in Pages
  PROVE  PageOK(p)'
<1>0. TypeOK /\ LogOK /\ (~glued => AllLogged) /\ PageOK(p)
  BY DEF EventsInv
<1>1. CASE Speak \/ Dies \/ Boot \/ \E u \in Asks : Decide(u)
  BY <1>0, <1>1, SpeakPage, DiesPage, BootPage, DecidePage
<1>2. ASSUME NEW q \in Pages, Connect(q) \/ Replay(q) \/ Skip(q) \/ Send(q) \/ Break(q)
      PROVE  PageOK(p)'
  <2>1. CASE p = q
    BY <1>0, <1>2, <2>1, ConnectPage, ReplayPage, SkipPage, SendPage, BreakPage
  <2>2. CASE p # q
    <3>1. SameGot(p)
      <4>1. CASE Connect(q) \/ Skip(q) \/ Break(q)
        BY <4>1, SameGotIs DEF Connect, Skip, Break, page
      <4>2. CASE Replay(q)
        <5>1. PICK k \in replay[q] : Receive(q, log[k], Asks \ decided)
          BY <4>2 DEF Replay
        <5>2. log[k] \in Payload
          BY <1>0, GotLine, LineIs DEF Elements
        <5>3. QED BY <1>0, <2>2, <5>1, <5>2, ReceiveIs
      <4>3. CASE Send(q)
        <5>1. Took(q) /\ queue[q] # <<>>
          BY <4>3 DEF Send, Next1
        <5>2. PICK open : Receive(q, Head(queue[q]), open)
          BY <4>3 DEF Send
        <5>3. Head(queue[q]) \in Payload
          BY <1>0, <5>1, Shifted
        <5>4. QED BY <1>0, <2>2, <5>2, <5>3, ReceiveIs
      <4>4. QED BY <1>2, <4>1, <4>2, <4>3
    <3>2. /\ stream'[p] = stream[p] /\ queue'[p] = queue[p] /\ replay'[p] = replay[p]
          /\ replayed'[p] = replayed[p] /\ UNCHANGED <<up, spoken, log, file, glued>>
      BY <1>0, <1>2, <2>2 DEF Connect, Replay, Skip, Send, Took, Break, logs, TypeOK
    <3>3. SameQueue(p)
      BY <3>2 DEF SameQueue, Queued
    <3>4. QED BY <1>0, <3>1, <3>2, <3>3, PageStays
  <2>3. QED BY <2>1, <2>2
<1>3. CASE UNCHANGED events
  <2>1. SameGot(p) /\ SameQueue(p)
    BY <1>3, SameGotIs DEF SameQueue, Queued, events, streams, page
  <2>2. QED BY <1>0, <1>3, <2>1, PageStays DEF events, logs, streams
<1>4. QED BY <1>1, <1>2, <1>3 DEF EventsNext, Dies

\* In every behaviour of the log, the pages and their streams, through breaks and deaths in
\* the middle of an append, the inductive invariant holds (unbidden.py, server.py events).
THEOREM EventsInvHolds == EventsSpec => []EventsInv
<1>1. EventsInit => EventsInv
  <2>1. SUFFICES ASSUME EventsInit PROVE EventsInv
    OBVIOUS
  <2>2. TypeOK
    <3>0. up \in BOOLEAN /\ glued \in BOOLEAN
      BY <2>1 DEF EventsInit
    <3>1. /\ decided \subseteq Asks
          /\ log \in Seq(Line) /\ file \in Seq(Line) /\ tail \in {"clean", "torn", "unended"}
          /\ stream \in [Pages -> {"new", "open", "down"}]
      BY <2>1 DEF EventsInit
    <3>2. /\ crashes \in 0..MaxCrashes /\ breaks \in 0..MaxBreaks /\ spoken \in 0..MaxLines
          /\ replayed \in [Pages -> 0..MaxLines] /\ last \in [Pages -> 0..MaxLines]
      BY <2>1, Constants DEF EventsInit
    <3>3. /\ queue \in [Pages -> Seq(Payload)] /\ got \in [Pages -> Seq(Payload)]
          /\ replay \in [Pages -> SUBSET (1..Len(log))] /\ live \in [Pages -> SUBSET Asks]
      BY <2>1 DEF EventsInit
    <3>4. QED BY <3>0, <3>1, <3>2, <3>3 DEF TypeOK
  <2>3. LogOK
    BY <2>1, EmptyLog DEF EventsInit, LogOK
  <2>4. AllLogged
    BY <2>1 DEF EventsInit, AllLogged
  <2>5. ASSUME NEW p \in Pages PROVE PageOK(p)
    <3>1. /\ LinesGot(p) = {} /\ last[p] = 0 /\ stream[p] # "open" /\ queue[p] = <<>>
          /\ replay[p] = {}
      BY <2>1 DEF EventsInit, LinesGot
    <3>2. QED BY <3>1 DEF PageOK, GotOK, Ahead, StreamOK, Intact
  <2>6. QED BY <2>2, <2>3, <2>4, <2>5 DEF EventsInv
<1>2. EventsInv /\ [EventsNext]_events => EventsInv'
  <2>1. SUFFICES ASSUME EventsInv, [EventsNext]_events PROVE EventsInv'
    OBVIOUS
  <2>2. TypeOK /\ LogOK /\ (~glued => AllLogged) /\ \A p \in Pages : StreamOK(p)
    BY <2>1 DEF EventsInv, PageOK
  <2>3. TypeOK' /\ LogOK'
    BY <2>1, <2>2, TypeStep, LogStep
  <2>4. ~glued' => AllLogged'
    BY <2>1, <2>2, WholeStep
  <2>5. \A p \in Pages : PageOK(p)'
    BY <2>1, PageStep
  <2>6. QED BY <2>3, <2>4, <2>5 DEF EventsInv
<1>3. QED BY <1>1, <1>2, PTL DEF EventsSpec

\* Types; what a replay holds is in the log, and no stream that is closed holds one.
THEOREM EventsTypeCorrect == EventsSpec => []TypeOK
<1>1. EventsInv => TypeOK
  BY DEF EventsInv
<1>2. QED BY <1>1, EventsInvHolds, PTL

\* No page is sent a line twice, nor one line before an earlier one (server.py events and
\* its generator, unbidden.py after, the Last-Event-ID of index.html's EventSource).
THEOREM NoLineTwice == EventsSpec => []InOrderOnce
<1>1. EventsInv => InOrderOnce
  BY DEF EventsInv, PageOK, GotOK, InOrderOnce
<1>2. QED BY <1>1, EventsInvHolds, PTL

\* A stream with nothing left to send has brought the page all it missed, or as much as one
\* replay holds (server.py events, unbidden.py after and append).
THEOREM NoLineMissed == EventsSpec => []CaughtUp
<1>1. ASSUME EventsInv PROVE CaughtUp
  <2>1. SUFFICES ASSUME NEW p \in Pages, Drained(p), ~glued,
                        NEW f \in LinesGot(p), NEW k \in 1..Len(log)
                 PROVE  log[k].what <= got[p][f].what \/ Has(p, log[k]) \/ Len(log) - k >= Limit
    BY DEF CaughtUp
  <2>2. AllLogged /\ Intact(p) /\ up /\ stream[p] = "open" /\ replay[p] = {} /\ queue[p] = <<>>
    BY <1>1, <2>1 DEF EventsInv, PageOK, Drained, Opened
  <2>3. log = file /\ log[k].what = k
    BY <2>2, WholeLine DEF AllLogged
  <2>4. ~Coming(p, k)
    BY <2>2 DEF Coming, Queued
  <2>5. QED BY <2>2, <2>3, <2>4 DEF Intact
<1>2. EventsInv => CaughtUp
  BY <1>1
<1>3. QED BY <1>2, EventsInvHolds, PTL

=============================================================================
