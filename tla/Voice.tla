------------------------------- MODULE Voice -------------------------------
(***************************************************************************)
(* How a line is worded, and in what register: the mood chain and          *)
(* _resolve_turn of backend/server.py, backend/mood.py, the rubric of      *)
(* backend/voice_eval.py, and compose and revoice of backend/compose.py.   *)
(*                                                                         *)
(* A text is what the checks read off it: a line, the rules it keeps and   *)
(* breaks; an answer, the facts and links it holds.  The models are open:  *)
(* any text, any refusal, any grade the code takes, in its scale or not.   *)
(* Weights are in eighths.                                                 *)
(***************************************************************************)
EXTENDS Integers, FiniteSets

CONSTANTS Scores,     \* what a cosine with an anchor may be, in hundredths
          Warmable,   \* facts the store may hold as recent reversals
          Sentences,  \* what an answer may say: [names, nums, capitals, words]
          Words,      \* what else a model may say, a number spelt out among it
          Links,      \* links an answer may hold
          Foreign,    \* links a model may make up
          Within,     \* pairs of which the first is found in the second: "3" in "3:15"
                      \* or "three", a name in a word or a link, a link in a longer one
          Graded,     \* what the rubric's model may answer
          MaxAttempts \* max_attempts of compose

\* The dimensions of the semantic layer: three weigh a point and a half, two weigh one.
Heavy == {"flat_declarative", "calm_foreknowledge", "earned_not_overt"}
Light == {"role_address", "ceremony"}

ASSUME VoiceAssumption ==
  /\ Scores \subseteq -100..100 /\ Graded \subseteq [Heavy \cup Light -> 0..9]
  /\ MaxAttempts \in Nat \ {0}
  /\ Links \cap Foreign = {}
  /\ \A x \in Sentences : IsFiniteSet(x.names) /\ Cardinality(x.names) <= x.capitals

VARIABLES
  models,    \* which models there are: a fast one, which also reads the mood; an embedder
  register,  \* STATE.current_register
  felt,      \* history: the last signal any message carried, in this life
  met,       \* the message in hand and the register it is met in
  call,      \* a compose under way: its mode, its attempts, the best line of them
  said       \* what came of it
vars == <<models, register, felt, met, call, said>>

WaterStates == {"frozen", "tidal", "turn"}
None     == "none"
NotMet   == [water |-> None, signal |-> None, earned |-> FALSE]
Unsaid   == [mode |-> None]
NoCall   == [mode |-> None, n |-> 0, best |-> Unsaid]
AtRest   == met = NotMet /\ call = NoCall /\ said = Unsaid
Names(s) == UNION {x.names : x \in s}
Nums(s)  == UNION {x.nums : x \in s}

Init ==
  /\ models \in [fast : BOOLEAN, embed : BOOLEAN]
  /\ register = None /\ felt = None
  /\ met = NotMet /\ call = NoCall /\ said = Unsaid

----------------------------------------------------------------------------
(* The register a message is met in.                                       *)

\* register_signal: feeling words of the cold and of the tide, the cold first on a tie.
Keyword(m) == IF m.cold + m.warm = 0 THEN None
              ELSE IF m.cold >= m.warm THEN "frozen" ELSE "tidal"
\* classify: the nearest of four classes of anchors, above the floor it is built with here
\* and clear of the next; to be nearest the neutral ones is no signal.
Anchors == WaterStates \cup {"neutral"}
Floor   == 15
Anchored(m) ==
  LET near == {r \in Anchors : m.near[r] >= Floor
                 /\ \A o \in Anchors \ {r} : m.near[r] - m.near[o] >= 3} IN
  IF near \subseteq {"neutral"} THEN None ELSE CHOOSE r \in near : TRUE
Local(m) == IF Keyword(m) # None \/ ~models.embed THEN Keyword(m) ELSE Anchored(m)
\* The live model decides, and neutral is a decision; only if it fails, the local pair.
Signal(m) == IF models.fast /\ m.live # "fails" THEN m.live ELSE Local(m)
\* detect_state: the motifs the message uses.
Detected(m) == IF m.thaw THEN "turn" ELSE IF m.ice > m.tide THEN "frozen" ELSE "tidal"

\* recent_warmings: a fact that replaced a bleaker one, current still, of this week.
RecentWarmings(m) == {f \in Warmable : m.warmed[f] = "recent"}
\* One that recall put before the model, and that is in the person's own words.
WarmingBehind(m) == RecentWarmings(m) \cap m.recalled \cap m.about # {}
ResolvedM(water, earned) ==                \* mutation: it is not demoted
  IF water = "frozen" THEN water ELSE IF earned THEN "turn" ELSE water
Resolved(water, earned) ==
  IF water = "frozen" THEN water
  ELSE IF earned THEN "turn" ELSE IF water = "turn" THEN "tidal" ELSE water

Messages ==
  [live : WaterStates \cup {None, "fails"}, cold : 0..1, warm : 0..2, thaw : BOOLEAN,
   ice : 0..1, tide : 0..1, near : [Anchors -> Scores],
   warmed : [Warmable -> {"recent", "old", "closed"}],
   recalled : SUBSET Warmable, about : SUBSET Warmable]
Hears ==
  /\ AtRest
  /\ \E m \in Messages :
       LET signal == Signal(m)
           kept   == IF signal # None THEN signal ELSE register
           water  == IF kept # None THEN kept ELSE Detected(m) IN
       /\ register' = kept
       /\ felt' = IF signal # None THEN signal ELSE felt
       /\ met' = [water |-> Resolved(water, WarmingBehind(m)), signal |-> signal,
                  earned |-> WarmingBehind(m)]
  /\ UNCHANGED <<models, call, said>>

----------------------------------------------------------------------------
(* evaluate: the rules, their weights, the score.                          *)

\* An answer that is no JSON is passed over.  Of each grade the first digit counts, the
\* prompt's 0, 1 and 2 or not; none, or one below zero, is 0.
Ungraded == [d \in Heavy \cup Light |-> -1]
OutOfScale(l) == \E d \in Heavy \cup Light : l.grades[d] > 2
\* A line with a word of two meanings has a motif: those words are motifs too.
Lines ==
  {l \in [terse : BOOLEAN, asks : BOOLEAN, motif : BOOLEAN, double : BOOLEAN,
          hedges : BOOLEAN, gushes : BOOLEAN, quotes : BOOLEAN, offers : BOOLEAN,
          grades : Graded \cup {Ungraded}] : l.double => l.motif}
HardFail(l) == l.hedges \/ l.gushes \/ l.quotes

OfferWeightM == 48                         \* mutation: six points
OfferWeight  == 56
If(b, w) == IF b THEN w ELSE 0
\* A grade of 2 earns a dimension its weight, 1 half of it.
Credit(g) == 6 * (g.flat_declarative + g.calm_foreknowledge + g.earned_not_overt)
             + 4 * (g.role_address + g.ceremony)
\* The two guards only weigh when they fail.
Total(l) == 8 + 16 + 4 + 20 + 16 + 4 + If(l.quotes, 16) + If(l.offers, OfferWeight)
            + If(l.grades # Ungraded, 3 * 12 + 2 * 8)
Earned(l) == If(l.terse, 8) + If(~l.hedges, 16) + If(~l.asks, 4) + If(l.motif, 20)
             + If(~l.gushes, 16) + If(l.double, 4)
             + If(l.grades # Ungraded, Credit(l.grades))
\* In thousandths; a hard fail is held under any threshold.
Score(l) == LET s == (2000 * Earned(l) + Total(l)) \div (2 * Total(l)) IN
            IF HardFail(l) /\ s > 490 THEN 490 ELSE s
Passed(l) == ~HardFail(l) /\ 10 * Earned(l) >= 7 * Total(l)

----------------------------------------------------------------------------
(* compose: at most so many attempts; what is unbidden may be silence.     *)

Composes ==
  /\ AtRest
  /\ \E mode \in {"passive", "proactive", "drift"} : call' = [NoCall EXCEPT !.mode = mode]
  /\ UNCHANGED <<models, register, felt, met, said>>
Says(outcome) == said' = outcome /\ call' = NoCall

Silent(mode) == [mode |-> mode, how |-> "silent"]
\* The model gives silence, or nothing.
Declines ==
  /\ call.mode # None
  /\ Says(Silent(call.mode))
  /\ UNCHANGED <<models, register, felt, met>>
\* A private note is kept as it is.
Notes ==
  /\ call.mode = "drift"
  /\ Says([mode |-> "drift", how |-> "note"])
  /\ UNCHANGED <<models, register, felt, met>>

\* A model that fails, or grades what is no number, ends it with an exception.
Raises ==
  /\ call.mode # None
  /\ Says(Unsaid)
  /\ UNCHANGED <<models, register, felt, met>>

Better(l) == call.n = 0 \/ Score(l) > Score(call.best)
\* After the last attempt: unbidden, nothing; asked, the best of them, or the line
\* kept for the register when the best fails hard.
Settles(best) ==
  IF call.mode = "proactive" THEN Silent("proactive")
  ELSE IF HardFail(best) THEN [mode |-> "passive", how |-> "safe"]
  ELSE [mode |-> "passive", how |-> "best", line |-> best]
Attempts ==
  /\ call.mode \in {"passive", "proactive"}
  /\ \E l \in Lines :
       /\ l.grades # Ungraded => models.fast
       /\ LET best == IF Better(l) THEN l ELSE call.best
              n    == call.n + 1 IN
          \/ Passed(l) /\ Says([mode |-> call.mode, how |-> "passed", line |-> l])
          \/ /\ ~Passed(l) /\ n < MaxAttempts
             /\ call' = [call EXCEPT !.n = n, !.best = best] /\ UNCHANGED said
          \/ ~Passed(l) /\ n = MaxAttempts /\ Says(Settles(best))
  /\ UNCHANGED <<models, register, felt, met>>

----------------------------------------------------------------------------
(* revoice: a true answer in the voice, or as it was.                      *)

\* A thing is there when the text holds it, if only inside something else.
Found(text, t) ==
  t \in text.says \/ \E u \in text.says \cup text.links : <<t, u>> \in Within
Gone(ts, text) == {t \in ts : ~Found(text, t)}
\* A sentence of five words or more, most of them capitals, reads as a headline: of its
\* names most must be left.
Headline(x) == x.words >= 5 /\ 10 * x.capitals >= 6 * x.words
Excused(x, text) ==
  Headline(x) /\ 2 * Cardinality(Gone(x.names, text)) <= x.capitals
\* _lost_specifics: every number counts.
Lost(answer, text) ==
  Gone(Nums(answer), text)
  \cup UNION {Gone(x.names, text) : x \in {y \in answer : ~Excused(y, text)}}
\* A link the answer does not hold is struck out, also where another holds it; then
\* each of the answer's, in turn, is put back unless what is there holds it.
Whole(links, out) ==
  {l \in out.links \cap links : \A f \in out.links \ links : <<f, l>> \notin Within}
Holds(links, l) == l \in links \/ \E k \in links : <<l, k>> \in Within
RelinkedM(links, out) == {Whole(links, out)}   \* mutation: none is put back
Relinked(links, out) ==
  {s \in SUBSET links :
     LET left == Whole(links, out) IN
     /\ left \subseteq s
     /\ \A l \in s \ left : ~Holds(left, l)
     /\ \A l \in links : Holds(s, l)}

Answers == [says : SUBSET Sentences, links : SUBSET Links]
Facts == Names(Sentences) \cup Nums(Sentences)
Voiced == [says : SUBSET (Facts \cup Words), links : SUBSET (Links \cup Foreign)]
Plainly(a) == [says |-> Names(a.says) \cup Nums(a.says), links |-> a.links]
Revoices ==
  /\ AtRest
  /\ \E a \in Answers :
       \/ said' = [mode |-> "answer", of |-> a, text |-> Plainly(a)]    \* it raised, or was empty
       \/ \E out \in Voiced : \E links \in Relinked(a.links, out) :
            LET text == [out EXCEPT !.links = links] IN
            said' = [mode |-> "answer", of |-> a,
                     text |-> IF Lost(a.says, text) # {} THEN Plainly(a) ELSE text]
  /\ UNCHANGED <<models, register, felt, met, call>>

----------------------------------------------------------------------------
Rests ==
  /\ ~AtRest /\ call = NoCall
  /\ met' = NotMet /\ said' = Unsaid
  /\ UNCHANGED <<models, register, felt, call>>
\* The register lives in memory only.
Restarts ==
  /\ register' = None /\ felt' = None /\ met' = NotMet /\ call' = NoCall /\ said' = Unsaid
  /\ UNCHANGED models

Next == \/ Hears \/ Composes \/ Declines \/ Notes \/ Raises \/ Attempts
        \/ Revoices \/ Rests \/ Restarts
Spec == Init /\ [][Next]_vars

----------------------------------------------------------------------------
(* Properties.                                                             *)

\* A person in the cold stays met in the cold until a message says otherwise, however
\* many neutral ones come between and whatever the store remembers; and the rarest
\* register is only ever met with a recorded reversal behind it, even when a model
\* named it and it was inherited; and it is always one the prompt knows (server.py
\* _converse, _resolve_turn, persona.py build_system_prompt, which raises for another).
MetWhereTheyAre ==
  met # NotMet =>
    /\ met.water \in WaterStates
    /\ felt = "frozen" => met.water = "frozen"
    /\ met.water = "turn" => met.earned

\* A line that hedges, gushes or reads a value out is never said, not even as the best
\* of those that missed the mark; unbidden, only one that reached it.  None reaches it
\* that offers service, while the grades keep to the scale the rubric asks for (evaluate
\* takes any digit, and one beyond it may carry such a line), nor, ungraded, one with no
\* motif (voice_eval.py deterministic_checks and evaluate,
\* compose.py compose).
FitToSay ==
  said.mode \in {"passive", "proactive"} =>
    /\ said.how \in {"passed", "best"} => ~HardFail(said.line)
    /\ said.how = "passed" => /\ said.line.offers => OutOfScale(said.line)
                              /\ said.line.grades = Ungraded => said.line.motif
    /\ said.mode = "proactive" => said.how \in {"passed", "silent"}

\* What an answer holds is found in what is said: every number, every name but some of a
\* headline's, every link, and no link the answer does not hold.  Found is contained: as
\* the docstring says, a dropped "3" passes where a "3:15" is left (compose.py revoice,
\* _lost_specifics).
FactsSurvive ==
  said.mode = "answer" =>
    /\ \A t \in Nums(said.of.says) : Found(said.text, t)
    /\ said.text.links \subseteq said.of.links
    /\ \A l \in said.of.links : Holds(said.text.links, l)
    /\ \A x \in said.of.says :
         (\A t \in x.names : Found(said.text, t)) \/ Excused(x, said.text)
=============================================================================
