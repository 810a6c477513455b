---------------------------- MODULE ToolsProofs -----------------------------
(***************************************************************************)
(* Proofs about what the Keeper does for the person.  Tools: for every set *)
(* of servers and tools, whatever mcp.json says of them, and any number of *)
(* rounds and specialists.  Schedule, the reminders and jobs kept with     *)
(* some of those tools: for any recurrences, any times and any calendar    *)
(* with at most two days of weekend in a row.                              *)
(***************************************************************************)
EXTENDS Tools, Schedule, WellFoundedInduction, TLAPS

----------------------------------------------------------------------------
(* What the operators make of a loop.                                      *)

Bounded(r) == r \in Record /\ r.round <= Rounds(r)

LEMMA NamesAreStrings == DOMAIN Profiles = {"researcher", "archivist", "scribe", "analyst"}
  BY DEF Profiles

LEMMA RoundsOK == ASSUME NEW r PROVE Rounds(r) \in Nat \ {0}
<1>1. MaxRounds \in Nat \ {0} /\ WorkerRounds \in Nat \ {0}
  BY ToolsAssumption
<1>2. QED BY <1>1 DEF Rounds

LEMMA NamedOK ==
  /\ Base \cup Personal \cup Reaching \cup {"none"} \subseteq Named
  /\ \A s \in Servers : Offers[s] \subseteq Named
<1>1. Base \cup Personal \cup Reaching \cup {"none"} \subseteq Named
  BY DEF Named
<1>2. ASSUME NEW s \in Servers
      PROVE  Offers[s] \subseteq Named
  BY DEF Named, Listed
<1>3. QED BY <1>1, <1>2

LEMMA NoCallOK == NoCall \in Tool
  BY NamedOK DEF NoCall, Tool

LEMMA OffOK ==
  /\ Bounded(Off) /\ Off.profile = "none" /\ Off.at = "off"
  /\ \A how \in {"off", "ended", "raised"} :
       Bounded(Over(how)) /\ Over(how).profile = "none" /\ Over(how).at = how
<1>1. Off \in Record /\ Off.profile = "none" /\ Off.at = "off" /\ Off.round = 0
  BY NoCallOK DEF Off, Record
<1>2. ASSUME NEW how \in {"off", "ended", "raised"}
      PROVE  /\ Over(how) \in Record /\ Over(how).profile = "none" /\ Over(how).at = how
             /\ Over(how).round = 0
  BY <1>1 DEF Over, Record
<1>3. QED BY <1>1, <1>2, RoundsOK DEF Bounded

LEMMA FreshOK ==
  ASSUME NEW profile \in (DOMAIN Profiles) \cup {"none"}, NEW expects \in BOOLEAN
  PROVE  /\ Bounded(Fresh(profile, expects))
         /\ Fresh(profile, expects).profile = profile
         /\ Fresh(profile, expects).at = "model"
<1>1. /\ Fresh(profile, expects) \in Record /\ Fresh(profile, expects).round = 1
      /\ Fresh(profile, expects).profile = profile /\ Fresh(profile, expects).at = "model"
  BY NoCallOK DEF Fresh, Off, Record
<1>2. Rounds(Fresh(profile, expects)) \in Nat \ {0}
  BY RoundsOK
<1>3. QED BY <1>1, <1>2 DEF Bounded

LEMMA NextRoundOK ==
  ASSUME NEW r, Bounded(r)
  PROVE  /\ Bounded(NextRound(r)) /\ NextRound(r).profile = r.profile
         /\ NextRound(r).at \in {"model", "last"}
<1>1. r \in Record /\ r.round <= Rounds(r)
  BY DEF Bounded
<1>2. r.round \in Nat /\ Rounds(r) \in Nat
  <2>1. r.round \in Nat
    BY <1>1 DEF Record
  <2>2. QED BY <2>1, RoundsOK
<1>3. /\ NextRound(r) \in Record /\ NextRound(r).profile = r.profile
      /\ NextRound(r).at \in {"model", "last"} /\ NextRound(r).round <= Rounds(r)
  <2>1. CASE r.round < Rounds(r)
    <3>1. NextRound(r) = [r EXCEPT !.at = "model", !.round = @ + 1, !.call = NoCall]
      BY <2>1 DEF NextRound
    <3>2. r.round + 1 \in Nat /\ r.round + 1 <= Rounds(r)
      BY <1>2, <2>1
    <3>3. NextRound(r).round = r.round + 1
      BY <1>1, <3>1 DEF Record
    <3>4. NextRound(r) \in Record
      BY <1>1, <3>1, <3>2, NoCallOK DEF Record
    <3>5. NextRound(r).profile = r.profile /\ NextRound(r).at = "model"
      BY <1>1, <3>1 DEF Record
    <3>6. QED BY <3>2, <3>3, <3>4, <3>5
  <2>2. CASE ~(r.round < Rounds(r))
    <3>1. NextRound(r) = [Off EXCEPT !.at = "last", !.profile = r.profile, !.round = r.round]
      BY <2>2 DEF NextRound
    <3>2. QED BY <1>1, <1>2, <3>1, NoCallOK DEF Record, Off
  <2>3. QED BY <2>1, <2>2
<1>4. Rounds(NextRound(r)) = Rounds(r)
  BY <1>3 DEF Rounds
<1>5. QED BY <1>3, <1>4 DEF Bounded

LEMMA DoneOK ==
  ASSUME NEW r, Bounded(r)
  PROVE  /\ Bounded(Done(r)) /\ Done(r).profile = r.profile
         /\ Done(r).at \in {"model", "last"}
<1> DEFINE q == [r EXCEPT !.refused = @ \ {r.call},
                          !.expects = @ /\ r.call.name \notin Expectable]
<1>1. Bounded(q) /\ q.profile = r.profile
  BY DEF Bounded, Record, Rounds
<1> HIDE DEF q
<1>2. QED BY <1>1, NextRoundOK DEF Done, q

LEMMA RefusedOK ==
  ASSUME NEW r, Bounded(r)
  PROVE  /\ Bounded(Refused(r)) /\ Refused(r).profile = r.profile
         /\ Refused(r).at \in {"model", "last"}
<1> DEFINE q == [r EXCEPT !.refused = @ \cup {r.call}]
<1>1. Bounded(q) /\ q.profile = r.profile
  BY DEF Bounded, Record, Rounds
<1> HIDE DEF q
<1>2. QED BY <1>1, NextRoundOK DEF Refused, q

----------------------------------------------------------------------------
(* The inductive invariant.                                                *)

\* What is callable may be called, what is proposable only proposed, and each came of a
\* server that is connected.
Registry ==
  /\ \A t \in routes :
       /\ t.via = "mcp" /\ t.from \in Servers
       /\ t.name \notin Deny[t.from] \cup Propose[t.from]
       /\ t.from \in ReadOnly => t.name \notin Mutating
       /\ health[t.from] \in {"ok", "degraded"}
  /\ \A t \in proposable : t.via = "proposer"

\* A specialist at work has a profile.
Staffed ==
  \A l \in Workers : loop[l].at \in {"model", "call"} => loop[l].profile \in DOMAIN Profiles

Inv == TypeOK /\ Registry /\ Staffed /\ Confined /\ HealthIsTrue

LEMMA InitInv == Init => Inv
<1> SUFFICES ASSUME Init PROVE Inv
  OBVIOUS
<1>1. loop = [l \in Loops |-> Off]
  BY DEF Init
<1>2. \A l \in Loops : loop[l] = Off
  BY <1>1
<1>3. Turn \in Loops /\ Workers \subseteq Loops
  BY DEF Turn, Workers, Loops
<1>4. TypeOK
  BY <1>1, <1>2, <1>3, OffOK DEF Init, TypeOK, Bounded
<1>5. Registry /\ HealthIsTrue
  BY DEF Init, Registry, HealthIsTrue
<1>6. Staffed /\ Confined
  BY <1>2, <1>3, OffOK DEF Staffed, Confined
<1>7. QED BY <1>4, <1>5, <1>6 DEF Inv

----------------------------------------------------------------------------
(* What a loop can be offered.                                             *)

\* What Confined says of one call.
Proper(l, c) ==
  LET own == l = Turn /\ caller = "person" IN
  /\ c.via = "native" /\ c.name \in Personal \cup Reaching => own
  /\ c.via = "native" => loop[l].profile # "researcher"
  /\ c.via = "proposer" =>
       own \/ (l # Turn /\ bg = "running" /\ loop[l].profile = "scribe")
  /\ c.via = "mcp" =>
       /\ c.name \notin Deny[c.from] \cup Propose[c.from]
       /\ c.from \in ReadOnly => c.name \notin Mutating
       /\ health[c.from] \in {"ok", "degraded"}
       /\ loop[l].profile = "researcher" => c.from \in {"search", "fetch"}

LEMMA NativeIs ==
  /\ \A t \in SubNative : t \in Tool /\ t.via = "native" /\ t.name \notin Personal \cup Reaching
  /\ \A t \in Native(Personal, Reaching) : t \in Tool /\ t.via = "native"
  BY NamedOK, ToolsAssumption DEF SubNative, Native, Of, Tool

LEMMA TurnIsOffered ==
  ASSUME Inv, NEW t \in ForTurn
  PROVE  t \in Tool /\ Proper(Turn, t)
<1>1. CASE t \in routes
  BY <1>1 DEF Inv, TypeOK, Registry, Proper
<1>2. CASE caller = "person" /\ t \notin routes
  BY <1>2, NativeIs DEF ForTurn, Inv, TypeOK, Registry, Proper
<1>3. CASE caller # "person" /\ t \notin routes
  BY <1>3, NativeIs DEF ForTurn, Inv, TypeOK, Proper
<1>4. QED BY <1>1, <1>2, <1>3

LEMMA WorkerIsOffered ==
  ASSUME Inv, NEW l \in Workers, loop[l].at = "model", NEW t \in ForWorker(loop[l].profile)
  PROVE  t \in Tool /\ Proper(l, t)
<1> DEFINE profile == loop[l].profile
<1>1. profile \in {"researcher", "archivist", "scribe", "analyst"} /\ l # Turn
  BY NamesAreStrings DEF Inv, Staffed, Workers, Turn
<1>2. CASE t \in routes
  <2>1. profile = "researcher" => t.from \in {"search", "fetch"}
    BY <1>2, NativeIs DEF ForWorker, Profiles, Inv, Registry
  <2>2. QED BY <1>2, <2>1 DEF Inv, TypeOK, Registry, Proper
<1>3. CASE t \in SubNative /\ t \notin routes
  <2>1. profile # "researcher"
    BY <1>3 DEF ForWorker, Profiles, Inv, Registry
  <2>2. QED BY <1>1, <1>3, <2>1, NativeIs DEF Proper
<1>4. CASE t \notin SubNative \cup routes
  <2>1. t \in proposable /\ bg = "running" /\ profile = "scribe"
    BY <1>1, <1>4 DEF ForWorker, Profiles
  <2>2. QED BY <1>1, <2>1 DEF Inv, TypeOK, Registry, Proper
<1>5. QED BY <1>2, <1>3, <1>4

----------------------------------------------------------------------------
(* The steps of loops.                                                     *)

Stopped == {"call", "wait"}

\* What a loop has called after a step was proper before it, and the step changed
\* nothing that made it so.
Meant(l) ==
  loop'[l].at \in Stopped /\ loop'[l].call # NoCall =>
    /\ Proper(l, loop'[l].call)
    /\ loop'[l].profile = loop[l].profile
    /\ l = Turn => caller' = caller
    /\ l # Turn /\ bg = "running" => bg' = bg

\* A loop after a step: within its rounds, with a profile where it needs one.
Sound(l) ==
  /\ Bounded(loop'[l])
  /\ l = Turn => loop'[l].profile = "none"
  /\ l # Turn /\ loop'[l].at \in {"model", "call"} => loop'[l].profile \in DOMAIN Profiles
  /\ Meant(l)

LEMMA LoopsAre == Turn \in Loops /\ Loops = {Turn} \cup Workers /\ Turn \notin Workers
  BY DEF Loops, Turn, Workers

LEMMA WasProper ==
  ASSUME Inv, NEW l \in Loops, loop[l].at \in Stopped, loop[l].call # NoCall
  PROVE  Proper(l, loop[l].call)
  BY DEF Inv, Confined, Proper, Stopped

\* A loop nothing happened to.
LEMMA StaysSound ==
  ASSUME Inv, NEW l \in Loops, loop'[l] = loop[l],
         l = Turn => caller' = caller, l # Turn /\ bg = "running" => bg' = bg
  PROVE  Sound(l)
<1>1. Meant(l)
  BY WasProper DEF Meant
<1>2. QED BY <1>1, LoopsAre DEF Sound, Inv, TypeOK, Bounded, Staffed

\* A loop that has called nothing.
LEMMA MovesOn ==
  ASSUME NEW l \in Loops, Bounded(loop'[l]), loop'[l].at \notin Stopped,
         l = Turn => loop'[l].profile = "none",
         l # Turn /\ loop'[l].at \in {"model", "call"} => loop'[l].profile \in DOMAIN Profiles
  PROVE  Sound(l)
  BY DEF Sound, Meant

\* A step that leaves the registry alone keeps the invariant when every loop is sound.
LEMMA LoopsStep ==
  ASSUME Inv, UNCHANGED registry, loop' = [l \in Loops |-> loop'[l]],
         \A l \in Loops : Sound(l),
         caller' \in {"person", "peer"},
         bg' \in {"none", "started", "running", "done", "failed", "lost"}
  PROVE  Inv'
<1>1. health' = health /\ routes' = routes /\ proposable' = proposable
  BY DEF registry
<1>2. loop' \in [Loops -> Record]
  BY DEF Sound, Bounded
<1>3. TypeOK'
  BY <1>1, <1>2, LoopsAre DEF Inv, TypeOK, Sound, Bounded
<1>4. Registry' /\ HealthIsTrue'
  BY <1>1 DEF Inv, Registry, HealthIsTrue
<1>5. Staffed'
  BY LoopsAre DEF Sound, Staffed
<1>6. Confined'
  <2> SUFFICES ASSUME NEW l \in Loops, loop'[l].at \in Stopped, loop'[l].call # NoCall
               PROVE  Proper(l, loop[l].call)'
    BY DEF Confined, Proper, Stopped
  <2>1. /\ Proper(l, loop'[l].call) /\ loop'[l].profile = loop[l].profile
        /\ l = Turn => caller' = caller
        /\ l # Turn /\ bg = "running" => bg' = bg
    BY DEF Sound, Meant
  <2>2. QED BY <1>1, <2>1 DEF Proper
<1>7. QED BY <1>3, <1>4, <1>5, <1>6 DEF Inv

\* One loop goes on by itself.
LEMMA OneStep ==
  ASSUME Inv, NEW l \in Loops, NEW r, loop' = [loop EXCEPT ![l] = r],
         UNCHANGED registry, caller' = caller,
         bg' = bg \/ (bg = "none" /\ bg' = "started"),
         loop'[l] = r => Sound(l)
  PROVE  Inv'
<1>1. /\ loop' = [m \in Loops |-> loop'[m]] /\ loop'[l] = r
      /\ \A m \in Loops \ {l} : loop'[m] = loop[m]
  BY DEF Inv, TypeOK
<1>2. /\ UNCHANGED registry /\ caller' = caller
      /\ caller' \in {"person", "peer"}
      /\ bg' \in {"none", "started", "running", "done", "failed", "lost"}
      /\ bg = "running" => bg' = bg
  BY DEF Inv, TypeOK
<1>3. ASSUME NEW m \in Loops
      PROVE  Sound(m)
  <2>1. CASE m = l
    BY <1>1, <2>1
  <2>2. CASE m # l
    BY <1>1, <1>2, <2>2, StaysSound
  <2>3. QED BY <2>1, <2>2
<1>4. QED BY <1>1, <1>2, <1>3, LoopsStep

\* The rounds of a loop, and its profile.
LEMMA RoundOf ==
  ASSUME Inv, NEW l \in Loops
  PROVE  /\ Bounded(loop[l])
         /\ l = Turn => loop[l].profile = "none"
         /\ l # Turn /\ loop[l].at \in {"model", "call"} => loop[l].profile \in DOMAIN Profiles
  BY LoopsAre DEF Inv, TypeOK, Bounded, Staffed

LEMMA AnswersStep == ASSUME Inv, NEW l \in Loops, Answers(l) PROVE Inv'
<1>1. PICK r : /\ loop' = [loop EXCEPT ![l] = r]
               /\ \/ /\ loop[l].at = "model"
                     /\ r = NextRound([loop[l] EXCEPT !.nudged = TRUE])
                  \/ r = Over("ended")
  BY DEF Answers
<1>2. ASSUME loop'[l] = r
      PROVE  Sound(l)
  <2>1. CASE r = Over("ended")
    BY <1>2, <2>1, OffOK, MovesOn DEF Stopped
  <2>2. CASE loop[l].at = "model" /\ r = NextRound([loop[l] EXCEPT !.nudged = TRUE])
    <3>1. PICK q : q = [loop[l] EXCEPT !.nudged = TRUE]
      OBVIOUS
    <3>2. Bounded(q) /\ q.profile = loop[l].profile
      BY <3>1, RoundOf DEF Bounded, Record, Rounds
    <3>3. Bounded(r) /\ r.profile = loop[l].profile /\ r.at \in {"model", "last"}
      BY <2>2, <3>1, <3>2, NextRoundOK
    <3>4. QED BY <1>2, <2>2, <3>3, RoundOf, MovesOn DEF Stopped
  <2>3. QED BY <1>1, <2>1, <2>2
<1>3. UNCHANGED registry /\ caller' = caller /\ bg' = bg
  BY DEF Answers
<1>4. QED BY <1>1, <1>2, <1>3, OneStep

LEMMA RaisesStep == ASSUME Inv, NEW l \in Loops, Raises(l) PROVE Inv'
<1>1. loop' = [loop EXCEPT ![l] = Over("raised")] /\ UNCHANGED registry /\ caller' = caller /\ bg' = bg
  BY DEF Raises
<1>2. loop'[l] = Over("raised") => Sound(l)
  BY OffOK, MovesOn DEF Stopped
<1>3. QED BY <1>1, <1>2, OneStep

LEMMA CallsStep == ASSUME Inv, NEW l \in Loops, Calls(l) PROVE Inv'
<1>1. PICK t \in Offered(l) \cup {NoCall} :
        loop' = [loop EXCEPT ![l].at = "call", ![l].call = t]
  BY DEF Calls
<1>2. loop[l].at = "model" /\ UNCHANGED registry /\ caller' = caller /\ bg' = bg
  BY DEF Calls
<1>3. PICK r : r = [loop[l] EXCEPT !.at = "call", !.call = t]
  OBVIOUS
<1>4. loop' = [loop EXCEPT ![l] = r]
  BY <1>1, <1>3 DEF Inv, TypeOK
<1>5. t \in Tool /\ (t # NoCall => Proper(l, t))
  <2>1. CASE t = NoCall
    BY <2>1, NoCallOK
  <2>2. CASE t # NoCall /\ l = Turn
    BY <1>1, <2>2, TurnIsOffered DEF Offered
  <2>3. CASE t # NoCall /\ l # Turn
    BY <1>1, <1>2, <2>3, WorkerIsOffered, LoopsAre DEF Offered
  <2>4. QED BY <2>1, <2>2, <2>3
<1>6. Bounded(r) /\ r.profile = loop[l].profile /\ r.call = t
  BY <1>3, <1>5, RoundOf DEF Bounded, Record, Rounds
<1>7. ASSUME loop'[l] = r
      PROVE  Sound(l)
  <2>1. Meant(l)
    BY <1>2, <1>5, <1>6, <1>7 DEF Meant
  <2>2. QED BY <1>2, <1>6, <1>7, <2>1, RoundOf DEF Sound
<1>8. QED BY <1>2, <1>4, <1>7, OneStep

LEMMA CallEndsStep == ASSUME Inv, NEW l \in Loops, CallEnds(l) PROVE Inv'
<1>1. PICK r : /\ loop' = [loop EXCEPT ![l] = r]
               /\ r = Done(loop[l]) \/ r = Refused(loop[l])
  BY DEF CallEnds
<1>2. UNCHANGED registry /\ caller' = caller /\ bg' = bg
  BY DEF CallEnds
<1>3. Bounded(r) /\ r.profile = loop[l].profile /\ r.at \in {"model", "last"}
  BY <1>1, RoundOf, DoneOK, RefusedOK
<1>4. loop[l].at = "call"
  BY DEF CallEnds
<1>5. ASSUME loop'[l] = r
      PROVE  Sound(l)
  BY <1>3, <1>4, <1>5, RoundOf, MovesOn DEF Stopped
<1>6. QED BY <1>1, <1>2, <1>5, OneStep

----------------------------------------------------------------------------
(* The steps of several loops, and of what is registered.                  *)

\* A team is set to work, and the turn goes on as "after".
LEMMA FanOutStep ==
  ASSUME Inv, NEW after, FanOut(after), UNCHANGED registry, caller' = caller,
         bg' \in {"none", "started", "running", "done", "failed", "lost"},
         loop'[Turn] = after => Sound(Turn)
  PROVE  Inv'
<1>1. PICK team \in [Workers -> (DOMAIN Profiles) \cup {"none"}] :
        loop' = [l \in Loops |-> IF l = Turn THEN after
                               ELSE IF team[l] = "none" THEN Off ELSE Fresh(team[l], FALSE)]
  BY DEF FanOut
<1>2. ASSUME NEW l \in Workers
      PROVE  Sound(l)
  <2>1. l \in Loops /\ l # Turn
    BY LoopsAre
  <2>2. CASE team[l] = "none"
    BY <1>1, <2>1, <2>2, OffOK, MovesOn DEF Stopped
  <2>3. CASE team[l] # "none"
    <3>1. team[l] \in DOMAIN Profiles /\ loop'[l] = Fresh(team[l], FALSE)
      BY <1>1, <2>1, <2>3
    <3>2. QED BY <2>1, <3>1, FreshOK, MovesOn DEF Stopped
  <2>4. QED BY <2>2, <2>3
<1>3. loop'[Turn] = after /\ loop' = [l \in Loops |-> loop'[l]]
  BY <1>1, LoopsAre
<1>4. caller' \in {"person", "peer"}
  BY DEF Inv, TypeOK
<1>5. \A l \in Loops : Sound(l)
  BY <1>2, <1>3, LoopsAre
<1>6. QED BY <1>3, <1>4, <1>5, LoopsStep

LEMMA DelegatesStep == ASSUME Inv, Delegates PROVE Inv'
<1>1. PICK after : after = [loop[Turn] EXCEPT !.at = "wait"]
  OBVIOUS
<1>2. /\ loop[Turn].at = "call" /\ FanOut(after)
      /\ UNCHANGED registry /\ caller' = caller /\ bg' = bg
  BY <1>1 DEF Delegates
<1>3. Bounded(after) /\ after.profile = "none" /\ after.call = loop[Turn].call /\ after.at = "wait"
  BY <1>1, RoundOf, LoopsAre DEF Bounded, Record, Rounds
<1>4. ASSUME loop'[Turn] = after
      PROVE  Sound(Turn)
  <2>1. loop[Turn].call # NoCall => Proper(Turn, loop[Turn].call)
    BY <1>2, WasProper, LoopsAre DEF Stopped
  <2>2. loop[Turn].profile = "none"
    BY RoundOf, LoopsAre
  <2>3. Meant(Turn)
    BY <1>2, <1>3, <1>4, <2>1, <2>2 DEF Meant
  <2>4. QED BY <1>3, <1>4, <2>3 DEF Sound
<1>5. bg' \in {"none", "started", "running", "done", "failed", "lost"}
  BY <1>2 DEF Inv, TypeOK
<1>6. QED BY <1>2, <1>4, <1>5, FanOutStep

LEMMA SpawnsStep == ASSUME Inv, Spawns PROVE Inv'
<1>1. PICK r : r = Done(loop[Turn])
  OBVIOUS
<1>2. /\ loop' = [loop EXCEPT ![Turn] = r] /\ UNCHANGED registry /\ caller' = caller
      /\ bg = "none" /\ bg' = "started"
  BY <1>1 DEF Spawns
<1>3. Bounded(r) /\ r.profile = "none" /\ r.at \in {"model", "last"}
  BY <1>1, RoundOf, DoneOK, LoopsAre
<1>4. ASSUME loop'[Turn] = r
      PROVE  Sound(Turn)
  BY <1>3, <1>4, MovesOn, LoopsAre DEF Stopped
<1>5. QED BY <1>2, <1>4, OneStep, LoopsAre

LEMMA BackBeginsStep == ASSUME Inv, BackBegins PROVE Inv'
<1>1. FanOut(Off) /\ UNCHANGED registry /\ caller' = caller /\ bg' = "running"
  BY DEF BackBegins
<1>2. ASSUME loop'[Turn] = Off
      PROVE  Sound(Turn)
  BY <1>2, OffOK, MovesOn, LoopsAre DEF Stopped
<1>3. QED BY <1>1, <1>2, FanOutStep

\* A team is done with, and the turn goes on as "after".
LEMMA DisbandedStep ==
  ASSUME Inv, NEW after, loop' = Disbanded(after), UNCHANGED registry,
         caller' \in {"person", "peer"},
         bg' \in {"none", "started", "running", "done", "failed", "lost"},
         loop'[Turn] = after => Sound(Turn)
  PROVE  Inv'
<1>1. loop' = [l \in Loops |-> loop'[l]] /\ loop'[Turn] = after
  BY LoopsAre DEF Disbanded
<1>2. ASSUME NEW l \in Workers
      PROVE  Sound(l)
  <2>1. l \in Loops /\ l # Turn /\ loop'[l] = Off
    BY LoopsAre DEF Disbanded
  <2>2. QED BY <2>1, OffOK, MovesOn DEF Stopped
<1>3. \A l \in Loops : Sound(l)
  BY <1>1, <1>2, LoopsAre
<1>4. QED BY <1>1, <1>3, LoopsStep

LEMMA TurnJoinsStep == ASSUME Inv, TurnJoins PROVE Inv'
<1>1. PICK after : /\ loop' = Disbanded(after)
                 /\ \/ after = Over("raised")
                    \/ after = Done(loop[Turn])
                    \/ after = Refused(loop[Turn])
  BY DEF TurnJoins
<1>2. UNCHANGED registry /\ caller' = caller /\ bg' = bg
  BY DEF TurnJoins
<1>3. Bounded(after) /\ after.profile = "none" /\ after.at \in {"raised", "model", "last"}
  BY <1>1, RoundOf, OffOK, DoneOK, RefusedOK, LoopsAre
<1>4. ASSUME loop'[Turn] = after
      PROVE  Sound(Turn)
  BY <1>3, <1>4, MovesOn, LoopsAre DEF Stopped
<1>5. /\ caller' \in {"person", "peer"}
      /\ bg' \in {"none", "started", "running", "done", "failed", "lost"}
  BY <1>2 DEF Inv, TypeOK
<1>6. QED BY <1>1, <1>2, <1>4, <1>5, DisbandedStep

LEMMA BackJoinsStep == ASSUME Inv, BackJoins PROVE Inv'
<1>1. /\ loop' = Disbanded(loop[Turn]) /\ UNCHANGED registry /\ caller' = caller
      /\ bg' \in {"done", "failed"}
  BY DEF BackJoins, Finished
<1>2. ASSUME loop'[Turn] = loop[Turn]
      PROVE  Sound(Turn)
  BY <1>1, <1>2, StaysSound, LoopsAre
<1>3. caller' \in {"person", "peer"}
  BY <1>1 DEF Inv, TypeOK
<1>4. QED BY <1>1, <1>2, <1>3, DisbandedStep

LEMMA AskStep == ASSUME Inv, Ask PROVE Inv'
<1>1. PICK who \in {"person", "peer"}, expects \in BOOLEAN :
        /\ caller' = who
        /\ loop' = [loop EXCEPT ![Turn] = Fresh("none", expects)]
  BY DEF Ask
<1>2. UNCHANGED registry /\ bg' = bg
  BY DEF Ask
<1>3. /\ loop' = [l \in Loops |-> loop'[l]] /\ loop'[Turn] = Fresh("none", expects)
      /\ \A l \in Workers : loop'[l] = loop[l]
  BY <1>1, LoopsAre DEF Inv, TypeOK
<1>4. Sound(Turn)
  BY <1>3, FreshOK, MovesOn, LoopsAre DEF Stopped
<1>5. ASSUME NEW l \in Workers
      PROVE  Sound(l)
  BY <1>2, <1>3, StaysSound, LoopsAre
<1>6. /\ caller' \in {"person", "peer"}
      /\ bg' \in {"none", "started", "running", "done", "failed", "lost"}
  BY <1>1, <1>2 DEF Inv, TypeOK
<1>7. QED BY <1>2, <1>3, <1>4, <1>5, <1>6, LoopsStep, LoopsAre

\* A new process knows no server and runs no loop, as at first.
LEMMA RestartStep == ASSUME Inv, Restart PROVE Inv'
<1>1. /\ health' = [s \in Servers |-> "unseen"] /\ routes' = {} /\ proposable' = {}
      /\ loop' = [l \in Loops |-> Off] /\ caller' = "person"
  BY DEF Restart
<1>2. \A l \in Loops : loop'[l] = Off
  BY <1>1
<1>3. bg' \in {"none", "started", "running", "done", "failed", "lost"}
  BY DEF Restart, Inv, TypeOK
<1>4. TypeOK'
  BY <1>1, <1>2, <1>3, LoopsAre, OffOK DEF TypeOK, Bounded
<1>5. Registry' /\ HealthIsTrue'
  BY <1>1 DEF Registry, HealthIsTrue
<1>6. Staffed' /\ Confined'
  BY <1>2, LoopsAre, OffOK DEF Staffed, Confined
<1>7. QED BY <1>4, <1>5, <1>6 DEF Inv

\* What a server lists is sorted into what is called, what is proposed and neither.
LEMMA SortedOK ==
  ASSUME NEW s \in Servers, NEW listed \in SUBSET Offers[s]
  PROVE  /\ Of("mcp", s, Filtered(s, listed)) \subseteq Tool
         /\ Of("proposer", s, Gated(s, listed)) \subseteq Tool
         /\ \A t \in Of("mcp", s, Filtered(s, listed)) :
              /\ t.via = "mcp" /\ t.from = s
              /\ t.name \notin Deny[s] \cup Propose[s]
              /\ s \in ReadOnly => t.name \notin Mutating
         /\ \A t \in Of("proposer", s, Gated(s, listed)) : t.via = "proposer"
         /\ Missing(s, listed) = {} =>
              \A t \in Required[s] :
                \E u \in Of("mcp", s, Filtered(s, listed)) \cup Of("proposer", s, Gated(s, listed)) :
                  u.from = s /\ u.name = t
<1>1. listed \subseteq Named
  BY NamedOK
<1>2. /\ Filtered(s, listed) \subseteq listed \ (Deny[s] \cup Propose[s])
      /\ s \in ReadOnly => Filtered(s, listed) \cap Mutating = {}
      /\ Gated(s, listed) \subseteq listed
  BY DEF Filtered, Gated
<1>3. Missing(s, listed) = {} => Required[s] \subseteq Filtered(s, listed) \cup Gated(s, listed)
  BY DEF Missing
<1>4. PICK called, gated : called = Filtered(s, listed) /\ gated = Gated(s, listed)
  OBVIOUS
<1>5. Of("mcp", s, called) \subseteq Tool /\ Of("proposer", s, gated) \subseteq Tool
  BY <1>1, <1>2, <1>4 DEF Of, Tool
<1>6. \A t \in Of("mcp", s, called) : t.via = "mcp" /\ t.from = s /\ t.name \in called
  BY DEF Of
<1>7. \A t \in Of("proposer", s, gated) : t.via = "proposer"
  BY DEF Of
<1>8. /\ \A t \in called : \E u \in Of("mcp", s, called) : u.from = s /\ u.name = t
      /\ \A t \in gated : \E u \in Of("proposer", s, gated) : u.from = s /\ u.name = t
  <2>1. ASSUME NEW via, NEW names, NEW t \in names
        PROVE  \E u \in Of(via, s, names) : u.from = s /\ u.name = t
    <3>1. [via |-> via, from |-> s, name |-> t] \in Of(via, s, names)
      BY DEF Of
    <3>2. QED BY <3>1
  <2>2. QED BY <2>1
<1>9. QED BY <1>2, <1>3, <1>4, <1>5, <1>6, <1>7, <1>8

\* What connecting registers: nothing, or what was listed, sorted; in health when nothing
\* that was promised is missing.
Registers(s, called, gated, how) ==
  /\ health' = [health EXCEPT ![s] = how] /\ how \in {"failed", "degraded", "ok"}
  /\ routes' = routes \cup called /\ proposable' = proposable \cup gated
  /\ called \subseteq Tool /\ gated \subseteq Tool
  /\ \A t \in called :
       /\ t.via = "mcp" /\ t.from = s
       /\ t.name \notin Deny[s] \cup Propose[s]
       /\ s \in ReadOnly => t.name \notin Mutating
       /\ how \in {"degraded", "ok"}
  /\ \A t \in gated : t.via = "proposer"
  /\ how = "ok" => \A t \in Required[s] : \E u \in called \cup gated : u.from = s /\ u.name = t

LEMMA ConnectDoes ==
  ASSUME NEW s \in Servers, Connect(s)
  PROVE  \E called, gated, how : Registers(s, called, gated, how)
<1>1. CASE health' = [health EXCEPT ![s] = "failed"] /\ UNCHANGED <<routes, proposable>>
  <2>1. Registers(s, {}, {}, "failed")
    BY <1>1 DEF Registers
  <2>2. QED BY <2>1
<1>2. CASE \E gone \in SUBSET Required[s] :
             /\ routes' = routes \cup Of("mcp", s, Filtered(s, Offers[s] \ gone))
             /\ proposable' = proposable \cup Of("proposer", s, Gated(s, Offers[s] \ gone))
             /\ health' = [health EXCEPT ![s] =
                             IF Missing(s, Offers[s] \ gone) = {} THEN "ok" ELSE "degraded"]
  <2>1. PICK listed \in SUBSET Offers[s] :
          /\ routes' = routes \cup Of("mcp", s, Filtered(s, listed))
          /\ proposable' = proposable \cup Of("proposer", s, Gated(s, listed))
          /\ health' = [health EXCEPT ![s] =
                          IF Missing(s, listed) = {} THEN "ok" ELSE "degraded"]
    BY <1>2
  <2>2. PICK how : how = IF Missing(s, listed) = {} THEN "ok" ELSE "degraded"
    OBVIOUS
  <2>3. Registers(s, Of("mcp", s, Filtered(s, listed)), Of("proposer", s, Gated(s, listed)), how)
    BY <2>1, <2>2, SortedOK DEF Registers
  <2>4. QED BY <2>3
<1>3. QED BY <1>1, <1>2 DEF Connect

LEMMA ConnectStep == ASSUME Inv, NEW s \in Servers, Connect(s) PROVE Inv'
<1>1. PICK called, gated, how : Registers(s, called, gated, how)
  BY ConnectDoes
<1>2. health[s] = "unseen" /\ loop' = loop /\ caller' = caller /\ bg' = bg
  BY DEF Connect
<1>3. /\ health' \in [Servers -> {"unseen", "failed", "degraded", "ok"}] /\ health'[s] = how
      /\ \A o \in Servers \ {s} : health'[o] = health[o]
  BY <1>1 DEF Registers, Inv, TypeOK
<1>4. TypeOK'
  BY <1>1, <1>2, <1>3 DEF Registers, Inv, TypeOK
<1>5. Registry'
  <2>1. ASSUME NEW t \in routes
        PROVE  t.from # s /\ health'[t.from] = health[t.from]
    BY <1>2, <1>3 DEF Inv, Registry
  <2>2. QED BY <1>1, <1>3, <2>1 DEF Registers, Inv, Registry
<1>6. HealthIsTrue'
  <2> SUFFICES ASSUME NEW o \in Servers, health'[o] = "ok", NEW t \in Required[o]
               PROVE  \E u \in routes' \cup proposable' : u.from = o /\ u.name = t
    BY DEF HealthIsTrue
  <2>1. CASE o = s
    BY <1>1, <1>3, <2>1 DEF Registers
  <2>2. CASE o # s
    <3>1. PICK u \in routes \cup proposable : u.from = o /\ u.name = t
      BY <1>3, <2>2 DEF Inv, HealthIsTrue
    <3>2. QED BY <1>1, <3>1 DEF Registers
  <2>3. QED BY <2>1, <2>2
<1>7. Staffed'
  BY <1>2 DEF Inv, Staffed
<1>8. Confined'
  <2> SUFFICES ASSUME NEW l \in Loops, loop[l].at \in Stopped, loop[l].call # NoCall
               PROVE  Proper(l, loop[l].call)'
    BY <1>2 DEF Confined, Proper, Stopped
  <2>1. Proper(l, loop[l].call)
    BY WasProper
  <2>2. ASSUME NEW o, health[o] \in {"ok", "degraded"}
        PROVE  health'[o] = health[o]
    BY <1>1, <1>2, <2>2 DEF Registers, Inv, TypeOK
  <2>3. QED BY <1>2, <2>1, <2>2 DEF Proper
<1>9. QED BY <1>4, <1>5, <1>6, <1>7, <1>8 DEF Inv

LEMMA StutterStep == ASSUME Inv, UNCHANGED vars PROVE Inv'
<1>1. /\ loop' = loop /\ caller' = caller /\ bg' = bg /\ UNCHANGED registry
      /\ health' = health /\ routes' = routes /\ proposable' = proposable
  BY DEF vars, registry
<1>2. TypeOK' /\ Registry' /\ Staffed' /\ HealthIsTrue'
  BY <1>1 DEF Inv, TypeOK, Registry, Staffed, HealthIsTrue
<1>3. Confined'
  BY <1>1 DEF Inv, Confined
<1>4. QED BY <1>2, <1>3 DEF Inv

----------------------------------------------------------------------------
(* The theorems.                                                           *)

\* In every behaviour of tool_reply's loops, the specialists, the background and the
\* servers of mcp.json, the inductive invariant holds.
THEOREM InvHolds == Spec => []Inv
<1>1. Init => Inv
  BY InitInv
<1>2. Inv /\ [Next]_vars => Inv'
  <2> SUFFICES ASSUME Inv, [Next]_vars PROVE Inv'
    OBVIOUS
  <2>1. ASSUME NEW s \in Servers, Connect(s) PROVE Inv'
    BY <2>1, ConnectStep
  <2>2. ASSUME NEW l \in Loops, Answers(l) \/ Calls(l) \/ CallEnds(l) \/ Raises(l) PROVE Inv'
    BY <2>2, AnswersStep, CallsStep, CallEndsStep, RaisesStep
  <2>3. CASE Ask \/ Delegates \/ Spawns
    BY <2>3, AskStep, DelegatesStep, SpawnsStep
  <2>4. CASE BackBegins \/ TurnJoins \/ BackJoins
    BY <2>4, BackBeginsStep, TurnJoinsStep, BackJoinsStep
  <2>5. CASE Restart
    BY <2>5, RestartStep
  <2>6. CASE UNCHANGED vars
    BY <2>6, StutterStep
  <2>7. QED BY <2>1, <2>2, <2>3, <2>4, <2>5, <2>6 DEF Next
<1>3. QED BY <1>1, <1>2, PTL DEF Spec

\* Types, and each loop's rounds within its own maximum: MAX_ROUNDS of a turn, the
\* profile's of a specialist (compose.tool_reply).
THEOREM TypeCorrect == Spec => []TypeOK
<1>1. Inv => TypeOK
  BY DEF Inv
<1>2. QED BY <1>1, InvHolds, PTL

\* Nobody runs a tool that was not meant for them (native_tools.py __init__,
\* subagents.py run, tools.py connect, server.py _answer_as_keeper).
THEOREM StaysConfined == Spec => []Confined
<1>1. Inv => Confined
  BY DEF Inv
<1>2. QED BY <1>1, InvHolds, PTL

\* A server that is said to be healthy has every tool it promised within reach
\* (tools.py connect).
THEOREM HealthIsTruthful == Spec => []HealthIsTrue
<1>1. Inv => HealthIsTrue
  BY DEF Inv
<1>2. QED BY <1>1, InvHolds, PTL

----------------------------------------------------------------------------
(* Reminders and jobs.                                                     *)

----------------------------------------------------------------------------
(* Recurrence.                                                             *)

LEMMA Calendar ==
  /\ Reminders \subseteq Nat /\ Jobs \subseteq Nat
  /\ Recurrences \subseteq Repeat /\ JobRecurrences \subseteq Repeat /\ Times \subseteq Nat
  /\ Day \in Nat \ {0} /\ Weekend \subseteq Nat
  /\ \A n \in Weekend : n + Day \notin Weekend \/ n + 2 * Day \notin Weekend
  /\ MaxWait \in Nat /\ MaxNow \in Nat /\ MaxCrashes \in Nat
  BY ScheduleAssumption

Earlier == {x \in Nat \X Nat : x[1] < x[2]}
LEMMA LeastIs ==
  ASSUME NEW S \in SUBSET Nat, S # {}
  PROVE  Min(S) \in S /\ \A n \in S : Min(S) <= n
<1>1. IsWellFoundedOn(Earlier, Nat)
  BY NatLessThanWellFounded DEF OpToRel, Earlier
<1>2. PICK m \in S : \A n \in S : <<n, m>> \notin Earlier
  BY <1>1, WFMin
<1>3. \A n \in S : m <= n
  <2>1. \A i, n \in Nat : i < n => <<i, n>> \in Earlier
    BY DEF Earlier
  <2>2. \A n \in S : m \in Nat /\ n \in Nat /\ ~(n < m)
    BY <1>2, <2>1
  <2>3. QED BY <2>2
<1>4. QED BY <1>3 DEF Min

LEMMA Multiples ==
  ASSUME NEW s \in Nat \ {0}
  PROVE  /\ \A k \in Nat : k * s \in Nat /\ k <= k * s
         /\ \A k \in Nat : (k + 1) * s = k * s + s /\ (k + 2) * s = k * s + s + s
         /\ \A k, n \in Nat : k <= n => k * s <= n * s
         /\ \A k, n \in Nat : k * s < n * s => k < n
         /\ \A a \in Nat : /\ a \div s \in Nat /\ (a \div s) * s <= a
                           /\ a < (a \div s) * s + s
<1>1. \A k \in Nat : k * s \in Nat /\ k <= k * s
  OBVIOUS
<1>2. \A k \in Nat : (k + 1) * s = k * s + s /\ (k + 2) * s = k * s + s + s
  OBVIOUS
<1>3. \A k, n \in Nat : k <= n => k * s <= n * s
  OBVIOUS
<1>4. \A k, n \in Nat : k * s < n * s => k < n
  OBVIOUS
<1>5. ASSUME NEW a \in Nat
      PROVE  a \div s \in Nat /\ (a \div s) * s <= a /\ a < (a \div s) * s + s
  OBVIOUS
<1>6. QED BY <1>1, <1>2, <1>3, <1>4, <1>5

\* A step of a fixed length skips what has passed in one go, and skips nothing else.
LEMMA EveryIs ==
  ASSUME NEW due \in Nat, NEW s \in Nat \ {0}, NEW t \in Nat
  PROVE  /\ Every(due, s, t) \in Nat /\ Every(due, s, t) > t
         /\ \E k \in 1..Every(due, s, t) : Every(due, s, t) = due + k * s
         /\ \A k \in Nat \ {0} : due + k * s > t => Every(due, s, t) <= due + k * s
<1>1. CASE due + s > t
  <2>1. Every(due, s, t) = due + s
    BY <1>1 DEF Every
  <2>2. 1 \in 1..(due + s) /\ due + s = due + 1 * s
    OBVIOUS
  <2>3. \A k \in Nat \ {0} : 1 * s <= k * s
    BY Multiples
  <2>4. \A k \in Nat \ {0} : due + s <= due + k * s
    BY <2>3, Multiples
  <2>5. QED BY <1>1, <2>1, <2>2, <2>4
<1>2. CASE due + s <= t
  <2>1. PICK a \in Nat : a = t - (due + s)
    BY <1>2
  <2>2. PICK q \in Nat : q = a \div s /\ q * s <= a /\ a < q * s + s /\ q * s \in Nat
    BY <2>1, Multiples
  <2>3. Every(due, s, t) = due + s + (q + 1) * s
    BY <1>2, <2>1, <2>2 DEF Every
  <2>4. (q + 1) * s = q * s + s /\ (q + 2) * s = q * s + s + s
    BY Multiples
  <2>5. PICK n \in Nat : n = due + (q + 2) * s /\ n = Every(due, s, t)
    BY <2>2, <2>3, <2>4
  <2>6. n > t
    BY <2>1, <2>2, <2>4, <2>5
  <2>7. q + 2 \in 1..n
    <3>1. q + 2 <= (q + 2) * s /\ (q + 2) * s \in Nat
      BY Multiples
    <3>2. QED BY <2>5, <3>1
  <2>8. ASSUME NEW k \in Nat \ {0}, due + k * s > t PROVE n <= due + k * s
    <3>1. k * s \in Nat /\ (q + 1) * s \in Nat /\ (q + 2) * s \in Nat
      BY Multiples
    <3>2. (q + 1) * s < k * s
      BY <2>1, <2>2, <2>4, <2>8, <3>1
    <3>3. q + 1 < k
      BY <3>2, Multiples
    <3>4. q + 2 <= k
      BY <3>3
    <3>5. (q + 2) * s <= k * s
      BY <3>4, Multiples
    <3>6. QED BY <2>5, <3>1, <3>5
  <2>9. QED BY <2>5, <2>6, <2>7, <2>8
<1>3. QED BY <1>1, <1>2

\* A weekday is found within t + 3 days, and none is passed over.
LEMMA WeekdayIs ==
  ASSUME NEW due \in Nat, NEW t \in Nat
  PROVE  /\ Weekday(due, t) \in Nat /\ Weekday(due, t) > t /\ Weekday(due, t) \notin Weekend
         /\ \E k \in 1..Weekday(due, t) : Weekday(due, t) = due + k * Day
         /\ \A k \in Nat \ {0} : due + k * Day > t /\ due + k * Day \notin Weekend =>
              Weekday(due, t) <= due + k * Day
<1>1. PICK S : S = {n \in {due + k * Day : k \in 1..(t + 3)} : n > t /\ n \notin Weekend}
  OBVIOUS
<1>2. \A k \in Nat : k * Day \in Nat /\ k <= k * Day
  BY Calendar, Multiples
<1>3. S \in SUBSET Nat
  <2>1. \A k \in 1..(t + 3) : due + k * Day \in Nat
    BY <1>2
  <2>2. QED BY <1>1, <2>1
<1>4. \E n \in S : n <= due + (t + 3) * Day
  <2>1. PICK n \in Nat : n = due + (t + 1) * Day
    BY <1>2
  <2>2. n > t /\ n + Day = due + (t + 2) * Day /\ n + 2 * Day = due + (t + 3) * Day
    <3>1. (t + 1) * Day >= t + 1 /\ (t + 1) * Day \in Nat
      BY <1>2
    <3>2. ((t + 1) + 1) * Day = (t + 1) * Day + Day /\ ((t + 1) + 2) * Day = (t + 1) * Day + Day + Day
      BY Calendar, Multiples
    <3>3. (t + 1) + 1 = t + 2 /\ (t + 1) + 2 = t + 3
      OBVIOUS
    <3>4. QED BY <2>1, <3>1, <3>2, <3>3, Calendar
  <2>3. n \notin Weekend \/ n + Day \notin Weekend \/ n + 2 * Day \notin Weekend
    BY Calendar
  <2>4. t + 1 \in 1..(t + 3) /\ t + 2 \in 1..(t + 3) /\ t + 3 \in 1..(t + 3)
    OBVIOUS
  <2>5. /\ n \notin Weekend => n \in S
        /\ n + Day \notin Weekend => n + Day \in S
        /\ n + 2 * Day \notin Weekend => n + 2 * Day \in S
    <3>1. n + Day > t /\ n + 2 * Day > t
      BY <2>2, Calendar
    <3>2. QED BY <1>1, <2>1, <2>2, <2>4, <3>1
  <2>6. n <= n + 2 * Day /\ n + Day <= n + 2 * Day
    BY Calendar
  <2>7. PICK top : top = due + (t + 3) * Day
    OBVIOUS
  <2>8. n <= top /\ n + Day <= top /\ n + 2 * Day <= top
    BY <2>2, <2>6, <2>7, Calendar
  <2>9. \E m \in S : m <= top
    BY <2>3, <2>5, <2>8
  <2>10. QED BY <2>7, <2>9
<1>5. PICK w : w = Weekday(due, t)
  OBVIOUS
<1>6. w \in S /\ \A n \in S : w <= n
  BY <1>1, <1>3, <1>4, <1>5, LeastIs DEF Weekday
<1>7. w \in Nat /\ w > t /\ w \notin Weekend
  BY <1>1, <1>3, <1>6
<1>8. PICK k \in 1..(t + 3) : w = due + k * Day
  BY <1>1, <1>6
<1>9. k \in 1..w
  BY <1>2, <1>7, <1>8
<1>10. ASSUME NEW i \in Nat \ {0}, due + i * Day > t, due + i * Day \notin Weekend
       PROVE  w <= due + i * Day
  <2>1. CASE i <= t + 3
    BY <1>1, <1>6, <1>10, <2>1
  <2>2. CASE i > t + 3
    <3>1. (t + 3) * Day <= i * Day /\ (t + 3) * Day \in Nat /\ i * Day \in Nat
      BY <2>2, <1>2, Calendar, Multiples
    <3>2. PICK n \in S : n <= due + (t + 3) * Day
      BY <1>4
    <3>3. QED BY <1>3, <1>6, <1>7, <3>1, <3>2
  <2>3. QED BY <2>1, <2>2
<1>11. QED BY <1>5, <1>7, <1>8, <1>9, <1>10

LEMMA NextIs ==
  ASSUME NEW due \in Nat, NEW repeat \in Repeat, NEW t \in Nat
  PROVE  LET n == NextOccurrence(due, repeat, t) IN
         IF Recurs(repeat) THEN n \in Nat /\ n # NoTime /\ n > t /\ FirstAfter(n, due, repeat, t)
                           ELSE n = NoTime
<1>1. repeat.kind \in {"once", "every", "weekdays"} /\ repeat.step \in Nat
  BY DEF Repeat
<1>2. PICK n : n = NextOccurrence(due, repeat, t)
  OBVIOUS
<1>3. CASE ~Recurs(repeat)
  BY <1>1, <1>3 DEF Recurs, NextOccurrence
<1>4. CASE repeat.kind = "weekdays"
  <2>1. n = Weekday(due, t) /\ Recurs(repeat)
    BY <1>2, <1>4 DEF NextOccurrence, Recurs
  <2>2. n \in Nat /\ n > t /\ Slot(n, due, repeat)
    BY <1>4, <2>1, WeekdayIs DEF Slot
  <2>3. ASSUME NEW m \in t + 1 .. n - 1, Slot(m, due, repeat) PROVE FALSE
    <3>1. PICK k \in 1..m : m = due + k * Day /\ m \notin Weekend
      BY <1>4, <2>3 DEF Slot
    <3>2. k \in Nat \ {0} /\ m > t /\ m \in Nat
      BY <2>2, <3>1
    <3>3. n <= m
      BY <2>1, <3>1, <3>2, WeekdayIs
    <3>4. QED BY <2>2, <3>2, <3>3
  <2>4. QED BY <1>2, <2>1, <2>2, <2>3 DEF FirstAfter, NoTime
<1>5. CASE repeat.kind = "every" /\ repeat.step > 0
  <2>1. n = Every(due, repeat.step, t) /\ Recurs(repeat) /\ repeat.step \in Nat \ {0}
    BY <1>1, <1>2, <1>5 DEF NextOccurrence, Recurs
  <2>2. n \in Nat /\ n > t /\ Slot(n, due, repeat)
    BY <1>5, <2>1, EveryIs DEF Slot
  <2>3. ASSUME NEW m \in t + 1 .. n - 1, Slot(m, due, repeat) PROVE FALSE
    <3>1. PICK k \in 1..m : m = due + k * repeat.step
      BY <1>5, <2>3 DEF Slot
    <3>2. k \in Nat \ {0} /\ m > t /\ m \in Nat
      BY <2>2, <3>1
    <3>3. n <= m
      BY <2>1, <3>1, <3>2, EveryIs
    <3>4. QED BY <2>2, <3>2, <3>3
  <2>4. QED BY <1>2, <2>1, <2>2, <2>3 DEF FirstAfter, NoTime
<1>6. QED BY <1>3, <1>4, <1>5 DEF Recurs

----------------------------------------------------------------------------
(* The inductive invariant.                                                *)

\* While the process runs, what it holds is what it saved.
Kept == IF up THEN file = [rem |-> rem, job |-> job] ELSE batch = {}

\* An id that was not handed out stands for nothing; a one-shot that is held has not come
\* back yet; and what was found due and is still to come back is held.
ReminderOK(r) ==
  /\ r > asked.reminders => given[r] = 0 /\ file.rem[r].status = "none"
  /\ file.rem[r].status # "none" /\ ~Recurs(file.rem[r].repeat) =>
       given[r] <= 1 /\ (file.rem[r].status = "held" => given[r] = 0)
  /\ r \in batch => /\ file.rem[r].status # "none"
                    /\ file.rem[r].status = "held" \/ Recurs(file.rem[r].repeat)

\* The slots a job was run for are behind the one it waits for.
JobOK(j) ==
  /\ j > asked.jobs => started[j] = <<>> /\ file.job[j].status = "none"
  /\ file.job[j].status = "enabled" =>
       \A n \in 1..Len(started[j]) : started[j][n] < file.job[j].next
  /\ \A m, n \in 1..Len(started[j]) : m < n => started[j][m] < started[j][n]

ScheduleInv ==
  /\ ScheduleTypeOK /\ Kept
  /\ \A r \in Reminders : ReminderOK(r)
  /\ \A j \in Jobs : JobOK(j)

----------------------------------------------------------------------------
(* The stores.                                                             *)

LEMMA ScheduleTypes ==
  ASSUME ScheduleTypeOK
  PROVE  /\ now \in Nat /\ rem \in [Reminders -> Reminder] /\ job \in [Jobs -> Job]
         /\ file \in [rem : [Reminders -> Reminder], job : [Jobs -> Job]]
         /\ file.rem \in [Reminders -> Reminder] /\ file.job \in [Jobs -> Job]
         /\ asked.reminders \in Nat /\ asked.jobs \in Nat /\ asked \in [reminders : Nat, jobs : Nat]
         /\ \A r \in Reminders : /\ r \in Nat /\ rem[r] \in Reminder /\ rem[r].due \in Nat
                                 /\ rem[r].repeat \in Repeat
                                 /\ given[r] \in Nat
         /\ \A j \in Jobs : /\ j \in Nat /\ job[j] \in Job /\ job[j].next \in Nat
                            /\ job[j].repeat \in Repeat
                            /\ started[j] \in Seq(Nat)
<1>1. now \in Nat
  BY Calendar DEF ScheduleTypeOK
<1>2. /\ rem \in [Reminders -> Reminder] /\ job \in [Jobs -> Job]
      /\ file \in [rem : [Reminders -> Reminder], job : [Jobs -> Job]]
      /\ asked \in [reminders : Nat, jobs : Nat]
      /\ given \in [Reminders -> Nat] /\ started \in [Jobs -> Seq(Nat)]
  BY DEF ScheduleTypeOK
<1>3. file.rem \in [Reminders -> Reminder] /\ file.job \in [Jobs -> Job]
  BY <1>2
<1>4. asked.reminders \in Nat /\ asked.jobs \in Nat
  BY <1>2
<1>5. ASSUME NEW r \in Reminders
      PROVE  /\ r \in Nat /\ rem[r] \in Reminder /\ rem[r].due \in Nat /\ rem[r].repeat \in Repeat
             /\ given[r] \in Nat
  BY <1>2, Calendar DEF Reminder
<1>6. ASSUME NEW j \in Jobs
      PROVE  /\ j \in Nat /\ job[j] \in Job /\ job[j].next \in Nat /\ job[j].repeat \in Repeat
             /\ started[j] \in Seq(Nat)
  BY <1>2, Calendar DEF Job
<1>7. QED BY <1>1, <1>2, <1>3, <1>4, <1>5, <1>6

LEMMA Nones == NoReminder \in Reminder /\ NoJob \in Job
               /\ NoReminder.status = "none" /\ NoJob.status = "none"
  BY DEF NoReminder, NoJob, Reminder, Job, Once, Repeat

LEMMA FirstIs ==
  ASSUME now \in Nat, NEW t \in Nat, NEW repeat \in Repeat
  PROVE  First(t, repeat) \in Nat
<1>1. NextOccurrence(t, repeat, now) \in Nat \/ NextOccurrence(t, repeat, now) = NoTime
  BY NextIs
<1>2. QED BY <1>1 DEF First

LEMMA SaveIs ==
  ASSUME NEW rs \in [Reminders -> Reminder], NEW js \in [Jobs -> Job], Save(rs, js)
  PROVE  /\ rem' \in [Reminders -> Reminder] /\ job' \in [Jobs -> Job]
         /\ file' \in [rem : [Reminders -> Reminder], job : [Jobs -> Job]]
         /\ rem' = rs /\ job' = js /\ file'.rem = rs /\ file'.job = js
         /\ up' => Kept'
  BY DEF Save, Kept

\* Marked: retired, or re-armed; the others are left alone.
LEMMA ReturnedIs ==
  ASSUME ScheduleTypeOK, NEW r \in Reminders
  PROVE  /\ Returned(r) \in [Reminders -> Reminder]
         /\ \A q \in Reminders \ {r} : Returned(r)[q] = rem[q]
         /\ Returned(r)[r].repeat = rem[r].repeat
         /\ IF Recurs(rem[r].repeat)
            THEN /\ Returned(r)[r].status = rem[r].status
                 /\ FirstAfter(Returned(r)[r].due, rem[r].due, rem[r].repeat, now)
            ELSE Returned(r)[r].status = "delivered"
<1>1. /\ rem \in [Reminders -> Reminder] /\ now \in Nat /\ rem[r].due \in Nat
      /\ rem[r].repeat \in Repeat /\ rem[r] \in Reminder
  BY ScheduleTypes
<1>2. PICK s : s = rem[r]
  OBVIOUS
<1>3. /\ s \in Reminder /\ s.repeat \in Repeat /\ s.due \in Nat
      /\ s.status \in {"none", "held", "delivered"} /\ s.done \in BOOLEAN
  BY <1>1, <1>2 DEF Reminder
<1>4. PICK n : n = NextOccurrence(s.due, s.repeat, now)
  OBVIOUS
<1>5. CASE Recurs(s.repeat)
  <2>1. n \in Nat /\ n # NoTime /\ FirstAfter(n, s.due, s.repeat, now)
    BY <1>1, <1>3, <1>4, <1>5, NextIs
  <2>2. Returned(r) = [rem EXCEPT ![r] = [s EXCEPT !.due = n]]
    BY <1>1, <1>2, <1>4, <2>1 DEF Returned
  <2>3. PICK u : u = [s EXCEPT !.due = n]
    OBVIOUS
  <2>4. u \in Reminder /\ u.due = n /\ u.status = s.status /\ u.repeat = s.repeat
    BY <1>3, <2>1, <2>3 DEF Reminder
  <2>5. Returned(r) \in [Reminders -> Reminder] /\ Returned(r)[r] = u
        /\ \A q \in Reminders \ {r} : Returned(r)[q] = rem[q]
    BY <1>1, <2>2, <2>3, <2>4
  <2>6. QED BY <1>2, <1>5, <2>1, <2>4, <2>5
<1>6. CASE ~Recurs(s.repeat)
  <2>1. n = NoTime
    BY <1>1, <1>3, <1>4, <1>6, NextIs
  <2>2. Returned(r) = [rem EXCEPT ![r] = [s EXCEPT !.status = "delivered"]]
    BY <1>1, <1>2, <1>4, <2>1 DEF Returned
  <2>3. PICK u : u = [s EXCEPT !.status = "delivered"]
    OBVIOUS
  <2>4. u \in Reminder /\ u.status = "delivered" /\ u.repeat = s.repeat
    BY <1>3, <2>3 DEF Reminder
  <2>5. Returned(r) \in [Reminders -> Reminder] /\ Returned(r)[r] = u
        /\ \A q \in Reminders \ {r} : Returned(r)[q] = rem[q]
    BY <1>1, <2>2, <2>3, <2>4
  <2>6. QED BY <1>2, <1>6, <2>4, <2>5
<1>7. QED BY <1>5, <1>6

LEMMA RearmedIs ==
  ASSUME ScheduleTypeOK, NEW j \in Jobs
  PROVE  /\ Rearmed(j) \in Job
         /\ \/ Rearmed(j).status = job[j].status /\ Rearmed(j).next > now
            \/ Rearmed(j).status = "disabled"
<1>1. /\ now \in Nat /\ job[j] \in Job
  BY ScheduleTypes
<1>2. PICK s : s = job[j]
  OBVIOUS
<1>3. /\ s \in Job /\ s.repeat \in Repeat /\ s.next \in Nat
      /\ s.status \in {"none", "enabled", "disabled"}
  BY <1>1, <1>2 DEF Job
<1>4. PICK n : n = NextOccurrence(s.next, s.repeat, now)
  OBVIOUS
<1>5. n = NoTime \/ (n \in Nat /\ n # NoTime /\ n > now)
  BY <1>1, <1>3, <1>4, NextIs
<1>6. CASE n = NoTime
  <2>1. Rearmed(j) = [s EXCEPT !.status = "disabled"]
    BY <1>2, <1>4, <1>6 DEF Rearmed
  <2>2. QED BY <1>3, <2>1 DEF Job
<1>7. CASE n \in Nat /\ n # NoTime /\ n > now
  <2>1. Rearmed(j) = [s EXCEPT !.next = n]
    BY <1>2, <1>4, <1>7 DEF Rearmed
  <2>2. PICK u : u = [s EXCEPT !.next = n]
    OBVIOUS
  <2>3. u \in Job /\ u.next = n /\ u.status = s.status
    BY <1>3, <1>7, <2>2 DEF Job
  <2>4. QED BY <1>2, <1>7, <2>1, <2>2, <2>3
<1>8. QED BY <1>5, <1>6, <1>7

LEMMA ClaimedIs ==
  ASSUME ScheduleTypeOK, NEW js \in SUBSET Jobs
  PROVE  /\ Claimed(js) \in [Jobs -> Job]
         /\ \A j \in Jobs : Claimed(js)[j] = IF j \in js THEN Rearmed(j) ELSE job[j]
<1>1. \A j \in Jobs : job[j] \in Job /\ Rearmed(j) \in Job
  BY ScheduleTypes, RearmedIs
<1>2. QED BY <1>1 DEF Claimed

LEMMA BatchIs ==
  ASSUME ScheduleTypeOK, Batch # {}
  PROVE  Batch \subseteq Reminders /\ Min(Batch) \in Batch
<1>1. Batch \subseteq Reminders
  BY DEF Batch, ScheduleTypeOK
<1>2. Batch \in SUBSET Nat
  BY <1>1, Calendar
<1>3. QED BY <1>1, <1>2, LeastIs

\* A sleep ends at a time there is.
LEMMA UntilIs ==
  ASSUME ScheduleTypeOK, NEW t \in Nat
  PROVE  Until(t) \in Nat
<1>1. Upcoming \in SUBSET Nat
  BY ScheduleTypes DEF Upcoming
<1>2. PICK m : m = Min({t} \cup Upcoming)
  OBVIOUS
<1>3. m \in Nat
  BY <1>1, <1>2, LeastIs
<1>4. now \in Nat
  BY ScheduleTypes
<1>5. \E x \in {now, m} : \A y \in {now, m} : x >= y
  BY <1>3, <1>4
<1>6. Max({now, m}) \in {now, m}
  BY <1>5 DEF Max
<1>7. QED BY <1>2, <1>3, <1>4, <1>6 DEF Until

----------------------------------------------------------------------------
(* The steps keep the types.                                               *)

\* What is left of what each step changes, for the types.
RestOK ==
  /\ up \in BOOLEAN /\ now \in 0..MaxNow /\ crashes \in 0..MaxCrashes /\ broken \in BOOLEAN
  /\ at \in {"top", "giving", "busy", "asleep"} /\ batch \subseteq Reminders /\ wakeAt \in Nat
  /\ wake \in BOOLEAN /\ talking \in BOOLEAN
HistOK ==
  /\ given \in [Reminders -> Nat] /\ started \in [Jobs -> Seq(Nat)]
  /\ asked \in [reminders : Nat, jobs : Nat]
StoreOK ==
  /\ rem \in [Reminders -> Reminder] /\ job \in [Jobs -> Job]
  /\ file \in [rem : [Reminders -> Reminder], job : [Jobs -> Job]]

LEMMA ScheduleTypeIs == ScheduleTypeOK <=> RestOK /\ HistOK /\ StoreOK
  BY DEF ScheduleTypeOK, RestOK, HistOK, StoreOK

\* What is asked touches the stores and the ids handed out.
LEMMA AskedTypes ==
  ASSUME ScheduleTypeOK, Asked, talking' \in BOOLEAN, StoreOK',
         asked' \in [reminders : Nat, jobs : Nat]
  PROVE  ScheduleTypeOK'
<1>1. RestOK' /\ HistOK'
  BY DEF ScheduleTypeOK, Asked, RestOK, HistOK, position
<1>2. QED BY <1>1, ScheduleTypeIs DEF ScheduleTypeOK, RestOK, HistOK, StoreOK

LEMMA TalkingIs ==
  ASSUME ScheduleTypeOK, NEW chat \in BOOLEAN
  PROVE  (talking \/ chat) \in BOOLEAN
  BY DEF ScheduleTypeOK

LEMMA RemindDoes ==
  ASSUME ScheduleTypeOK, NEW r \in Reminders, NEW t \in Times, NEW repeat \in Recurrences,
         NEW chat \in BOOLEAN, Remind(r, t, repeat, chat)
  PROVE  /\ ScheduleTypeOK' /\ up /\ up' = up /\ Kept' /\ batch' = batch
         /\ r = asked.reminders + 1 /\ asked'.reminders = r /\ asked'.jobs = asked.jobs
         /\ given' = given /\ started' = started /\ file'.job = job
         /\ file'.rem[r].status = "held" /\ \A q \in Reminders \ {r} : file'.rem[q] = rem[q]
<1>1. PICK s : s = [status |-> "held", done |-> FALSE, due |-> First(t, repeat), repeat |-> repeat]
  OBVIOUS
<1>2. /\ rem \in [Reminders -> Reminder] /\ job \in [Jobs -> Job] /\ now \in Nat /\ r \in Nat
      /\ asked \in [reminders : Nat, jobs : Nat]
  BY ScheduleTypes
<1>3. First(t, repeat) \in Nat /\ repeat \in Repeat
  BY <1>2, FirstIs, Calendar
<1>4. s \in Reminder /\ s.status = "held"
  BY <1>1, <1>3 DEF Reminder
<1>5. PICK rs : rs = [rem EXCEPT ![r] = s]
  OBVIOUS
<1>6. rs \in [Reminders -> Reminder] /\ rs[r] = s /\ \A q \in Reminders \ {r} : rs[q] = rem[q]
  BY <1>2, <1>4, <1>5
<1>7. Save(rs, job) /\ up /\ up' = up /\ Asked /\ r = asked.reminders + 1
  BY <1>1, <1>5 DEF Remind, Asked
<1>8. StoreOK' /\ file'.rem = rs /\ file'.job = job /\ Kept'
  BY <1>2, <1>6, <1>7, SaveIs DEF StoreOK
<1>9. /\ asked' \in [reminders : Nat, jobs : Nat]
      /\ asked'.reminders = r /\ asked'.jobs = asked.jobs
  BY <1>2 DEF Remind
<1>10. talking' \in BOOLEAN
  BY TalkingIs DEF Remind
<1>11. ScheduleTypeOK'
  BY <1>7, <1>8, <1>9, <1>10, AskedTypes
<1>12. QED BY <1>4, <1>6, <1>7, <1>8, <1>9, <1>11 DEF Asked, position

LEMMA CompleteDoes ==
  ASSUME ScheduleTypeOK, NEW r \in Reminders, NEW chat \in BOOLEAN, Complete(r, chat)
  PROVE  /\ ScheduleTypeOK' /\ up /\ up' = up /\ Kept' /\ batch' = batch
         /\ asked' = asked /\ given' = given /\ started' = started /\ file'.job = job
         /\ \A q \in Reminders : /\ file'.rem[q].status = rem[q].status
                                 /\ file'.rem[q].repeat = rem[q].repeat
<1>1. /\ rem \in [Reminders -> Reminder] /\ job \in [Jobs -> Job] /\ rem[r] \in Reminder
      /\ asked \in [reminders : Nat, jobs : Nat]
  BY ScheduleTypes
<1>2. PICK s : s = rem[r]
  OBVIOUS
<1>3. PICK d : d = [s EXCEPT !.done = TRUE]
  OBVIOUS
<1>4. d \in Reminder /\ d.status = s.status /\ d.repeat = s.repeat
  BY <1>1, <1>2, <1>3 DEF Reminder
<1>5. PICK rs : rs = [rem EXCEPT ![r] = d]
  OBVIOUS
<1>6. rs \in [Reminders -> Reminder] /\ rs[r] = d /\ \A q \in Reminders \ {r} : rs[q] = rem[q]
  BY <1>1, <1>4, <1>5
<1>7. rs = [rem EXCEPT ![r].done = TRUE]
  BY <1>1, <1>2, <1>3, <1>5
<1>8. Save(rs, job) /\ up /\ up' = up /\ Asked /\ asked' = asked
  BY <1>7 DEF Complete, Asked
<1>9. StoreOK' /\ file'.rem = rs /\ file'.job = job /\ Kept'
  BY <1>1, <1>6, <1>8, SaveIs DEF StoreOK
<1>10. talking' \in BOOLEAN
  BY TalkingIs DEF Complete
<1>11. ScheduleTypeOK'
  BY <1>1, <1>8, <1>9, <1>10, AskedTypes
<1>12. QED BY <1>2, <1>4, <1>6, <1>8, <1>9, <1>11 DEF Asked, position

LEMMA ScheduleJobDoes ==
  ASSUME ScheduleTypeOK, NEW j \in Jobs, NEW t \in Times, NEW repeat \in JobRecurrences,
         ScheduleJob(j, t, repeat)
  PROVE  /\ ScheduleTypeOK' /\ up /\ up' = up /\ Kept' /\ batch' = batch
         /\ j = asked.jobs + 1 /\ asked'.jobs = j /\ asked'.reminders = asked.reminders
         /\ given' = given /\ started' = started /\ file'.rem = rem
         /\ \A i \in Jobs \ {j} : file'.job[i] = job[i]
<1>1. PICK s : s = [status |-> "enabled", next |-> First(t, repeat), repeat |-> repeat]
  OBVIOUS
<1>2. /\ rem \in [Reminders -> Reminder] /\ job \in [Jobs -> Job] /\ now \in Nat /\ j \in Nat
      /\ asked \in [reminders : Nat, jobs : Nat]
  BY ScheduleTypes
<1>3. First(t, repeat) \in Nat /\ repeat \in Repeat
  BY <1>2, FirstIs, Calendar
<1>4. s \in Job
  BY <1>1, <1>3 DEF Job
<1>5. PICK js : js = [job EXCEPT ![j] = s]
  OBVIOUS
<1>6. js \in [Jobs -> Job] /\ \A i \in Jobs \ {j} : js[i] = job[i]
  BY <1>2, <1>4, <1>5
<1>7. Save(rem, js) /\ up /\ up' = up /\ Asked /\ j = asked.jobs + 1 /\ talking' = TRUE
  BY <1>1, <1>5 DEF ScheduleJob, Asked
<1>8. StoreOK' /\ file'.rem = rem /\ file'.job = js /\ Kept'
  BY <1>2, <1>6, <1>7, SaveIs DEF StoreOK
<1>9. /\ asked' \in [reminders : Nat, jobs : Nat]
      /\ asked'.jobs = j /\ asked'.reminders = asked.reminders
  BY <1>2 DEF ScheduleJob
<1>10. ScheduleTypeOK'
  BY <1>7, <1>8, <1>9, AskedTypes
<1>11. QED BY <1>6, <1>7, <1>8, <1>9, <1>10 DEF Asked, position

LEMMA CancelJobDoes ==
  ASSUME ScheduleTypeOK, NEW j \in Jobs, CancelJob(j)
  PROVE  /\ ScheduleTypeOK' /\ up /\ up' = up /\ Kept' /\ batch' = batch
         /\ asked' = asked /\ given' = given /\ started' = started /\ file'.rem = rem
         /\ job[j].status = "enabled" /\ file'.job[j].status = "disabled"
         /\ \A i \in Jobs \ {j} : file'.job[i] = job[i]
<1>1. /\ rem \in [Reminders -> Reminder] /\ job \in [Jobs -> Job] /\ job[j] \in Job
      /\ asked \in [reminders : Nat, jobs : Nat]
  BY ScheduleTypes
<1>2. PICK s : s = job[j]
  OBVIOUS
<1>3. PICK d : d = [s EXCEPT !.status = "disabled"]
  OBVIOUS
<1>4. d \in Job /\ d.status = "disabled"
  BY <1>1, <1>2, <1>3 DEF Job
<1>5. PICK js : js = [job EXCEPT ![j] = d]
  OBVIOUS
<1>6. js \in [Jobs -> Job] /\ js[j] = d /\ \A i \in Jobs \ {j} : js[i] = job[i]
  BY <1>1, <1>4, <1>5
<1>7. js = [job EXCEPT ![j].status = "disabled"]
  BY <1>1, <1>2, <1>3, <1>5
<1>8. /\ Save(rem, js) /\ up /\ up' = up /\ Asked /\ asked' = asked /\ talking' = TRUE
      /\ job[j].status = "enabled"
  BY <1>7 DEF CancelJob, Asked, Active
<1>9. StoreOK' /\ file'.rem = rem /\ file'.job = js /\ Kept'
  BY <1>1, <1>6, <1>8, SaveIs DEF StoreOK
<1>10. ScheduleTypeOK'
  BY <1>1, <1>8, <1>9, AskedTypes
<1>11. QED BY <1>4, <1>6, <1>8, <1>9, <1>10 DEF Asked, position

LEMMA GiveDoes ==
  ASSUME ScheduleTypeOK, Give
  PROVE  \E r \in Batch :
           /\ ScheduleTypeOK' /\ up /\ up' = up /\ Kept' /\ batch' = Batch \ {r}
           /\ Batch \subseteq Reminders /\ asked' = asked /\ started' = started
           /\ file'.job = job /\ rem' = Returned(r) /\ file'.rem = Returned(r)
           /\ given'[r] = given[r] + 1 /\ \A q \in Reminders \ {r} : given'[q] = given[q]
<1>1. PICK r : r = Min(Batch)
  OBVIOUS
<1>2. /\ Batch # {} /\ up /\ up' = up /\ Save(Returned(r), job) /\ batch' = Batch \ {r}
      /\ at' = "giving" /\ given' = [given EXCEPT ![r] = @ + 1]
      /\ UNCHANGED <<up, now, crashes, broken, wakeAt, wake, talking, started, asked>>
  BY <1>1 DEF Give
<1>3. Batch \subseteq Reminders /\ r \in Batch /\ r \in Reminders
  BY <1>1, <1>2, BatchIs
<1>4. Returned(r) \in [Reminders -> Reminder] /\ job \in [Jobs -> Job]
  BY <1>3, ReturnedIs, ScheduleTypes
<1>5. StoreOK' /\ file'.rem = Returned(r) /\ rem' = Returned(r) /\ file'.job = job /\ Kept'
  BY <1>2, <1>4, SaveIs DEF StoreOK
<1>6. /\ given' \in [Reminders -> Nat] /\ given'[r] = given[r] + 1
      /\ \A q \in Reminders \ {r} : given'[q] = given[q]
  BY <1>2, <1>3 DEF ScheduleTypeOK
<1>7. RestOK' /\ HistOK'
  BY <1>2, <1>3, <1>6 DEF ScheduleTypeOK, RestOK, HistOK
<1>8. ScheduleTypeOK'
  BY <1>5, <1>7 DEF ScheduleTypeOK, RestOK, HistOK, StoreOK
<1>9. QED BY <1>2, <1>3, <1>5, <1>6, <1>8

LEMMA RunJobsDoes ==
  ASSUME ScheduleTypeOK, RunJobs
  PROVE  /\ ScheduleTypeOK' /\ up /\ up' = up /\ Kept' /\ batch' = batch
         /\ asked' = asked /\ given' = given /\ file'.rem = rem
         /\ \A j \in Jobs :
              \/ file'.job[j] = job[j] /\ started'[j] = started[j]
              \/ /\ JobDue(j) /\ file'.job[j] = Rearmed(j)
                 /\ \/ started'[j] = started[j]
                    \/ WorthIt(j) /\ started'[j] = Append(started[j], job[j].next)
<1>1. PICK due \in SUBSET Jobs : due = {j \in Jobs : JobDue(j)}
  OBVIOUS
<1>2. /\ Save(rem, Claimed(due)) /\ up /\ up' = up /\ at' = "busy"
      /\ started' = [j \in Jobs |-> IF j \in due /\ WorthIt(j)
                               THEN Append(started[j], job[j].next) ELSE started[j]]
      /\ UNCHANGED <<up, now, crashes, broken, batch, wakeAt, wake, talking, given, asked>>
  BY <1>1 DEF RunJobs
<1>3. /\ rem \in [Reminders -> Reminder] /\ Claimed(due) \in [Jobs -> Job]
      /\ \A j \in Jobs : Claimed(due)[j] = IF j \in due THEN Rearmed(j) ELSE job[j]
  BY ClaimedIs, ScheduleTypes
<1>4. StoreOK' /\ file'.rem = rem /\ file'.job = Claimed(due) /\ Kept'
  BY <1>2, <1>3, SaveIs DEF StoreOK
<1>5. started' \in [Jobs -> Seq(Nat)]
  <2>1. \A j \in Jobs : started[j] \in Seq(Nat) /\ Append(started[j], job[j].next) \in Seq(Nat)
    BY ScheduleTypes
  <2>2. QED BY <1>2, <2>1
<1>6. RestOK' /\ HistOK'
  BY <1>2, <1>5 DEF ScheduleTypeOK, RestOK, HistOK
<1>7. ScheduleTypeOK'
  BY <1>4, <1>6 DEF ScheduleTypeOK, RestOK, HistOK, StoreOK
<1>8. ASSUME NEW j \in Jobs
      PROVE  \/ file'.job[j] = job[j] /\ started'[j] = started[j]
             \/ /\ JobDue(j) /\ file'.job[j] = Rearmed(j)
                /\ \/ started'[j] = started[j]
                   \/ WorthIt(j) /\ started'[j] = Append(started[j], job[j].next)
  <2>1. j \in due <=> JobDue(j)
    BY <1>1
  <2>2. started'[j] = IF j \in due /\ WorthIt(j) THEN Append(started[j], job[j].next) ELSE started[j]
    BY <1>2
  <2>3. QED BY <1>3, <1>4, <2>1, <2>2
<1>9. QED BY <1>2, <1>4, <1>7, <1>8

\* What neither stores, hands out nor gives anything.
Quiet == TurnEnds \/ Wake \/ Tick \/ \E wait \in 1..MaxWait : Sleep(wait)

LEMMA QuietDoes ==
  ASSUME ScheduleTypeOK, Quiet
  PROVE  ScheduleTypeOK' /\ UNCHANGED <<up, rem, job, file, batch, asked, given, started>>
<1>1. UNCHANGED <<up, rem, job, file, batch, asked, given, started, crashes, broken>>
  BY DEF Quiet, TurnEnds, Wake, Tick, Sleep, position, hist
<1>2. StoreOK' /\ HistOK'
  BY <1>1 DEF ScheduleTypeOK, StoreOK, HistOK
<1>3. RestOK'
  <2>1. CASE TurnEnds
    BY <1>1, <2>1 DEF TurnEnds, position, ScheduleTypeOK, RestOK
  <2>2. CASE Wake
    BY <1>1, <2>2 DEF Wake, ScheduleTypeOK, RestOK
  <2>3. CASE Tick
    <3>1. now' \in 0..MaxNow
      BY <2>3, Calendar DEF Tick, ScheduleTypeOK
    <3>2. QED BY <1>1, <2>3, <3>1 DEF Tick, position, ScheduleTypeOK, RestOK
  <2>4. ASSUME NEW wait \in 1..MaxWait, Sleep(wait) PROVE RestOK'
    <3>1. now + wait \in Nat
      BY ScheduleTypes, Calendar
    <3>2. wakeAt' \in Nat
      BY <2>4, <3>1, UntilIs DEF Sleep
    <3>3. QED BY <1>1, <2>4, <3>2 DEF Sleep, ScheduleTypeOK, RestOK
  <2>5. QED BY <2>1, <2>2, <2>3, <2>4 DEF Quiet
<1>4. QED BY <1>1, <1>2, <1>3 DEF ScheduleTypeOK, RestOK, HistOK, StoreOK

LEMMA BootDoes ==
  ASSUME ScheduleTypeOK, Kept, Boot
  PROVE  /\ ScheduleTypeOK' /\ Kept'
         /\ UNCHANGED <<file, batch, asked, given, started>>
<1>1. /\ up' = TRUE /\ ~up /\ rem' = file.rem /\ job' = file.job
      /\ UNCHANGED <<now, crashes, file, broken, at, batch, wakeAt, wake, talking, asked, given, started>>
  BY DEF Boot, position, hist
<1>2. file \in [rem : [Reminders -> Reminder], job : [Jobs -> Job]]
  BY ScheduleTypes
<1>3. file = [rem |-> file.rem, job |-> file.job]
  BY <1>2
<1>4. Kept'
  BY <1>1, <1>3 DEF Kept
<1>5. StoreOK' /\ HistOK' /\ RestOK'
  BY <1>1, <1>2 DEF ScheduleTypeOK, StoreOK, HistOK, RestOK
<1>6. QED BY <1>1, <1>4, <1>5 DEF ScheduleTypeOK, RestOK, HistOK, StoreOK

LEMMA DownTypes ==
  ASSUME ScheduleTypeOK, Down, file' \in [rem : [Reminders -> Reminder], job : [Jobs -> Job]],
         broken' \in BOOLEAN
  PROVE  ScheduleTypeOK' /\ Kept'
<1>1. /\ up' = FALSE /\ crashes' = crashes + 1 /\ crashes < MaxCrashes
      /\ rem' = [r \in Reminders |-> NoReminder] /\ job' = [j \in Jobs |-> NoJob]
      /\ at' = "top" /\ batch' = {} /\ wakeAt' = 0 /\ wake' = FALSE /\ talking' = FALSE
      /\ UNCHANGED <<now, given, started, asked>>
  BY DEF Down
<1>2. StoreOK'
  BY <1>1, Nones DEF StoreOK
<1>3. crashes' \in 0..MaxCrashes
  BY <1>1, Calendar DEF ScheduleTypeOK
<1>4. RestOK'
  <2>1. up' \in BOOLEAN /\ wake' \in BOOLEAN /\ talking' \in BOOLEAN
    BY <1>1
  <2>2. now' \in 0..MaxNow /\ at' \in {"top", "giving", "busy", "asleep"} /\ batch' \subseteq Reminders
        /\ wakeAt' \in Nat
    BY <1>1 DEF ScheduleTypeOK
  <2>3. QED BY <1>3, <2>1, <2>2 DEF RestOK
<1>5. HistOK'
  BY <1>1 DEF ScheduleTypeOK, HistOK
<1>6. Kept'
  BY <1>1 DEF Kept
<1>7. QED BY <1>2, <1>4, <1>5, <1>6 DEF ScheduleTypeOK, RestOK, HistOK, StoreOK

Dying == Crash \/ CrashInReminders \/ CrashInJobs

\* A reminder as a write of the list has it.
LEMMA WritesAre ==
  ASSUME ScheduleTypeOK, NEW w \in ReminderWrites
  PROVE  /\ w \in [Reminders -> Reminder]
         /\ \A r \in Reminders :
              \/ w[r].status = rem[r].status /\ w[r].repeat = rem[r].repeat
              \/ r \in Batch /\ w[r].status = "delivered" /\ w[r].repeat = rem[r].repeat
<1>1. rem \in [Reminders -> Reminder] /\ \A r \in Reminders : rem[r] \in Reminder
  BY ScheduleTypes
<1>2. CASE w = rem
  BY <1>1, <1>2
<1>3. ASSUME NEW r \in Reminders, w = [rem EXCEPT ![r].done = TRUE]
      PROVE  /\ w \in [Reminders -> Reminder]
             /\ \A q \in Reminders : w[q].status = rem[q].status /\ w[q].repeat = rem[q].repeat
  <2>1. PICK s : s = rem[r]
    OBVIOUS
  <2>2. PICK d : d = [s EXCEPT !.done = TRUE]
    OBVIOUS
  <2>3. d \in Reminder /\ d.status = s.status /\ d.repeat = s.repeat
    BY <1>1, <2>1, <2>2 DEF Reminder
  <2>4. w = [rem EXCEPT ![r] = d]
    BY <1>1, <1>3, <2>1, <2>2
  <2>5. QED BY <1>1, <2>1, <2>3, <2>4
<1>4. ASSUME Batch # {}, w = Returned(Min(Batch))
      PROVE  /\ w \in [Reminders -> Reminder]
             /\ \A r \in Reminders :
                  \/ w[r].status = rem[r].status /\ w[r].repeat = rem[r].repeat
                  \/ r \in Batch /\ w[r].status = "delivered" /\ w[r].repeat = rem[r].repeat
  <2>1. PICK m \in Batch : m = Min(Batch) /\ m \in Reminders
    BY <1>4, BatchIs
  <2>2. /\ w \in [Reminders -> Reminder] /\ \A q \in Reminders \ {m} : w[q] = rem[q]
        /\ w[m].repeat = rem[m].repeat
        /\ w[m].status = rem[m].status \/ w[m].status = "delivered"
    BY <1>4, <2>1, ReturnedIs
  <2>3. QED BY <2>1, <2>2
<1>5. w = rem \/ (\E r \in Reminders : w = [rem EXCEPT ![r].done = TRUE])
      \/ (Batch # {} /\ w = Returned(Min(Batch)))
  BY DEF ReminderWrites
<1>6. QED BY <1>2, <1>3, <1>4, <1>5

LEMMA DyingDoes ==
  ASSUME ScheduleTypeOK, Kept, Dying
  PROVE  /\ ScheduleTypeOK' /\ Kept' /\ up /\ batch' = {}
         /\ UNCHANGED <<asked, given, started>>
         /\ file = [rem |-> rem, job |-> job]
         /\ \A r \in Reminders :
              \/ file'.rem[r].status = "none"
              \/ file'.rem[r].status = rem[r].status /\ file'.rem[r].repeat = rem[r].repeat
              \/ r \in Batch /\ file'.rem[r].status = "delivered"
                 /\ file'.rem[r].repeat = rem[r].repeat
         /\ \A j \in Jobs :
              \/ file'.job[j].status = "none" \/ file'.job[j] = job[j]
              \/ JobDue(j) /\ file'.job[j] = Rearmed(j)
<1>1. Down /\ up /\ up' = FALSE /\ batch' = {} /\ UNCHANGED <<now, asked, given, started>>
  BY DEF Dying, Crash, CrashInReminders, CrashInJobs, Down
<1>2. file = [rem |-> rem, job |-> job] /\ file.rem = rem /\ file.job = job
  BY <1>1 DEF Kept
<1>3. CASE Crash
  <2>1. file' = file /\ broken' = broken
    BY <1>3 DEF Crash
  <2>2. file' \in [rem : [Reminders -> Reminder], job : [Jobs -> Job]] /\ broken' \in BOOLEAN
    BY <2>1 DEF ScheduleTypeOK
  <2>3. QED BY <1>1, <1>2, <2>1, <2>2, DownTypes
<1>4. CASE CrashInReminders
  <2>1. PICK w \in ReminderWrites, k \in 0..Cardinality(Reminders), part \in BOOLEAN :
          /\ file' = [file EXCEPT !.rem = Upto(w, k, NoReminder)]
          /\ broken' = (part /\ \E r \in Reminders :
                          r > k /\ (w[r].status # "none" \/ r = asked.reminders + 1))
    BY <1>4 DEF CrashInReminders
  <2>2. PICK f : f = Upto(w, k, NoReminder)
    OBVIOUS
  <2>3. f \in [Reminders -> Reminder] /\ \A i \in Reminders : f[i] \in {w[i], NoReminder}
    <3>1. w \in [Reminders -> Reminder]
      BY WritesAre
    <3>2. Upto(w, k, NoReminder) \in [Reminders -> Reminder]
          /\ \A i \in Reminders : Upto(w, k, NoReminder)[i] \in {w[i], NoReminder}
      BY <3>1, Nones DEF Upto
    <3>3. QED BY <2>2, <3>2
  <2>4. /\ file' \in [rem : [Reminders -> Reminder], job : [Jobs -> Job]]
        /\ file'.rem = f /\ file'.job = job
    BY <1>2, <2>1, <2>2, <2>3, ScheduleTypes
  <2>5. broken' \in BOOLEAN
    BY <2>1
  <2>6. ASSUME NEW r \in Reminders
        PROVE  \/ file'.rem[r].status = "none"
               \/ file'.rem[r].status = rem[r].status /\ file'.rem[r].repeat = rem[r].repeat
               \/ r \in Batch /\ file'.rem[r].status = "delivered"
                  /\ file'.rem[r].repeat = rem[r].repeat
    BY <2>3, <2>4, WritesAre, Nones
  <2>7. QED BY <1>1, <1>2, <2>4, <2>5, <2>6, DownTypes
<1>5. CASE CrashInJobs
  <2>1. PICK js \in SUBSET {j \in Jobs : JobDue(j)}, k \in 0..Cardinality(Jobs) :
          file' = [file EXCEPT !.job = Upto(Claimed(js), k, NoJob)]
    BY <1>5 DEF CrashInJobs
  <2>2. PICK f : f = Upto(Claimed(js), k, NoJob)
    OBVIOUS
  <2>3. /\ Claimed(js) \in [Jobs -> Job]
        /\ \A j \in Jobs : Claimed(js)[j] = IF j \in js THEN Rearmed(j) ELSE job[j]
    BY ClaimedIs
  <2>4. f \in [Jobs -> Job] /\ \A i \in Jobs : f[i] \in {Claimed(js)[i], NoJob}
    BY <2>2, <2>3, Nones DEF Upto
  <2>5. /\ file' \in [rem : [Reminders -> Reminder], job : [Jobs -> Job]]
        /\ file'.rem = rem /\ file'.job = f
    BY <1>2, <2>1, <2>2, <2>4, ScheduleTypes
  <2>6. broken' \in BOOLEAN
    BY <1>5 DEF CrashInJobs, ScheduleTypeOK
  <2>7. ASSUME NEW j \in Jobs
        PROVE  \/ file'.job[j].status = "none" \/ file'.job[j] = job[j]
               \/ JobDue(j) /\ file'.job[j] = Rearmed(j)
    BY <2>3, <2>4, <2>5, Nones
  <2>8. QED BY <1>1, <1>2, <2>5, <2>6, <2>7, DownTypes
<1>6. QED BY <1>3, <1>4, <1>5 DEF Dying

----------------------------------------------------------------------------
(* The steps keep what is promised of reminders and jobs.                  *)

LEMMA InvIs ==
  ASSUME ScheduleInv
  PROVE  /\ ScheduleTypeOK /\ Kept
         /\ \A r \in Reminders : ReminderOK(r)
         /\ \A j \in Jobs : JobOK(j)
         /\ up => file.rem = rem /\ file.job = job
  BY DEF ScheduleInv, Kept

\* What is found due, or was, is held.
LEMMA BatchHeld ==
  ASSUME ScheduleInv, up, NEW r \in Batch
  PROVE  /\ r \in Reminders /\ rem[r].status # "none"
         /\ rem[r].status = "held" \/ Recurs(rem[r].repeat)
<1>1. CASE at = "top"
  BY <1>1 DEF Batch, IsDue, Pending
<1>2. CASE at # "top"
  <2>1. r \in batch /\ r \in Reminders
    BY <1>2, InvIs DEF Batch, ScheduleTypeOK
  <2>2. QED BY <2>1, InvIs DEF ReminderOK
<1>3. QED BY <1>1, <1>2

\* A reminder that is none, as it was, or marked as having come back.
LEMMA ReminderStays ==
  ASSUME NEW r \in Reminders, ReminderOK(r), given'[r] = given[r],
         asked.reminders \in Nat, asked'.reminders \in Nat, asked.reminders <= asked'.reminders,
         r \in Nat,
         \/ file'.rem[r].status = "none" /\ r \notin batch'
         \/ /\ file'.rem[r].status = file.rem[r].status /\ file'.rem[r].repeat = file.rem[r].repeat
            /\ r \in batch' => r \in batch
         \/ /\ file.rem[r].status # "none" /\ file'.rem[r].status = "delivered"
            /\ file'.rem[r].repeat = file.rem[r].repeat /\ r \notin batch'
  PROVE  ReminderOK(r)'
<1>1. r > asked'.reminders => r > asked.reminders
  OBVIOUS
<1>2. QED BY <1>1 DEF ReminderOK

\* A job that is none, called off, as it was, or moved on, and not run.
LEMMA JobStays ==
  ASSUME ScheduleTypeOK, ScheduleTypeOK', NEW j \in Jobs, JobOK(j), started'[j] = started[j],
         asked.jobs <= asked'.jobs,
         \/ file'.job[j].status = "none"
         \/ file.job[j].status # "none" /\ file'.job[j].status = "disabled"
         \/ /\ file'.job[j].status = file.job[j].status
            /\ file.job[j].next <= file'.job[j].next
  PROVE  JobOK(j)'
<1>1. j > asked'.jobs => j > asked.jobs
  <2>1. j \in Nat /\ asked.jobs \in Nat /\ asked'.jobs \in Nat
    BY ScheduleTypes DEF ScheduleTypeOK
  <2>2. QED BY <2>1
<1>2. file.job[j].next \in Nat /\ file'.job[j].next \in Nat
  BY DEF ScheduleTypeOK, Job
<1>3. \A n \in 1..Len(started[j]) : started[j][n] \in Nat
  BY ScheduleTypes
<1>4. file'.job[j].status = "enabled" =>
        \A n \in 1..Len(started[j]) : started[j][n] < file'.job[j].next
  <2>1. ASSUME file'.job[j].status = "enabled", NEW n \in 1..Len(started[j])
        PROVE  started[j][n] < file'.job[j].next
    <3>1. file.job[j].status = "enabled" /\ file.job[j].next <= file'.job[j].next
      BY <2>1
    <3>2. started[j][n] < file.job[j].next
      BY <3>1 DEF JobOK
    <3>3. QED BY <1>2, <1>3, <3>1, <3>2
  <2>2. QED BY <2>1
<1>5. QED BY <1>1, <1>4 DEF JobOK

\* A run appends a slot later than all, and the job then waits for one later still.
LEMMA JobRuns ==
  ASSUME ScheduleInv, ScheduleTypeOK', up, NEW j \in Jobs, JobDue(j), file'.job[j] = Rearmed(j),
         started'[j] \in {started[j], Append(started[j], job[j].next)}, asked' = asked
  PROVE  JobOK(j)'
<1>1. /\ ScheduleTypeOK /\ JobOK(j) /\ file.job[j] = job[j] /\ job[j].status = "enabled"
      /\ job[j].next <= now
  BY InvIs DEF JobDue, Active
<1>2. /\ job[j].next \in Nat /\ now \in Nat /\ started[j] \in Seq(Nat) /\ Len(started[j]) \in Nat
      /\ file'.job[j].next \in Nat
  <2>1. /\ job[j].next \in Nat /\ now \in Nat /\ started[j] \in Seq(Nat) /\ Len(started[j]) \in Nat
    BY <1>1, ScheduleTypes
  <2>2. file'.job[j].next \in Nat
    BY DEF ScheduleTypeOK, Job
  <2>3. QED BY <2>1, <2>2
<1>3. \A n \in 1..Len(started[j]) : started[j][n] < job[j].next /\ started[j][n] \in Nat
  BY <1>1, <1>2 DEF JobOK
<1>4. ~(j > asked.jobs)
  BY <1>1 DEF JobOK
<1>5. file'.job[j].status = "disabled" \/ file'.job[j].next > now
  BY <1>1, RearmedIs
<1>6. CASE started'[j] = started[j]
  <2>1. file'.job[j].status = "enabled" =>
          \A n \in 1..Len(started[j]) : started[j][n] < file'.job[j].next
    BY <1>1, <1>2, <1>3, <1>5
  <2>2. QED BY <1>1, <1>4, <1>6, <2>1 DEF JobOK
<1>7. CASE started'[j] = Append(started[j], job[j].next)
  <2>1. PICK t : t = Append(started[j], job[j].next)
    OBVIOUS
  <2>2. /\ Len(t) = Len(started[j]) + 1 /\ t[Len(t)] = job[j].next
        /\ \A n \in 1..Len(started[j]) : t[n] = started[j][n]
    BY <1>2, <2>1
  <2>3. \A n \in 1..Len(t) : n \in 1..Len(started[j]) \/ n = Len(t)
    BY <1>2, <2>2
  <2>4. \A n \in 1..Len(t) : t[n] <= job[j].next /\ t[n] \in Nat
    BY <1>2, <1>3, <2>2, <2>3
  <2>5. file'.job[j].status = "enabled" => \A n \in 1..Len(t) : t[n] < file'.job[j].next
    BY <1>1, <1>2, <1>5, <2>4
  <2>6. ASSUME NEW m \in 1..Len(t), NEW n \in 1..Len(t), m < n PROVE t[m] < t[n]
    <3>1. m \in 1..Len(started[j])
      BY <1>2, <2>2, <2>3, <2>6
    <3>2. CASE n = Len(t)
      BY <1>3, <2>2, <3>1, <3>2
    <3>3. CASE n \in 1..Len(started[j])
      BY <1>1, <2>2, <2>6, <3>1, <3>3 DEF JobOK
    <3>4. QED BY <2>3, <3>2, <3>3
  <2>7. QED BY <1>4, <1>7, <2>1, <2>5, <2>6 DEF JobOK
<1>8. QED BY <1>6, <1>7

LEMMA RemindStep ==
  ASSUME ScheduleInv, NEW r \in Reminders, NEW t \in Times, NEW repeat \in Recurrences,
         NEW chat \in BOOLEAN, Remind(r, t, repeat, chat)
  PROVE  ScheduleInv'
<1>1. /\ ScheduleTypeOK' /\ up /\ Kept' /\ batch' = batch
      /\ r = asked.reminders + 1 /\ asked'.reminders = r /\ asked'.jobs = asked.jobs
      /\ given' = given /\ started' = started /\ file'.job = file.job
      /\ file'.rem[r].status = "held" /\ \A q \in Reminders \ {r} : file'.rem[q] = file.rem[q]
  BY InvIs, RemindDoes
<1>2. asked.reminders \in Nat /\ asked.jobs \in Nat /\ \A q \in Reminders : q \in Nat
      /\ \A j \in Jobs : file.job[j].next \in Nat
  BY InvIs, ScheduleTypes DEF Job
<1>3. ReminderOK(r)'
  <2>1. given[r] = 0
    BY <1>1, <1>2, InvIs DEF ReminderOK
  <2>2. QED BY <1>1, <1>2, <2>1 DEF ReminderOK
<1>4. ASSUME NEW q \in Reminders \ {r} PROVE ReminderOK(q)'
  BY <1>1, <1>2, InvIs, ReminderStays
<1>5. ASSUME NEW j \in Jobs PROVE JobOK(j)'
  BY <1>1, <1>2, InvIs, JobStays
<1>6. QED BY <1>1, <1>3, <1>4, <1>5 DEF ScheduleInv

\* Each of them has a time it waits for, and a number of its own.
LEMMA Numbered ==
  ASSUME ScheduleTypeOK
  PROVE  /\ asked.reminders \in Nat /\ asked.jobs \in Nat
         /\ \A r \in Reminders : r \in Nat
         /\ \A j \in Jobs : file.job[j].next \in Nat /\ j \in Nat
  BY ScheduleTypes DEF Job

LEMMA CompleteStep ==
  ASSUME ScheduleInv, NEW r \in Reminders, NEW chat \in BOOLEAN, Complete(r, chat)
  PROVE  ScheduleInv'
<1>1. /\ ScheduleTypeOK' /\ Kept' /\ batch' = batch /\ asked' = asked /\ given' = given
      /\ started' = started /\ file'.job = file.job
      /\ \A q \in Reminders : /\ file'.rem[q].status = file.rem[q].status
                              /\ file'.rem[q].repeat = file.rem[q].repeat
  BY InvIs, CompleteDoes
<1>2. ASSUME NEW q \in Reminders PROVE ReminderOK(q)'
  BY <1>1, InvIs, Numbered, ReminderStays
<1>3. ASSUME NEW j \in Jobs PROVE JobOK(j)'
  BY <1>1, InvIs, Numbered, JobStays
<1>4. QED BY <1>1, <1>2, <1>3 DEF ScheduleInv

LEMMA ScheduleJobStep ==
  ASSUME ScheduleInv, NEW j \in Jobs, NEW t \in Times, NEW repeat \in JobRecurrences,
         ScheduleJob(j, t, repeat)
  PROVE  ScheduleInv'
<1>1. /\ ScheduleTypeOK' /\ Kept' /\ batch' = batch
      /\ j = asked.jobs + 1 /\ asked'.jobs = j /\ asked'.reminders = asked.reminders
      /\ given' = given /\ started' = started /\ file'.rem = file.rem
      /\ \A i \in Jobs \ {j} : file'.job[i] = file.job[i]
  BY InvIs, ScheduleJobDoes
<1>2. ASSUME NEW q \in Reminders PROVE ReminderOK(q)'
  BY <1>1, InvIs, Numbered, ReminderStays
<1>3. JobOK(j)'
  <2>1. started[j] = <<>> /\ asked.jobs \in Nat
    BY <1>1, InvIs, Numbered DEF JobOK
  <2>2. started'[j] = <<>> /\ ~(j > asked'.jobs)
    BY <1>1, <2>1
  <2>3. QED BY <2>2 DEF JobOK
<1>4. ASSUME NEW i \in Jobs \ {j} PROVE JobOK(i)'
  BY <1>1, InvIs, Numbered, JobStays
<1>5. QED BY <1>1, <1>2, <1>3, <1>4 DEF ScheduleInv

LEMMA CancelJobStep ==
  ASSUME ScheduleInv, NEW j \in Jobs, CancelJob(j)
  PROVE  ScheduleInv'
<1>1. /\ ScheduleTypeOK' /\ Kept' /\ batch' = batch /\ asked' = asked
      /\ given' = given /\ started' = started /\ file'.rem = file.rem
      /\ file.job[j].status = "enabled" /\ file'.job[j].status = "disabled"
      /\ \A i \in Jobs \ {j} : file'.job[i] = file.job[i]
  BY InvIs, CancelJobDoes
<1>2. ASSUME NEW q \in Reminders PROVE ReminderOK(q)'
  BY <1>1, InvIs, Numbered, ReminderStays
<1>3. ASSUME NEW i \in Jobs PROVE JobOK(i)'
  BY <1>1, InvIs, Numbered, JobStays
<1>4. QED BY <1>1, <1>2, <1>3 DEF ScheduleInv

LEMMA GiveStep == ASSUME ScheduleInv, Give PROVE ScheduleInv'
<1>1. PICK r \in Batch :
        /\ ScheduleTypeOK' /\ up /\ Kept' /\ batch' = Batch \ {r} /\ Batch \subseteq Reminders
        /\ asked' = asked /\ started' = started /\ file'.job = job /\ file'.rem = Returned(r)
        /\ given'[r] = given[r] + 1 /\ \A q \in Reminders \ {r} : given'[q] = given[q]
  BY InvIs, GiveDoes
<1>2. file.rem = rem /\ file.job = job /\ r \in Reminders
  BY <1>1, InvIs
<1>3. /\ Returned(r)[r].repeat = rem[r].repeat
      /\ Recurs(rem[r].repeat) => Returned(r)[r].status = rem[r].status
      /\ ~Recurs(rem[r].repeat) => Returned(r)[r].status = "delivered"
      /\ \A q \in Reminders \ {r} : Returned(r)[q] = rem[q]
  BY <1>2, InvIs, ReturnedIs
<1>4. rem[r].status # "none" /\ (rem[r].status = "held" \/ Recurs(rem[r].repeat))
  BY <1>1, BatchHeld
<1>5. ReminderOK(r)'
  <2>1. ~(r > asked.reminders)
    BY <1>2, <1>4, InvIs DEF ReminderOK
  <2>2. ~Recurs(rem[r].repeat) => given[r] = 0
    BY <1>2, <1>4, InvIs DEF ReminderOK
  <2>3. ~Recurs(rem[r].repeat) => given'[r] <= 1
    BY <1>1, <2>2
  <2>4. r \notin batch'
    BY <1>1
  <2>5. QED BY <1>1, <1>2, <1>3, <2>1, <2>3, <2>4 DEF ReminderOK
<1>6. ASSUME NEW q \in Reminders \ {r} PROVE ReminderOK(q)'
  <2>1. file'.rem[q] = file.rem[q] /\ given'[q] = given[q]
    BY <1>1, <1>2, <1>3
  <2>2. ReminderOK(q)
    BY InvIs
  <2>3. q \in batch' => /\ rem[q].status # "none"
                        /\ rem[q].status = "held" \/ Recurs(rem[q].repeat)
    BY <1>1, BatchHeld
  <2>4. QED BY <1>1, <1>2, <2>1, <2>2, <2>3 DEF ReminderOK
<1>7. ASSUME NEW j \in Jobs PROVE JobOK(j)'
  BY <1>1, <1>2, InvIs, Numbered, JobStays
<1>8. QED BY <1>1, <1>5, <1>6, <1>7 DEF ScheduleInv

LEMMA RunJobsStep == ASSUME ScheduleInv, RunJobs PROVE ScheduleInv'
<1>1. /\ ScheduleTypeOK' /\ up /\ Kept' /\ batch' = batch /\ asked' = asked /\ given' = given
      /\ file'.rem = file.rem /\ file.job = job
      /\ \A j \in Jobs :
           \/ file'.job[j] = job[j] /\ started'[j] = started[j]
           \/ /\ JobDue(j) /\ file'.job[j] = Rearmed(j)
              /\ \/ started'[j] = started[j]
                 \/ WorthIt(j) /\ started'[j] = Append(started[j], job[j].next)
  BY InvIs, RunJobsDoes
<1>2. ASSUME NEW q \in Reminders PROVE ReminderOK(q)'
  BY <1>1, InvIs, Numbered, ReminderStays
<1>3. ASSUME NEW j \in Jobs PROVE JobOK(j)'
  <2>1. CASE file'.job[j] = job[j] /\ started'[j] = started[j]
    BY <1>1, <2>1, InvIs, Numbered, JobStays
  <2>2. CASE JobDue(j) /\ file'.job[j] = Rearmed(j)
             /\ started'[j] \in {started[j], Append(started[j], job[j].next)}
    BY <1>1, <2>2, JobRuns
  <2>3. QED BY <1>1, <2>1, <2>2
<1>4. QED BY <1>1, <1>2, <1>3 DEF ScheduleInv

LEMMA DyingStep == ASSUME ScheduleInv, Dying PROVE ScheduleInv'
<1>1. /\ ScheduleTypeOK' /\ Kept' /\ up /\ batch' = {}
      /\ UNCHANGED <<asked, given, started>> /\ file.rem = rem /\ file.job = job
      /\ \A r \in Reminders :
           \/ file'.rem[r].status = "none"
           \/ file'.rem[r].status = rem[r].status /\ file'.rem[r].repeat = rem[r].repeat
           \/ r \in Batch /\ file'.rem[r].status = "delivered"
              /\ file'.rem[r].repeat = rem[r].repeat
      /\ \A j \in Jobs :
           \/ file'.job[j].status = "none" \/ file'.job[j] = job[j]
           \/ JobDue(j) /\ file'.job[j] = Rearmed(j)
  BY InvIs, DyingDoes
<1>2. ASSUME NEW q \in Reminders PROVE ReminderOK(q)'
  <2>1. q \in Batch => rem[q].status # "none"
    BY <1>1, BatchHeld
  <2>2. QED BY <1>1, <2>1, InvIs, Numbered, ReminderStays
<1>3. ASSUME NEW j \in Jobs PROVE JobOK(j)'
  <2>1. CASE file'.job[j].status = "none" \/ file'.job[j] = job[j]
    BY <1>1, <2>1, InvIs, Numbered, JobStays
  <2>2. CASE JobDue(j) /\ file'.job[j] = Rearmed(j)
    BY <1>1, <2>2, JobRuns
  <2>3. QED BY <1>1, <2>1, <2>2
<1>4. QED BY <1>1, <1>2, <1>3 DEF ScheduleInv

LEMMA RestStep ==
  ASSUME ScheduleInv, Quiet \/ Boot \/ UNCHANGED schedule
  PROVE  ScheduleInv'
<1>1. ScheduleTypeOK' /\ Kept' /\ UNCHANGED <<file, batch, asked, given, started>>
  <2>1. CASE Quiet
    BY <2>1, InvIs, QuietDoes DEF Kept
  <2>2. CASE Boot
    BY <2>2, InvIs, BootDoes
  <2>3. CASE UNCHANGED schedule
    BY <2>3, InvIs DEF schedule, position, hist, ScheduleTypeOK, Kept
  <2>4. QED BY <2>1, <2>2, <2>3
<1>2. ASSUME NEW q \in Reminders PROVE ReminderOK(q)'
  BY <1>1, InvIs, Numbered, ReminderStays
<1>3. ASSUME NEW j \in Jobs PROVE JobOK(j)'
  BY <1>1, InvIs, Numbered, JobStays
<1>4. QED BY <1>1, <1>2, <1>3 DEF ScheduleInv

----------------------------------------------------------------------------
(* The theorems.                                                           *)

LEMMA ScheduleInitInv == ScheduleInit => ScheduleInv
<1>1. SUFFICES ASSUME ScheduleInit PROVE ScheduleInv
  OBVIOUS
<1>2. /\ up = TRUE /\ now = 0 /\ crashes = 0 /\ broken = FALSE /\ wake = FALSE /\ talking = FALSE
      /\ rem = [r \in Reminders |-> NoReminder] /\ job = [j \in Jobs |-> NoJob]
      /\ file = [rem |-> rem, job |-> job]
      /\ at = "top" /\ batch = {} /\ wakeAt = 0
      /\ given = [r \in Reminders |-> 0] /\ started = [j \in Jobs |-> <<>>]
      /\ asked = [reminders |-> 0, jobs |-> 0]
  BY <1>1 DEF ScheduleInit
<1>3. StoreOK
  BY <1>2, Nones DEF StoreOK
<1>4. HistOK
  BY <1>2 DEF HistOK
<1>5. RestOK
  <2>1. up \in BOOLEAN /\ broken \in BOOLEAN /\ wake \in BOOLEAN /\ talking \in BOOLEAN
    BY <1>2
  <2>2. now \in 0..MaxNow /\ crashes \in 0..MaxCrashes /\ at \in {"top", "giving", "busy", "asleep"}
        /\ batch \subseteq Reminders /\ wakeAt \in Nat
    BY <1>2, Calendar
  <2>3. QED BY <2>1, <2>2 DEF RestOK
<1>6. Kept
  BY <1>2 DEF Kept
<1>7. file.rem = rem /\ file.job = job
  BY <1>2
<1>8. ASSUME NEW r \in Reminders PROVE ReminderOK(r)
  BY <1>2, <1>7, Nones DEF ReminderOK
<1>9. ASSUME NEW j \in Jobs PROVE JobOK(j)
  BY <1>2, <1>7, Nones DEF JobOK
<1>10. QED BY <1>3, <1>4, <1>5, <1>6, <1>8, <1>9, ScheduleTypeIs DEF ScheduleInv

\* In every behaviour of the reminders, the jobs, the loop and the process that dies among
\* them, the inductive invariant holds (reminders.py, jobs.py, server.py _proactive_loop).
THEOREM ScheduleInvHolds == ScheduleSpec => []ScheduleInv
<1>1. ScheduleInv /\ [ScheduleNext]_schedule => ScheduleInv'
  <2>1. SUFFICES ASSUME ScheduleInv, [ScheduleNext]_schedule PROVE ScheduleInv'
    OBVIOUS
  <2>2. ASSUME NEW r \in Reminders, NEW chat \in BOOLEAN,
               Complete(r, chat) \/ \E t \in Times, repeat \in Recurrences : Remind(r, t, repeat, chat)
        PROVE  ScheduleInv'
    BY <2>1, <2>2, CompleteStep, RemindStep
  <2>3. ASSUME NEW j \in Jobs,
               CancelJob(j) \/ \E t \in Times, repeat \in JobRecurrences : ScheduleJob(j, t, repeat)
        PROVE  ScheduleInv'
    BY <2>1, <2>3, CancelJobStep, ScheduleJobStep
  <2>4. CASE Give \/ RunJobs \/ Dying
    BY <2>1, <2>4, GiveStep, RunJobsStep, DyingStep
  <2>5. CASE Quiet \/ Boot \/ UNCHANGED schedule
    BY <2>1, <2>5, RestStep
  <2>6. QED BY <2>1, <2>2, <2>3, <2>4, <2>5 DEF ScheduleNext, Loop, Quiet, Dying
<1>2. QED BY <1>1, ScheduleInitInv, PTL DEF ScheduleSpec

\* Types; a time that is waited for is always one there is.
THEOREM ScheduleTypeCorrect == ScheduleSpec => []ScheduleTypeOK
<1>1. ScheduleInv => ScheduleTypeOK
  BY DEF ScheduleInv
<1>2. QED BY <1>1, ScheduleInvHolds, PTL

\* Nothing comes back twice: no one-shot reminder, whatever is completed, cut short or
\* restarted meanwhile, and no slot of a job (reminders.py mark_delivered, jobs.py claim).
THEOREM NothingTwice == ScheduleSpec => []OncePerSlot
<1>1. ASSUME ScheduleInv PROVE OncePerSlot
  <2>1. OneShotOnce
    BY <1>1, InvIs DEF ReminderOK, OneShotOnce
  <2>2. SlotRunsOnce
    BY <1>1, InvIs DEF JobOK, SlotRunsOnce
  <2>3. QED BY <2>1, <2>2 DEF OncePerSlot
<1>2. ScheduleInv => OncePerSlot
  BY <1>1
<1>3. QED BY <1>2, ScheduleInvHolds, PTL

\* Only the loop gives and only the loop runs.
LEMMA GivenOrRun ==
  ASSUME ScheduleInv, [ScheduleNext]_schedule
  PROVE  Give \/ RunJobs \/ UNCHANGED <<given, started>>
<1>1. CASE Quiet \/ Boot \/ Dying \/ UNCHANGED schedule
  BY <1>1 DEF Quiet, TurnEnds, Wake, Tick, Sleep, Boot, Dying, Crash, CrashInReminders,
              CrashInJobs, Down, hist, schedule
<1>2. ASSUME NEW r \in Reminders, NEW chat \in BOOLEAN,
             Complete(r, chat) \/ \E t \in Times, repeat \in Recurrences : Remind(r, t, repeat, chat)
      PROVE  UNCHANGED <<given, started>>
  BY <1>2 DEF Complete, Remind, Asked
<1>3. ASSUME NEW j \in Jobs,
             CancelJob(j) \/ \E t \in Times, repeat \in JobRecurrences : ScheduleJob(j, t, repeat)
      PROVE  UNCHANGED <<given, started>>
  BY <1>3 DEF CancelJob, ScheduleJob, Asked
<1>4. QED BY <1>1, <1>2, <1>3 DEF ScheduleNext, Loop, Quiet, Dying

\* After an absence of any length what recurs is given, or run, once and not late, and then
\* waits for the first slot still to come (reminders.py next_occurrence, jobs.py claim).
THEOREM OneSlotPerAbsence == ScheduleSpec => AfterAbsence
<1>1. ASSUME ScheduleInv, [ScheduleNext]_schedule
      PROVE  \A r \in Reminders : given'[r] # given[r] /\ Recurs(rem[r].repeat) =>
               FirstAfter(rem'[r].due, rem[r].due, rem[r].repeat, now)
  <2>1. SUFFICES ASSUME NEW r \in Reminders, given'[r] # given[r], Recurs(rem[r].repeat)
                 PROVE  FirstAfter(rem'[r].due, rem[r].due, rem[r].repeat, now)
    OBVIOUS
  <2>2. Give
    BY <1>1, <2>1, GivenOrRun DEF RunJobs
  <2>3. PICK q \in Batch : /\ rem' = Returned(q)
                           /\ \A i \in Reminders \ {q} : given'[i] = given[i]
    BY <1>1, <2>2, InvIs, GiveDoes
  <2>4. r = q
    BY <2>1, <2>3
  <2>5. QED BY <1>1, <2>1, <2>3, <2>4, InvIs, ReturnedIs
<1>2. ASSUME ScheduleInv, [ScheduleNext]_schedule
      PROVE  \A j \in Jobs : Len(started'[j]) > Len(started[j]) => now - job[j].next <= STALE
  <2>1. SUFFICES ASSUME NEW j \in Jobs, Len(started'[j]) > Len(started[j])
                 PROVE  now - job[j].next <= STALE
    OBVIOUS
  <2>2. Len(started[j]) \in Nat
    BY <1>2, InvIs, ScheduleTypes
  <2>3. started'[j] # started[j]
    BY <2>1, <2>2
  <2>4. RunJobs
    BY <1>2, <2>3, GivenOrRun DEF Give
  <2>5. WorthIt(j)
    BY <1>2, <2>3, <2>4, InvIs, RunJobsDoes
  <2>6. QED BY <2>5 DEF WorthIt
<1>3. ScheduleSpec => GivenOncePerAbsence
  BY <1>1, ScheduleInvHolds, PTL DEF ScheduleSpec, GivenOncePerAbsence
<1>4. ScheduleSpec => NoStaleRun
  BY <1>2, ScheduleInvHolds, PTL DEF ScheduleSpec, NoStaleRun
<1>5. QED BY <1>3, <1>4 DEF AfterAbsence

=============================================================================
