------------------------------- MODULE Tools -------------------------------
(***************************************************************************)
(* Who may use which tool, and how a loop of tool calls ends: the servers  *)
(* of mcp.json (backend/tools.py), the Keeper's own tools                  *)
(* (backend/native_tools.py), the loop of compose.tool_reply, the          *)
(* specialists it hands work to (backend/subagents.py) and what it sets    *)
(* going in the background (backend/background.py, backend/server.py).     *)
(*                                                                         *)
(* A loop asks the model; the model answers or calls a tool; a tool may    *)
(* refuse, raise, or be a whole fan-out of specialists with loops of their *)
(* own, side by side.  What the model says and calls is open.  A turn and  *)
(* a background delegation share nothing but what is registered, so they   *)
(* are taken one at a time here.                                           *)
(***************************************************************************)
EXTENDS Integers

CONSTANTS Base,        \* the native tools everyone with native tools gets
          Personal,    \* set_dial, the jobs' and the ways': the person's own turn only
          Servers, Offers,  \* the servers switched on, and the tools each lists
          AllowList, Deny, Propose, Required,  \* and what mcp.json says of them
          ReadOnly,    \* the servers left read-only
          Mutating,    \* the tool names that sound like a change
          Expectable,  \* what a request may plainly call for
          MaxRounds,   \* max_rounds of a turn
          WorkerRounds,  \* and of a specialist (SubAgentProfile.max_rounds)
          MaxWorkers   \* MAX_WORKERS

Reaching == {"spawn_task", "consult_peer", "delegate"}

ASSUME ToolsAssumption ==
  /\ Base \cap (Personal \cup Reaching) = {} /\ Personal \cap Reaching = {}
  /\ ReadOnly \subseteq Servers /\ "native" \notin Servers
  /\ \A f \in {Offers, AllowList, Deny, Propose, Required} : DOMAIN f = Servers
  /\ MaxRounds \in Nat \ {0} /\ WorkerRounds \in Nat \ {0} /\ MaxWorkers \in Nat \ {0}

VARIABLES
  health,      \* MCPManager.health: "unseen", "failed", "degraded" or "ok"
  routes,      \* MCPManager._route
  proposable,  \* MCPManager._proposable_route
  loop,        \* tool_reply: of the turn and of each specialist
  caller,      \* whose turn it is: "person" or "peer"
  bg           \* a delegation in the background: "none", "started", "running", "done",
               \* "failed" or "lost"
vars == <<health, routes, proposable, loop, caller, bg>>
registry == <<health, routes, proposable>>

Turn    == 0
Workers == 1..MaxWorkers
Loops   == {Turn} \cup Workers

\* A tool as a loop sees it: the provider that answers for it, its server, its name.
Of(via, from, names) == {[via |-> via, from |-> from, name |-> n] : n \in names}
NoCall == [via |-> "none", from |-> "native", name |-> "none"]

----------------------------------------------------------------------------
(* The servers.                                                            *)

\* connect: what a server lists becomes callable, or proposable, or nothing.
Gated(s, listed)  == (listed \cap Propose[s]) \ Deny[s]
Filtered(s, listed) ==
  {t \in listed \ (Gated(s, listed) \cup Deny[s]) :
     (AllowList[s] = {} \/ t \in AllowList[s]) /\ (s \in ReadOnly => t \notin Mutating)}
MissingM(s, listed) == {}                  \* mutation: what was promised is not looked for
Missing(s, listed)  == Required[s] \ (Gated(s, listed) \cup Filtered(s, listed))

Connect(s) ==
  /\ health[s] = "unseen"
  /\ \/ health' = [health EXCEPT ![s] = "failed"] /\ UNCHANGED <<routes, proposable>>
     \/ \E gone \in SUBSET Required[s] :
          LET listed == Offers[s] \ gone IN
          /\ routes' = routes \cup Of("mcp", s, Filtered(s, listed))
          /\ proposable' = proposable \cup Of("proposer", s, Gated(s, listed))
          /\ health' = [health EXCEPT ![s] =
                          IF Missing(s, listed) = {} THEN "ok" ELSE "degraded"]
  /\ UNCHANGED <<loop, caller, bg>>
Connected == \A s \in Servers : health[s] # "unseen"

----------------------------------------------------------------------------
(* The providers each caller is given.                                     *)

Native(personal, reaching) ==
  Of("native", "native", Base \cup personal \cup reaching)
\* NativeTools(..., allow_delegate=False), for a specialist or a peer.
SubNativeM == Native({}, Reaching)         \* mutation: it may delegate in turn
SubNative  == Native({}, {})

Profiles ==
  [researcher |-> [servers |-> {"search", "fetch"}, native |-> FALSE, proposes |-> FALSE],
   archivist  |-> [servers |-> {"files", "git", "time", "google"}, native |-> TRUE,
                   proposes |-> FALSE],
   scribe     |-> [servers |-> {}, native |-> TRUE, proposes |-> TRUE],
   analyst    |-> [servers |-> {}, native |-> TRUE, proposes |-> FALSE]]

\* run: its own tools, what the boss lets it propose, its servers' tools.
ForWorker(profile) ==
  LET p == Profiles[profile] IN
  (IF p.native THEN SubNative ELSE {})
    \cup (IF p.proposes /\ bg = "running" THEN proposable ELSE {})
    \cup {t \in routes : t.from \in p.servers}

\* _converse; _answer_as_keeper.
ForTurn == IF caller = "person"
           THEN Native(Personal, Reaching) \cup routes \cup proposable
           ELSE SubNative \cup routes

Offered(l) == IF l = Turn THEN ForTurn ELSE ForWorker(loop[l].profile)

----------------------------------------------------------------------------
(* tool_reply.                                                             *)

Off == [at |-> "off", profile |-> "none", round |-> 0, call |-> NoCall,
        refused |-> {}, expects |-> FALSE, nudged |-> FALSE]
Fresh(profile, expects) ==
  [Off EXCEPT !.at = "model", !.round = 1, !.profile = profile, !.expects = expects]
Over(how) == [Off EXCEPT !.at = how]
Running(l) == loop[l].at \in {"model", "call", "wait", "last"}

Init ==
  /\ health = [s \in Servers |-> "unseen"] /\ routes = {} /\ proposable = {}
  /\ loop = [l \in Loops |-> Off] /\ caller = "person"
  /\ bg = "none"

\* The rounds run out: once more, without tools.
Rounds(r) == IF r.profile = "none" THEN MaxRounds ELSE WorkerRounds
NextRoundM2(r) ==                          \* mutation: one round too many
  IF r.round <= Rounds(r)
  THEN [r EXCEPT !.at = "model", !.round = @ + 1, !.call = NoCall]
  ELSE [Off EXCEPT !.at = "last", !.profile = r.profile, !.round = r.round]
NextRound(r) ==
  IF r.round < Rounds(r)
  THEN [r EXCEPT !.at = "model", !.round = @ + 1, !.call = NoCall]
  ELSE [Off EXCEPT !.at = "last", !.profile = r.profile, !.round = r.round]

\* It answers without a call: told once of what did not go through, or of what was
\* asked for and not done.
Answers(l) ==
  /\ loop[l].at \in {"model", "last"}
  /\ loop' = [loop EXCEPT ![l] =
       IF @.at = "model" /\ (@.refused # {} \/ @.expects) /\ ~@.nudged
       THEN NextRound([@ EXCEPT !.nudged = TRUE])
       ELSE Over("ended")]
  /\ UNCHANGED <<registry, caller, bg>>
\* What raises ends the loop, and whoever waits for it decides what to make of it.
Raises(l) ==
  /\ loop[l].at \in {"model", "last", "call"}
  /\ loop' = [loop EXCEPT ![l] = Over("raised")]
  /\ UNCHANGED <<registry, caller, bg>>
Calls(l) ==
  /\ loop[l].at = "model"
  /\ \E t \in Offered(l) \cup {NoCall} : loop' = [loop EXCEPT ![l].at = "call", ![l].call = t]
  /\ UNCHANGED <<registry, caller, bg>>

\* It did what it was asked, or answered "(...)", as an unknown tool does.
Done(r)    == NextRound([r EXCEPT !.refused = @ \ {r.call},
                                  !.expects = @ /\ r.call.name \notin Expectable])
Refused(r) == NextRound([r EXCEPT !.refused = @ \cup {r.call}])

Plain(t) == t.name \notin {"delegate", "spawn_task", "none"}
CallEnds(l) ==
  /\ loop[l].at = "call"
  /\ \/ Plain(loop[l].call) /\ loop' = [loop EXCEPT ![l] = Done(@)]
     \/ loop' = [loop EXCEPT ![l] = Refused(@)]
  /\ UNCHANGED <<registry, caller, bg>>

----------------------------------------------------------------------------
(* Specialists and the background.                                         *)

\* orchestrate: a subtask for each of some workers, all started together.
FanOut(now) ==
  \E team \in [Workers -> (DOMAIN Profiles) \cup {"none"}] :
    /\ team[1] # "none"
    /\ loop' = [l \in Loops |-> IF l = Turn THEN now
                              ELSE IF team[l] = "none" THEN Off ELSE Fresh(team[l], FALSE)]

Delegates ==
  /\ loop[Turn].at = "call" /\ loop[Turn].call.name = "delegate"
  /\ FanOut([loop[Turn] EXCEPT !.at = "wait"])
  /\ UNCHANGED <<registry, caller, bg>>
Spawns ==
  /\ loop[Turn].at = "call" /\ loop[Turn].call.name = "spawn_task"
  /\ bg = "none" /\ bg' = "started"
  /\ loop' = [loop EXCEPT ![Turn] = Done(@)]
  /\ UNCHANGED <<registry, caller>>
BackBegins ==
  /\ bg = "started" /\ ~Running(Turn)
  /\ bg' = "running" /\ FanOut(Off)
  /\ UNCHANGED <<registry, caller>>

Team    == {l \in Workers : loop[l].at # "off"}
Settled == \A l \in Team : ~Running(l)
\* One specialist alone takes its caller with it when it raises; of several, those
\* that raised or found nothing are left out.
Broken == \E l \in Team : loop[l].at = "raised" /\ Team = {l}
Empty  == \A l \in Team : loop[l].at = "raised"
Disbanded(now) == [l \in Loops |-> IF l = Turn THEN now ELSE Off]

TurnJoins ==
  /\ loop[Turn].at = "wait" /\ Settled
  /\ LET r == loop[Turn] IN
     \/ Broken /\ loop' = Disbanded(Over("raised"))
     \/ ~Empty /\ loop' = Disbanded(Done(r))
     \/ ~Broken /\ loop' = Disbanded(Refused(r))
  /\ UNCHANGED <<registry, caller, bg>>
\* _run_background: a failure, or nothing found, is kept and not told.
FinishedM(found) == IF found THEN "done" ELSE "running"  \* mutation: a failure is not kept
Finished(found)  == IF found THEN "done" ELSE "failed"
BackJoins ==
  /\ bg = "running" /\ Settled
  /\ \E found \in BOOLEAN :
       /\ found => ~Empty
       /\ bg' = Finished(found)
  /\ loop' = Disbanded(loop[Turn])
  /\ UNCHANGED <<registry, caller>>

\* A message from the person or, when that is open, from a peer agent.
Ask ==
  /\ Connected /\ ~Running(Turn) /\ bg \notin {"started", "running"}
  /\ \E who \in {"person", "peer"}, expects \in BOOLEAN :
       /\ expects => who = "person"
       /\ caller' = who
       /\ loop' = [loop EXCEPT ![Turn] = Fresh("none", expects)]
  /\ UNCHANGED <<registry, bg>>

\* BackgroundTasks is in memory: what was running is forgotten.
Restart ==
  /\ health' = [s \in Servers |-> "unseen"] /\ routes' = {} /\ proposable' = {}
  /\ loop' = [l \in Loops |-> Off] /\ caller' = "person"
  /\ bg' = IF bg \in {"started", "running"} THEN "lost" ELSE bg

Next ==
  \/ \E s \in Servers : Connect(s)
  \/ Ask \/ Delegates \/ Spawns \/ BackBegins \/ TurnJoins \/ BackJoins \/ Restart
  \/ \E l \in Loops : Answers(l) \/ Calls(l) \/ CallEnds(l) \/ Raises(l)

\* A call of the model or of a tool answers, or times out and is refused or raises;
\* the event loop gets to every task.
Fairness ==
  /\ \A l \in Loops : WF_vars(Answers(l) \/ Calls(l) \/ CallEnds(l) \/ Raises(l))
  /\ \A s \in Servers : WF_vars(Connect(s))
  /\ WF_vars(Delegates) /\ WF_vars(Spawns) /\ WF_vars(TurnJoins)
  /\ WF_vars(BackBegins) /\ WF_vars(BackJoins)

Spec == Init /\ [][Next]_vars /\ Fairness

----------------------------------------------------------------------------
(* Properties.                                                             *)

\* Every variable keeps its type; a loop's rounds are bounded, a turn's and a specialist's
\* each by their own maximum (compose.tool_reply).
Listed == UNION {Offers[s] : s \in Servers}
Named == Base \cup Personal \cup Reaching \cup Listed \cup {"none"}
Tool == [via : {"native", "mcp", "proposer", "none"}, from : Servers \cup {"native"}, name : Named]
Record == [at : {"off", "model", "call", "wait", "last", "ended", "raised"},
           profile : (DOMAIN Profiles) \cup {"none"}, round : Nat,
           call : Tool, refused : SUBSET Tool, expects : BOOLEAN, nudged : BOOLEAN]
TypeOK ==
  /\ health \in [Servers -> {"unseen", "failed", "degraded", "ok"}]
  /\ routes \subseteq Tool /\ proposable \subseteq Tool
  /\ loop \in [Loops -> Record] /\ loop[Turn].profile = "none"
  /\ \A l \in Loops : loop[l].round <= Rounds(loop[l])
  /\ caller \in {"person", "peer"} /\ bg \in {"none", "started", "running", "done", "failed", "lost"}

\* Whatever a loop runs, it was meant to reach: a peer and a specialist set nobody
\* else going and touch nothing of the person's own; only the person's turn and the
\* scribe of a background task propose; a tool behind approval, or one that changes
\* what is read-only, is run by no model, and a researcher reads only the web
\* (native_tools.py __init__, subagents.py run, tools.py connect, server.py
\* _answer_as_keeper).
Confined ==
  \A l \in Loops :
    LET c == loop[l].call
        own == l = Turn /\ caller = "person" IN
    loop[l].at \in {"call", "wait"} /\ c # NoCall =>
      /\ c.via = "native" /\ c.name \in Personal \cup Reaching => own
      /\ c.via = "native" => loop[l].profile # "researcher"
      /\ c.via = "proposer" =>
           own \/ (l # Turn /\ bg = "running" /\ loop[l].profile = "scribe")
      /\ c.via = "mcp" =>
           /\ c.name \notin Deny[c.from] \cup Propose[c.from]
           /\ c.from \in ReadOnly => c.name \notin Mutating
           /\ health[c.from] \in {"ok", "degraded"}
           /\ loop[l].profile = "researcher" => c.from \in {"search", "fetch"}

\* A server reported as healthy has each tool it promised, where a loop or an approved
\* proposal finds it (tools.py connect).
HealthIsTrue ==
  \A s \in Servers :
    health[s] = "ok" =>
      \A t \in Required[s] : \E u \in routes \cup proposable : u.from = s /\ u.name = t

\* A turn always comes to an end, with an answer or the line that owns up to an error,
\* whatever the tools and specialists do, and what runs in the background is settled
\* in the end (compose.tool_reply, subagents.orchestrate, server.py _run_background).
EverythingEnds ==
  /\ \A l \in Loops : Running(l) ~> ~Running(l)
  /\ bg = "started" ~> bg \in {"done", "failed", "lost"}

============================================================================
