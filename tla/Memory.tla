------------------------------- MODULE Memory -------------------------------
(***************************************************************************)
(* What the Keeper keeps about the person: backend/memory.py, the idle     *)
(* reflection that files insights beside it (backend/drift.py) and the     *)
(* threads of backend/server.py that write while the conversation reads.   *)
(*                                                                         *)
(* Each exchange gets a thread: it distils claims, files them one by one,  *)
(* then consolidates.  Nothing is locked: the threads share the list of    *)
(* facts and the file, and the event loop recalls from the list meanwhile. *)
(*                                                                         *)
(* A text is its topic and what it says of it.  Two texts that say the     *)
(* same are similar (a cosine of at least _SEMANTIC_DUP, or shared words); *)
(* two on one topic that differ are in the band where the judge is asked.  *)
(* Scores, and so the order of what is ranked, are left open.              *)
(*                                                                         *)
(* A fact is appended under the next id and never moves, so a list of      *)
(* facts is a function of the ids it holds, in the order of the ids.       *)
(***************************************************************************)
EXTENDS Integers, FiniteSets, Sequences

CONSTANTS Threads,      \* the threads that may be filing at once
          Left,         \* what facts.jsonl may hold at the first start
          Topics, Vals, \* what a text is about, and what it says of it
          K,            \* k of recall
          Budget,       \* _CONSOLIDATE_BUDGET
          Margin,       \* the few more than the overflow a tail may hold
          MinInsight,   \* _MIN_FACTS_TO_SYNTHESIZE
          MaxFilings,   \* bound: exchanges and reflections filed
          MaxClaims,    \* bound: claims of one of them
          MaxCrashes    \* bound

\* A file that was left numbers its facts anew, as they stand in it.
Kinds == {"word", "insight"}
Fact  == [topic : Topics, val : Vals, kind : Kinds, live : BOOLEAN, vec : BOOLEAN,
          replaces : Nat, warmed : BOOLEAN]
\* What one replaced is older, and is not current where both are held.
Replaced(s) == \A i \in DOMAIN s : LET r == s[i].replaces IN
                 r < i /\ (r \in DOMAIN s => ~s[r].live)
ASSUME MemoryAssumption ==
  /\ {K, MinInsight} \subseteq Nat \ {0}
  /\ {Budget, Margin, MaxFilings, MaxClaims, MaxCrashes} \subseteq Nat
  /\ \A s \in Left : s \in Seq(Fact) /\ Replaced(s)

VARIABLES
  facts,    \* MemoryStore.facts
  file,     \* facts.jsonl: its lines, and whether one of them is torn
  archive,  \* facts_archive.jsonl
  th,       \* what each thread is at
  shown,    \* a recall: its candidates, then which it put before the model
  up,       \* the process runs
  filings, ids, crashes,  \* counters: filings begun, facts made, deaths
  safe,     \* history: what the list and the file held when last nobody was filing
  cut       \* history: the process died inside a save, or over a torn file
vars == <<facts, file, archive, th, shown, up, filings, ids, crashes, safe, cut>>
counters == <<filings, ids, crashes>>

Claims == [topic : Topics, val : Vals, kind : Kinds]
Same(x, y)  == x.topic = y.topic /\ x.val = y.val
Banded(x, y) == x.topic = y.topic /\ x.val # y.val
Some(s, held) == [i \in DOMAIN s \cap held |-> s[i]]
Least(a, b) == IF a < b THEN a ELSE b

\* A thread: the claims it has yet to file, the one in hand, the fact it replaces, the
\* text of its save and what follows it, the clusters it has yet to merge.
Idle == [at |-> "idle", todo |-> <<>>, vec |-> FALSE, old |-> 0, merging |-> FALSE,
         text |-> <<>>, then |-> "none", clusters |-> {}, drop |-> {}, keep |-> {}]
Claim(t) == Head(th[t].todo)
Quiet(ts) == \A t \in Threads : ts[t].at = "idle"
NotShown == [at |-> "none", top |-> {}]

Init ==
  /\ facts \in Left /\ file = [lines |-> facts, torn |-> FALSE] /\ archive = {}
  /\ th = [t \in Threads |-> Idle] /\ shown = NotShown /\ up = TRUE
  /\ filings = 0 /\ ids = Len(facts) /\ crashes = 0 /\ safe = DOMAIN facts /\ cut = FALSE

\* A thread goes on.
Goes(t, r) == th' = [th EXCEPT ![t] = r] /\ UNCHANGED <<shown, up, crashes, cut>>
\* When the last one is done, what the list and the file both hold is noted.
Noted == safe' = IF Quiet(th') /\ ~file'.torn THEN DOMAIN file'.lines \cap DOMAIN facts' ELSE safe

----------------------------------------------------------------------------
(* What comes in.                                                          *)

Begins(t, claims) ==
  /\ up /\ th[t].at = "idle" /\ filings < MaxFilings /\ filings' = filings + 1
  /\ Goes(t, [Idle EXCEPT !.at = "file", !.todo = claims])
  /\ UNCHANGED <<facts, file, archive, ids>>
\* distill, past the model's answer, its parsing and the Keeper's own poetry.
Distils(t) == \E n \in 0..MaxClaims :
  \E claims \in [1..n -> {c \in Claims : c.kind = "word"}] : Begins(t, claims)
\* synthesize: only from enough that is current.
Reflects(t) ==
  /\ Cardinality({i \in DOMAIN facts : facts[i].live}) >= MinInsight
  /\ \E c \in Claims : c.kind = "insight" /\ Begins(t, <<c>>)

----------------------------------------------------------------------------
(* add.                                                                    *)

\* _find_similar: among all facts, the closed ones too; those with a vector first.
Similar(c, vec) ==
  LET same == {i \in DOMAIN facts : Same(facts[i], c)}
      near == {i \in same : facts[i].vec} IN
  IF vec /\ near # {} THEN near ELSE same
\* The loop of _find_supersedable.
Supersedable(c) == {i \in DOMAIN facts : facts[i].live /\ facts[i].vec
                      /\ facts[i].kind # "insight" /\ Banded(facts[i], c)}

Saving(r, next) == [r EXCEPT !.at = "render", !.then = next]
\* After a claim of an exchange the next; after a merged one a second save.
AfterAdd(t) == IF th[t].merging THEN "again" ELSE "next"

\* Said again: the fact is touched, and stays as it is.
SeenAgain(t, i, vec) ==
  /\ facts' = [facts EXCEPT ![i].vec = @ \/ vec]
  /\ Goes(t, Saving(th[t], AfterAdd(t)))

Seeks(t) ==
  /\ up /\ th[t].at = "file" /\ th[t].todo # <<>>
  /\ \E vec \in BOOLEAN :                  \* the embedder may fail, for good
       \/ \E i \in Similar(Claim(t), vec) : SeenAgain(t, i, vec)
       \/ /\ Similar(Claim(t), vec) = {}
          /\ LET olds == IF vec /\ ~th[t].merging /\ Claim(t).kind # "insight"
                         THEN Supersedable(Claim(t)) ELSE {}
                 r == [th[t] EXCEPT !.vec = vec] IN
             \/ \E i \in olds : Goes(t, [r EXCEPT !.at = "judge", !.old = i])
             \/ olds = {} /\ Goes(t, [r EXCEPT !.at = "put", !.old = 0])
          /\ UNCHANGED facts
  /\ UNCHANGED <<file, archive, filings, ids>>

\* The judge says SUPERSEDES, and the old one is closed; or anything else, or fails.
ClosedM(id) == facts                       \* mutation: it stays current
Closed(id)  == IF id \in DOMAIN facts THEN [facts EXCEPT ![id].live = FALSE] ELSE facts
Judges(t) ==
  /\ up /\ th[t].at = "judge"
  /\ \/ facts' = Closed(th[t].old) /\ Goes(t, [th[t] EXCEPT !.at = "put"])
     \/ UNCHANGED facts /\ Goes(t, [th[t] EXCEPT !.at = "put", !.old = 0])
  /\ UNCHANGED <<file, archive, filings, ids>>

\* The new one, with what it replaced and, as the second judge has it, whether for the
\* better.
Puts(t) ==
  /\ up /\ th[t].at = "put"
  /\ ids' = ids + 1
  /\ \E warmed \in IF th[t].old # 0 THEN BOOLEAN ELSE {FALSE} :
       LET new == [topic |-> Claim(t).topic, val |-> Claim(t).val, kind |-> Claim(t).kind,
                   live |-> TRUE, vec |-> th[t].vec, replaces |-> th[t].old,
                   warmed |-> warmed] IN
       facts' = [i \in DOMAIN facts \cup {ids'} |-> IF i = ids' THEN new ELSE facts[i]]
  /\ Goes(t, Saving(th[t], AfterAdd(t)))
  /\ UNCHANGED <<file, archive, filings>>

----------------------------------------------------------------------------
(* _save: the text is made, the file is emptied, the text is written.      *)

Renders(t) ==
  /\ up /\ th[t].at = "render"
  /\ Goes(t, [th[t] EXCEPT !.at = "open", !.text = facts])
  /\ UNCHANGED <<facts, file, archive, filings, ids>>
Opens(t) ==
  /\ up /\ th[t].at = "open"
  /\ file' = [lines |-> <<>>, torn |-> FALSE]
  /\ Goes(t, [th[t] EXCEPT !.at = "flush"])
  /\ UNCHANGED <<facts, archive, filings, ids>>
\* Over what another thread wrote meanwhile, a longer end of which sticks out.
Flushes(t) ==
  /\ up /\ th[t].at = "flush"
  /\ \E torn \in IF file.lines \in {<<>>, th[t].text} THEN {FALSE} ELSE BOOLEAN :
       file' = [lines |-> th[t].text, torn |-> torn]
  /\ Goes(t, LET r == [th[t] EXCEPT !.text = <<>>, !.then = "none"] IN
       CASE th[t].then = "next"  -> [r EXCEPT !.at = "file", !.todo = Tail(@), !.old = 0,
                                              !.vec = FALSE]
         [] th[t].then = "merge" -> [r EXCEPT !.at = "file"]
         [] th[t].then = "again" -> Saving(r, "sum")
         [] th[t].then = "sum"   -> [r EXCEPT !.at = "sum", !.todo = <<>>, !.vec = FALSE])
  /\ UNCHANGED <<facts, archive, filings, ids>>

----------------------------------------------------------------------------
(* consolidate, after an exchange (a reflection just ends).                *)

\* The least of what is no insight, closed facts among it, grouped by what it is about.
Held  == Cardinality(DOMAIN facts)
Tails == LET all == {i \in DOMAIN facts : facts[i].kind # "insight"} IN
  {s \in SUBSET all :
     Cardinality(s) = Least(Held - Budget + Margin, Cardinality(all))}
Clusters(tail) ==
  {c \in {{i \in tail : facts[i].topic = topic} : topic \in Topics} : Cardinality(c) >= 2}
Filed(t) ==
  /\ up /\ th[t].at = "file" /\ th[t].todo = <<>>
  /\ \/ Held <= Budget /\ Goes(t, Idle)
     \/ /\ Held > Budget
        /\ \E tail \in Tails : \E near \in SUBSET Clusters(tail) :
             Goes(t, [Idle EXCEPT !.at = "sum", !.clusters = near])
  /\ UNCHANGED <<facts, file, archive, filings, ids>>

\* A merged text for a cluster, or none, or a failure that ends it all.
Sums(t) ==
  /\ up /\ th[t].at = "sum"
  /\ \/ Goes(t, Idle)
     \/ \E c \in th[t].clusters :
          LET r == [Idle EXCEPT !.at = "sum", !.clusters = th[t].clusters \ {c}] IN
          \/ Goes(t, r)
          \/ \E i \in c \cap DOMAIN facts :
               Goes(t, [r EXCEPT !.at = "archive", !.merging = TRUE, !.drop = c,
                                 !.todo = <<[topic |-> facts[i].topic, val |-> facts[i].val,
                                             kind |-> "word"]>>])
  /\ UNCHANGED <<facts, file, archive, filings, ids>>

\* archive: the originals are written there, then a list without them is built, then it
\* takes the list's place; what was appended to the old one in between is gone with it.
ArchivedM(t) == archive                    \* mutation: the originals are let go
Archived(t)  == archive \cup th[t].drop
Archives(t) ==
  /\ up /\ th[t].at = "archive"
  /\ archive' = Archived(t)
  /\ Goes(t, [th[t] EXCEPT !.at = "rebuild"])
  /\ UNCHANGED <<facts, file, filings, ids>>
Rebuilds(t) ==
  /\ up /\ th[t].at = "rebuild"
  /\ Goes(t, [th[t] EXCEPT !.at = "rebind", !.keep = DOMAIN facts \ th[t].drop])
  /\ UNCHANGED <<facts, file, archive, filings, ids>>
Rebinds(t) ==
  /\ up /\ th[t].at = "rebind"
  /\ facts' = Some(facts, th[t].keep)
  /\ Goes(t, Saving([th[t] EXCEPT !.keep = {}, !.drop = {}], "merge"))
  /\ UNCHANGED <<file, archive, filings, ids>>

----------------------------------------------------------------------------
(* recall, in the event loop: the current facts ranked, some dropped by    *)
(* the relevance gate; then the model re-ranks them; then they are shown.  *)

CandidatesM == DOMAIN facts                \* mutation: history is ranked too
Candidates  == {i \in DOMAIN facts : facts[i].live}
Ranks ==
  /\ up /\ shown.at = "none"
  /\ \E passing \in SUBSET Candidates :
       /\ Cardinality(passing) <= 3 * K
       /\ shown' = [at |-> "ranked", top |-> passing]
  /\ UNCHANGED <<facts, file, archive, th, up, counters, safe, cut>>
\* rerank: the ones the model names, then others as they stood, K in all.
Reranked(top) == IF Cardinality(top) <= K THEN {top}
                 ELSE {some \in SUBSET top : Cardinality(some) = K}
Shows ==
  /\ shown.at = "ranked"
  /\ \E top \in Reranked(shown.top) : shown' = [at |-> "shown", top |-> top]
  /\ UNCHANGED <<facts, file, archive, th, up, counters, safe, cut>>
Answered ==
  /\ shown.at = "shown" /\ shown' = NotShown
  /\ UNCHANGED <<facts, file, archive, th, up, counters, safe, cut>>

----------------------------------------------------------------------------
(* Death and start: a save that was open leaves the head of its text, a    *)
(* torn file keeps the process from starting.                              *)

Dies ==
  /\ up /\ crashes < MaxCrashes /\ crashes' = crashes + 1
  /\ LET flushing == {t \in Threads : th[t].at = "flush"} IN
     /\ cut' = (cut \/ flushing # {} \/ file.torn)
     /\ \/ UNCHANGED file
        \/ \E t \in flushing : \E n \in 0..ids : \E torn \in BOOLEAN :
             file' = [lines |-> Some(th[t].text, 1..n), torn |-> torn]
  /\ up' = FALSE /\ facts' = <<>> /\ th' = [t \in Threads |-> Idle] /\ shown' = NotShown
  /\ UNCHANGED <<archive, filings, ids, safe>>
Starts ==
  /\ ~up /\ ~file.torn
  /\ up' = TRUE /\ facts' = file.lines
  /\ UNCHANGED <<file, archive, th, shown, counters, safe, cut>>

Files(t) ==
  \/ Distils(t) \/ Reflects(t) \/ Seeks(t) \/ Judges(t) \/ Puts(t)
  \/ Renders(t) \/ Opens(t) \/ Flushes(t)
  \/ Filed(t) \/ Sums(t) \/ Archives(t) \/ Rebuilds(t) \/ Rebinds(t)
Next == (\E t \in Threads : Files(t) /\ Noted) \/ Ranks \/ Shows \/ Answered \/ Dies \/ Starts
Spec == Init /\ [][Next]_vars

----------------------------------------------------------------------------
(* Properties.                                                             *)

\* Types, and that what one fact replaced is older and no longer current, in the list and
\* in the file.
IsList(s) == DOMAIN s \subseteq 1..ids /\ s \in [DOMAIN s -> Fact] /\ Replaced(s)
TypeOK ==
  /\ IsList(facts) /\ IsList(file.lines) /\ file.torn \in BOOLEAN
  /\ archive \subseteq 1..ids /\ safe \subseteq 1..ids /\ {up, cut} \subseteq BOOLEAN

\* What recall puts before the model never holds a fact beside the one that replaced
\* it, whatever the threads do between the two judges' answers.
NeverBoth ==
  \A i, j \in shown.top \cap DOMAIN facts : facts[j].replaces # i

\* What the list and the file held when last nobody was filing is still kept, in the store
\* or in the archive, unless the process died over a half-written file: no fact is ever deleted.
QuietIsKept == up /\ ~cut => safe \subseteq DOMAIN facts \cup archive

\* A claim that is said again is current from then on (checked to fail: the similar fact
\* may be one that was closed, and it stays closed).
AgainIsCurrent == [][\A t \in Threads :
  (th[t].at = "file" /\ th'[t].at = "render") =>
     \E i \in DOMAIN facts' : Same(facts'[i], Claim(t)) /\ facts'[i].live]_vars
=============================================================================
