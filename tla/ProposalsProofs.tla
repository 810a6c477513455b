--------------------------- MODULE ProposalsProofs ---------------------------
(***************************************************************************)
(* Proofs about Proposals, for every number of proposals, fields, values,  *)
(* turns and crashes.                                                      *)
(***************************************************************************)
EXTENDS Proposals, TLAPS

\* A list of proposals in which everything that exists has its arguments.
StoreOK(s) == /\ s \in [Ids -> Proposal]
              /\ \A i \in Ids : s[i].status # "none" => s[i].args \in Args

Typed == TypeOK /\ StoreOK(mem) /\ StoreOK(disk)

----------------------------------------------------------------------------
(* What each operation of the store makes of a well-formed list.           *)

LEMMA EmptyOK == StoreOK(Empty)
  BY DEF StoreOK, Empty, Blank, Proposal, Statuses

LEMMA ExpiredOK ==
  ASSUME NEW s, StoreOK(s)
  PROVE  /\ StoreOK(Expired(s))
         /\ \A i \in Ids : /\ Expired(s)[i].args = s[i].args
                           /\ Expired(s)[i].original = s[i].original
                           /\ Expired(s)[i].expires = s[i].expires
                           /\ \/ Expired(s)[i].status = s[i].status
                              \/ s[i].status = "pending" /\ Expired(s)[i].status = "expired"
  BY DEF StoreOK, Expired, Stale, Proposal, Statuses, Settled

LEMMA AddedOK ==
  ASSUME NEW s, StoreOK(s), NEW i \in Ids, NEW a \in Args, TypeOK
  PROVE  /\ StoreOK(Added(s, i, a))
         /\ Added(s, i, a)[i].status = "pending"
         /\ \A j \in Ids \ {i} : Added(s, i, a)[j] = s[j]
  BY ProposalsAssumption DEF StoreOK, Added, Proposal, Statuses, TypeOK

LEMMA DeclinedOK ==
  ASSUME NEW s, StoreOK(s), NEW i \in Ids, s[i].status = "pending"
  PROVE  /\ StoreOK(Declined(s, i))
         /\ Declined(s, i)[i].status = "declined"
         /\ Declined(s, i)[i].args = s[i].args
         /\ \A j \in Ids \ {i} : Declined(s, i)[j] = s[j]
  BY DEF StoreOK, Declined, Proposal, Statuses, Settled

\* An edit that is not refused only replaces fields the draft has.
LEMMA MergeOK ==
  ASSUME NEW a \in Args, NEW s \in Surfaces, NEW e \in Edits(s), NEW b, ~Refused(b, e)
  PROVE  Merge(a, e) \in Args
<1>1. DOMAIN e \subseteq Fields
  BY DEF Refused
<1>2. \A k \in DOMAIN e : e[k] \in Values
  <2>1. CASE s = "web"
    <3>1. PICK E \in SUBSET (Fields \cup {Unknown}) : e \in [E -> Values]
      BY <2>1 DEF Edits
    <3>2. QED BY <3>1
  <2>2. CASE s # "web"
    <3>1. e = [k \in {} |-> NoArgs]
      BY <2>2 DEF Edits
    <3>2. QED BY <3>1
  <2>3. QED BY <2>1, <2>2
<1>3. QED BY <1>1, <1>2 DEF Merge, Args

LEMMA EditedOK ==
  ASSUME NEW st, StoreOK(st), NEW i \in Ids, st[i].status = "pending",
         NEW s \in Surfaces, NEW e \in Edits(s), ~Refused(st[i].args, e)
  PROVE  /\ StoreOK(Edited(st, i, e))
         /\ Edited(st, i, e)[i].status = "pending"
         /\ Edited(st, i, e)[i].args = Merge(st[i].args, e)
         /\ \A j \in Ids \ {i} : Edited(st, i, e)[j] = st[j]
<1>1. st[i].args \in Args
  BY DEF StoreOK
<1>2. Merge(st[i].args, e) \in Args
  BY <1>1, MergeOK
<1>3. QED BY <1>1, <1>2 DEF StoreOK, Edited, Proposal

LEMMA ApprovedOK ==
  ASSUME NEW s, StoreOK(s), NEW i \in Ids, s[i].status = "pending"
  PROVE  /\ StoreOK(Approved(s, i))
         /\ Approved(s, i)[i].status = "approved"
         /\ Approved(s, i)[i].args = s[i].args
         /\ \A j \in Ids \ {i} : Approved(s, i)[j] = s[j]
  BY DEF StoreOK, Approved, Proposal, Statuses, Settled

LEMMA FinishedOK ==
  ASSUME NEW s, StoreOK(s), NEW i \in Ids, s[i].status = "approved", NEW answer
  PROVE  /\ StoreOK(Finished(s, i, answer))
         /\ Finished(s, i, answer)[i].status = IF answer = "ok" THEN "done" ELSE "failed"
         /\ Finished(s, i, answer)[i].args = s[i].args
         /\ \A j \in Ids \ {i} : Finished(s, i, answer)[j] = s[j]
  BY DEF StoreOK, Finished, LooksFailed, Proposal, Statuses, Settled

LEMMA LoadedOK ==
  ASSUME NEW s, StoreOK(s)
  PROVE  /\ StoreOK(Loaded(s))
         /\ \A i \in Ids : /\ Loaded(s)[i].args = s[i].args
                           /\ Loaded(s)[i].status =
                                IF s[i].status = "approved" THEN "failed" ELSE s[i].status
  BY DEF StoreOK, Loaded, TornStatus, Proposal, Statuses, Settled

LEMMA PrefixOK ==
  ASSUME NEW s, StoreOK(s), NEW k \in 0..MaxId
  PROVE  /\ StoreOK(Prefix(s, k))
         /\ \A i \in Ids : Prefix(s, k)[i] = s[i] \/ Prefix(s, k)[i] = Blank
  BY DEF StoreOK, Prefix, Blank, Proposal, Statuses

----------------------------------------------------------------------------
(* The inductive invariant.                                                *)

\* Where a proposal the tool server was asked for can stand.
Ran == {"approved", "done", "failed", "none"}

Sound(i) ==
  /\ i > minted => disk[i].status = "none" /\ called[i] = 0
  /\ called[i] <= 1 /\ effects[i] <= called[i]
  /\ called[i] > 0 => disk[i].status \in Ran
  /\ i \in inflight => called[i] = 1 /\ disk[i].status = "approved"
  /\ disk[i].status = "done" => effects[i] = 1

\* While the process runs the file and the list agree; while it is down nothing is
\* in flight; and at every moment the file alone shows what may not run again.
Inv == /\ Typed
       /\ IF up THEN mem = disk ELSE mem = Empty /\ inflight = {}
       /\ \A i \in Ids : Sound(i)

\* How a proposal's record may move in one save, the one _load makes apart.
MayBecome(i, p, q) ==
  \/ q.status = p.status
  \/ p.status = "pending" /\ q.status \in {"expired", "declined", "approved"}
  \/ /\ i \in inflight /\ p.status = "approved"
     /\ \/ q.status = "failed"
        \/ q.status = "done" /\ effects[i] = called[i]
  \/ i = minted + 1 /\ p.status = "none" /\ q.status = "pending"

\* What one step of the system can do to the file: such a move, or losing the
\* proposal with a half-written file, or failing what no tool was
\* there for, and what _load found approved.
Moved == /\ \A i \in Ids : \/ MayBecome(i, disk[i], disk'[i])
                           \/ disk'[i].status = "none"
                           \/ /\ disk[i].status \in {"pending", "approved"}
                              /\ disk'[i].status = "failed"
         /\ \/ minted' = minted
            \/ minted' = minted + 1 /\ minted' \in Ids /\ disk'[minted'].status = "pending"

\* Every file that may be half written when the process dies is one such move away.
LEMMA WritesOK ==
  ASSUME Inv, up, NEW w \in Writes
  PROVE  /\ StoreOK(w)
         /\ \A i \in Ids :
              /\ MayBecome(i, mem[i], w[i])
              /\ mem[i].status # "none" => w[i].args = mem[i].args
              /\ mem[i].status = "none" /\ w[i].status # "none" => w[i].args \in Drafts
<1> USE DEF Typed, Inv, Sound
<1>1. CASE w \in {mem, Swept}
  BY <1>1, ExpiredOK DEF Swept, MayBecome
<1>2. CASE \E a \in Drafts : w = Added(mem, minted + 1, a) /\ minted < MaxId
  <2>1. PICK a \in Drafts : w = Added(mem, minted + 1, a) /\ minted < MaxId
    BY <1>2
  <2>2. minted + 1 \in Ids /\ a \in Args /\ minted + 1 > minted
    BY <2>1, ProposalsAssumption DEF TypeOK, Ids, Drafts
  <2>3. w[minted + 1].args = a
    BY <2>1, <2>2 DEF Added, StoreOK
  <2>4. QED BY <2>1, <2>2, <2>3, AddedOK DEF MayBecome
<1>3. CASE \E i \in Ids : StillPending(i) /\ w \in {Declined(Swept, i), Approved(Swept, i)}
  <2>1. PICK i \in Ids : StillPending(i) /\ w \in {Declined(Swept, i), Approved(Swept, i)}
    BY <1>3
  <2>2. StoreOK(Swept) /\ Swept[i].status = "pending"
    BY <2>1, ExpiredOK DEF Swept, StillPending
  <2>3. QED BY <2>1, <2>2, ExpiredOK, DeclinedOK, ApprovedOK DEF Swept, MayBecome
<1>4. CASE \E i \in inflight : \E answer \in MayAnswer(i) : w = Finished(mem, i, answer)
  <2>0. PICK i \in inflight : \E answer \in MayAnswer(i) : w = Finished(mem, i, answer)
    BY <1>4
  <2>1. PICK answer \in MayAnswer(i) : w = Finished(mem, i, answer)
    BY <2>0
  <2>2. i \in Ids /\ mem[i].status = "approved"
    BY <2>0 DEF TypeOK
  <2>3. answer = "ok" => effects[i] = called[i]
    BY <2>1 DEF MayAnswer
  <2>4. QED BY <2>0, <2>1, <2>2, <2>3, FinishedOK DEF MayBecome
<1>5. QED
  BY <1>1, <1>2, <1>3, <1>4 DEF Writes

LEMMA InvInit == Init => Inv
<1> SUFFICES ASSUME Init PROVE Inv
  OBVIOUS
<1>1. TypeOK
  BY EmptyOK, ProposalsAssumption DEF Init, TypeOK, StoreOK
<1>2. Typed
  BY <1>1, EmptyOK DEF Init, Typed
<1>3. \A i \in Ids : Sound(i)
  BY DEF Init, Sound, Empty, Blank
<1>4. QED
  BY <1>2, <1>3 DEF Init, Inv

\* A handler that only changes the list, and saves it.
LEMMA SavedKeepsInv ==
  ASSUME Inv, up, TypeOK', up' = up, minted' = minted,
         inflight' = inflight, called' = called, effects' = effects,
         NEW st, Commit(st), StoreOK(st),
         \A i \in Ids : /\ MayBecome(i, mem[i], st[i])
                        /\ i > minted \/ i \in inflight => st[i].status = mem[i].status
  PROVE  Inv' /\ Moved
<1>1. Typed'
  BY DEF Typed, Commit
<1>2. \A i \in Ids : Sound(i)'
  BY DEF Sound, Inv, Commit, MayBecome, Ran, Typed, TypeOK
<1>3. QED
  BY <1>1, <1>2 DEF Inv, Commit, Moved

\* What a decision finds once the queue is swept.
LEMMA SweptOK ==
  ASSUME Inv, up
  PROVE  /\ StoreOK(Swept)
         /\ \A i \in Ids : /\ Swept[i].args = mem[i].args
                           /\ Swept[i].expires = mem[i].expires
                           /\ MayBecome(i, mem[i], Swept[i])
                           /\ Swept[i].status = "pending" => mem[i].status = "pending" /\ called[i] = 0
                                                            /\ i \notin inflight /\ i <= minted
                           /\ mem[i].status # "pending" => Swept[i].status = mem[i].status
<1>1. StoreOK(mem) /\ mem = disk /\ Swept = Expired(mem)
  BY DEF Inv, Typed, Swept
<1>2. StoreOK(Swept) /\ \A i \in Ids : /\ Swept[i].args = mem[i].args
                                       /\ Swept[i].expires = mem[i].expires
                                       /\ \/ Swept[i].status = mem[i].status
                                          \/ mem[i].status = "pending" /\ Swept[i].status = "expired"
  BY <1>1, ExpiredOK
<1>3. ASSUME NEW i \in Ids, mem[i].status = "pending"
      PROVE  called[i] = 0 /\ i \notin inflight /\ i <= minted
  BY <1>1, <1>3 DEF Inv, Sound, Ran, Typed, TypeOK, Ids
<1>4. QED BY <1>2, <1>3 DEF MayBecome

LEMMA ProposeKeepsInv ==
  ASSUME Inv, NEW t \in Turns, NEW a \in Drafts, Propose(t, a)
  PROVE  Inv' /\ Moved
<1> DEFINE i == minted + 1
           st == Added(mem, i, a)
<1>1. i \in Ids /\ a \in Args /\ i > minted
  BY ProposalsAssumption DEF Propose, Inv, Typed, TypeOK, Ids, Drafts
<1>2. StoreOK(st) /\ st[i].status = "pending" /\ \A j \in Ids \ {i} : st[j] = mem[j]
  BY <1>1, AddedOK DEF Inv, Typed
<1>3. Commit(st) /\ minted' = i /\ up /\ UNCHANGED <<up, mcp, crashes, now, inflight, called, effects>>
  BY DEF Propose, proc, world
<1>4. TypeOK'
  <2>1. shown' \in [Surfaces -> [Ids -> Args \cup {NoArgs}]]
    BY <1>1 DEF Propose, Inv, Typed, TypeOK
  <2>2. mem' \in [Ids -> Proposal] /\ disk' \in [Ids -> Proposal]
    BY <1>2, <1>3 DEF Commit, StoreOK
  <2>3. made' \in [Turns -> SUBSET Ids] /\ minted' \in 0..MaxId
    BY <1>1 DEF Propose, Inv, Typed, TypeOK, Ids
  <2>4. QED BY <2>1, <2>2, <2>3 DEF Propose, Inv, Typed, TypeOK, proc, world
<1>5. Typed'
  BY <1>2, <1>3, <1>4 DEF Typed, Commit
<1>6. \A j \in Ids : Sound(j)'
  BY <1>1, <1>2, <1>3 DEF Sound, Inv, Commit, Typed, TypeOK, Ids
<1>7. Moved
  BY <1>1, <1>2, <1>3 DEF Moved, Commit, MayBecome, Inv, Sound
<1>8. QED
  BY <1>3, <1>5, <1>6, <1>7 DEF Inv, Commit

LEMMA DecisionKeepsInv ==
  ASSUME Inv, NEW i \in Ids, NEW s \in Surfaces, Decision(i, s)
  PROVE  Inv' /\ Moved
<1> USE DEF CanTap, StillPending
<1>0. CASE TapTooLate(i, s)
  <2>1. Commit(Swept) /\ up /\ UNCHANGED <<Turned, inflight, world>>
    BY <1>0 DEF TapTooLate
  <2>2. TypeOK'
    BY <2>1, SweptOK DEF Inv, Typed, TypeOK, Turned, proc, world, Commit, StoreOK
  <2>3. QED BY <2>1, <2>2, SweptOK, SavedKeepsInv DEF Turned, proc, world, Inv, Sound
<1>1. CASE Decline(i, s)
  <2> DEFINE st == Declined(Swept, i)
  <2>1. Commit(st) /\ up /\ UNCHANGED <<Turned, inflight, world>> /\ Swept[i].status = "pending"
    BY <1>1 DEF Decline
  <2>2. StoreOK(st) /\ st[i].status = "declined" /\ st[i].args = Swept[i].args
        /\ \A j \in Ids \ {i} : st[j] = Swept[j]
    BY <2>1, SweptOK, DeclinedOK
  <2>3. TypeOK'
    BY <2>1, <2>2 DEF Inv, Typed, TypeOK, Turned, proc, world, Commit, StoreOK
  <2>4. \A j \in Ids : /\ MayBecome(j, mem[j], st[j])
                       /\ j > minted \/ j \in inflight => st[j].status = mem[j].status
    BY <2>1, <2>2, SweptOK DEF MayBecome, Inv, Typed, TypeOK, Sound, Ids
  <2>5. QED BY <2>1, <2>2, <2>3, <2>4, SavedKeepsInv DEF Turned, proc, world
<1>2. CASE \E e \in Edits(s) : EditRefused(i, s, e)
  <2>1. Commit(Swept) /\ up /\ UNCHANGED <<Turned, inflight, world>>
    BY <1>2 DEF EditRefused
  <2>2. TypeOK'
    BY <2>1, SweptOK DEF Inv, Typed, TypeOK, Turned, proc, world, Commit, StoreOK
  <2>3. QED BY <2>1, <2>2, SweptOK, SavedKeepsInv DEF Turned, proc, world, Inv, Sound
<1>3. CASE \E e \in Edits(s) : Approve(i, s, e) \/ ApproveUnrouted(i, s, e)
  <2>1. PICK e \in Edits(s) : Approve(i, s, e) \/ ApproveUnrouted(i, s, e)
    BY <1>3
  <2> DEFINE ed == Edited(Swept, i, e)
             ap == Approved(ed, i)
             st == Finished(ap, i, "unrouted")
  <2>2. up /\ Swept[i].status = "pending" /\ ~Refused(Swept[i].args, e) /\ shown[s][i] # NoArgs
    BY <2>1 DEF Approve, ApproveUnrouted
  <2>3. StoreOK(ed) /\ ed[i].status = "pending" /\ \A j \in Ids \ {i} : ed[j] = Swept[j]
    BY <2>2, SweptOK, EditedOK
  <2>4. StoreOK(ap) /\ ap[i].status = "approved" /\ \A j \in Ids \ {i} : ap[j] = Swept[j]
    BY <2>3, ApprovedOK
  <2>5. ap[i].args \in Args
    BY <2>4 DEF StoreOK
  <2>6. called[i] = 0 /\ i \notin inflight /\ ~(i > minted) /\ mem = disk
    BY <2>2, SweptOK DEF Inv, Typed, TypeOK, Ids
  <2>7. Approve(i, s, e) =>
          /\ Commit(ap) /\ UNCHANGED <<Turned, effects>>
          /\ inflight' = inflight \cup {i}
          /\ called' = [called EXCEPT ![i] = @ + 1]
          /\ calledWith' = [calledWith EXCEPT ![i] = ap[i].args]
          /\ consented' = [consented EXCEPT ![i] = Merge(shown[s][i], e)]
    BY DEF Approve, SaveApproved
  <2>8. ApproveUnrouted(i, s, e) => Commit(st) /\ UNCHANGED <<Turned, inflight, world>>
    BY DEF ApproveUnrouted
  <2> HIDE DEF ed, ap
  <2>9. CASE Approve(i, s, e)
    <3>1. Merge(shown[s][i], e) \in Args
      BY <2>2, MergeOK DEF Inv, Typed, TypeOK
    <3>2. mem' \in [Ids -> Proposal] /\ disk' \in [Ids -> Proposal] /\ inflight' \subseteq Ids
      BY <2>4, <2>7, <2>9 DEF Inv, Typed, TypeOK, Commit, StoreOK
    <3>3. /\ called' \in [Ids -> Nat]
          /\ calledWith' \in [Ids -> Args \cup {NoArgs}]
          /\ consented' \in [Ids -> Args \cup {NoArgs}]
      BY <2>5, <2>7, <2>9, <3>1 DEF Inv, Typed, TypeOK
    <3>4. Typed'
      BY <2>4, <2>7, <2>9, <3>2, <3>3 DEF Inv, Typed, TypeOK, Turned, proc, Commit
    <3>5. Sound(i)'
      BY <2>4, <2>6, <2>7, <2>9 DEF Sound, Inv, Typed, TypeOK, Turned, Commit, Ran
    <3>6. \A j \in Ids \ {i} : Sound(j)'
      <4>1. \A j \in Ids \ {i} : /\ disk'[j] = Swept[j] /\ called'[j] = called[j]
                                /\ effects'[j] = effects[j] /\ (j \in inflight' <=> j \in inflight)
        BY <2>4, <2>7, <2>9 DEF Commit, Inv, Typed, TypeOK
      <4>2. QED BY <4>1, <2>6, <2>7, <2>9, <2>2, SweptOK DEF Sound, Inv, Turned, Ran, MayBecome
    <3>7. Moved
      BY <2>2, <2>4, <2>6, <2>7, <2>9, SweptOK DEF Moved, Commit, MayBecome, Turned
    <3>8. QED BY <2>2, <2>7, <2>9, <3>4, <3>5, <3>6, <3>7 DEF Inv, Commit, Turned, proc
  <2>10. CASE ApproveUnrouted(i, s, e)
    <3>1. StoreOK(st) /\ st[i].status = "failed" /\ \A j \in Ids \ {i} : st[j] = Swept[j]
      <4> "unrouted" # "ok"
        OBVIOUS
      <4> QED BY <2>4, FinishedOK
    <3> HIDE DEF st
    <3>2. Typed'
      BY <2>8, <2>10, <3>1 DEF Inv, Typed, TypeOK, Turned, proc, world, Commit, StoreOK
    <3>3. Sound(i)'
      BY <2>6, <2>8, <2>10, <3>1 DEF Sound, Inv, Typed, TypeOK, Turned, world, Commit, Ran
    <3>4. \A j \in Ids \ {i} : Sound(j)'
      BY <2>2, <2>8, <2>10, <3>1, SweptOK DEF Sound, Inv, Typed, TypeOK, Turned, world, Commit, Ran, MayBecome, Ids
    <3>5. Moved
      <4>1. /\ disk' = st /\ minted' = minted /\ disk[i].status = "pending"
            /\ \A j \in Ids \ {i} : MayBecome(j, disk[j], st[j])
        BY <2>2, <2>6, <2>8, <2>10, <3>1, SweptOK DEF Commit, MayBecome, Turned
      <4>2. QED BY <4>1, <3>1 DEF Moved
    <3>6. QED BY <2>2, <2>8, <2>10, <3>2, <3>3, <3>4, <3>5 DEF Inv, Commit, Turned, proc
  <2>11. QED BY <2>1, <2>9, <2>10
<1>4. QED
  BY <1>0, <1>1, <1>2, <1>3 DEF Decision

LEMMA ReturnKeepsInv ==
  ASSUME Inv, NEW i \in Ids, NEW answer \in Answers, CallReturns(i, answer)
  PROVE  Inv' /\ Moved
<1> DEFINE st == Finished(mem, i, answer)
<1>1. /\ up /\ i \in inflight /\ mem[i].status = "approved" /\ called[i] = 1
      /\ answer = "ok" => effects[i] = called[i]
      /\ inflight' = inflight \ {i} /\ Commit(st) /\ UNCHANGED <<Turned, world>>
  BY DEF CallReturns, Inv, Sound, MayAnswer
<1>2. /\ StoreOK(st) /\ st[i].status = IF answer = "ok" THEN "done" ELSE "failed"
      /\ \A j \in Ids \ {i} : st[j] = mem[j]
  BY <1>1, FinishedOK DEF Inv, Typed
<1>3. TypeOK'
  BY <1>1, <1>2 DEF Inv, Typed, TypeOK, Turned, proc, world, Commit, StoreOK
<1>4. Typed'
  BY <1>1, <1>2, <1>3 DEF Typed, Commit
<1>5. \A j \in Ids : Sound(j)'
  BY <1>1, <1>2 DEF Sound, Inv, Typed, TypeOK, Turned, world, Commit, Ran
<1>6. Moved
  BY <1>1, <1>2 DEF Moved, MayBecome, Commit, Inv, Turned
<1>7. QED
  BY <1>1, <1>4, <1>5, <1>6 DEF Inv, Commit, Turned, proc

\* The process dies, and the file holds some of what it was writing.
LEMMA DownKeepsInv ==
  ASSUME Inv, up, crashes < MaxCrashes, Down, torn' \subseteq Ids,
         NEW w, StoreOK(w), \A i \in Ids : MayBecome(i, mem[i], w[i]),
         StoreOK(disk'), \A i \in Ids : disk'[i] = w[i] \/ disk'[i] = Blank,
         minted' \in 0..MaxId,
         \/ minted' = minted
         \/ minted' = minted + 1 /\ minted' \in Ids /\ disk'[minted'].status # "none",
         \A i \in Ids : i > minted' => disk'[i].status = "none"
  PROVE  Inv' /\ Moved
<1>1. mem' = Empty /\ inflight' = {} /\ up' = FALSE /\ UNCHANGED <<mcp, now, shown, world>>
  BY DEF Down
<1>2. TypeOK'
  <2>1. crashes' \in 0..MaxCrashes
    BY ProposalsAssumption DEF Down, Inv, Typed, TypeOK
  <2>2. mem' \in [Ids -> Proposal] /\ disk' \in [Ids -> Proposal] /\ made' \in [Turns -> SUBSET Ids]
    BY <1>1, EmptyOK DEF Down, StoreOK
  <2>3. QED BY <1>1, <2>1, <2>2 DEF Inv, Typed, TypeOK, world
<1>3. Typed'
  BY <1>1, <1>2, EmptyOK DEF Typed
<1>4. \A i \in Ids : Sound(i)'
  BY <1>1 DEF Sound, Inv, Typed, TypeOK, world, Ran, MayBecome, Blank, Ids
<1>5. Moved
  BY DEF Moved, MayBecome, Inv, Typed, TypeOK, Sound, Blank, Ids
<1>6. QED
  BY <1>1, <1>3, <1>4, <1>5 DEF Inv

LEMMA CrashKeepsInv ==
  ASSUME Inv, \/ Crash \/ CrashInSave \/ \E i \in Ids : \E e \in Edits("web") : CrashInEdit(i, e)
  PROVE  Inv' /\ Moved
<1>0. minted \in 0..MaxId /\ MaxId \in Nat /\ torn \subseteq Ids
  BY ProposalsAssumption DEF Inv, Typed, TypeOK
<1>1. CASE Crash
  <2>1. StoreOK(mem) /\ \A i \in Ids : MayBecome(i, mem[i], mem[i])
    BY DEF Inv, Typed, MayBecome
  <2>2. \A i \in Ids : i > minted => disk[i].status = "none"
    BY DEF Inv, Sound
  <2>3. QED BY <1>0, <1>1, <2>1, <2>2, DownKeepsInv DEF Crash, Inv, Typed
<1>2. CASE CrashInSave
  <2>1. PICK w \in Writes, k \in 0..MaxId : disk' = Prefix(w, k)
    BY <1>2 DEF CrashInSave
  <2>2. StoreOK(w) /\ \A i \in Ids : MayBecome(i, mem[i], w[i])
    BY <1>2, WritesOK DEF CrashInSave
  <2>3. StoreOK(disk') /\ \A i \in Ids : disk'[i] = w[i] \/ disk'[i] = Blank
    BY <2>1, <2>2, PrefixOK
  <2>4. \A i \in Ids : i > minted + 1 => disk'[i].status = "none"
    BY <1>0, <1>2, <2>2, <2>3 DEF MayBecome, Inv, Sound, Blank, CrashInSave, Ids
  <2>5. /\ minted' \in 0..MaxId
        /\ \/ minted' = minted
           \/ minted' = minted + 1 /\ minted' \in Ids /\ disk'[minted'].status # "none"
        /\ \A i \in Ids : i > minted' => disk'[i].status = "none"
    <3>1. CASE \E i \in Ids : i > minted /\ disk'[i].status # "none"
      BY <1>0, <1>2, <2>4, <3>1 DEF CrashInSave, Ids
    <3>2. CASE ~\E i \in Ids : i > minted /\ disk'[i].status # "none"
      BY <1>0, <1>2, <3>2 DEF CrashInSave
    <3>3. QED BY <3>1, <3>2
  <2>6. QED BY <1>0, <1>2, <2>2, <2>3, <2>5, DownKeepsInv DEF CrashInSave
<1>3. CASE \E i \in Ids : \E e \in Edits("web") : CrashInEdit(i, e)
  <2>1. PICK i \in Ids : \E e \in Edits("web") : CrashInEdit(i, e)
    BY <1>3
  <2>2. PICK e \in Edits("web") : CrashInEdit(i, e)
    BY <2>1
  <2> DEFINE w == Edited(Swept, i, e)
  <2>3. up /\ Swept[i].status = "pending" /\ ~Refused(Swept[i].args, e) /\ crashes < MaxCrashes
        /\ Down /\ minted' = minted /\ torn' = torn \cup {i}
    BY <2>2 DEF CrashInEdit, CanTap, StillPending
  <2>4. StoreOK(w) /\ w[i].status = "pending" /\ \A j \in Ids \ {i} : w[j] = Swept[j]
    BY <2>3, SweptOK, EditedOK DEF Surfaces
  <2>5. PICK k \in 0..MaxId : disk' = Prefix(w, k)
    BY <2>2 DEF CrashInEdit
  <2>6. StoreOK(disk') /\ \A j \in Ids : disk'[j] = w[j] \/ disk'[j] = Blank
    BY <2>4, <2>5, PrefixOK
  <2>7. \A j \in Ids : MayBecome(j, mem[j], w[j])
    BY <2>3, <2>4, SweptOK DEF MayBecome
  <2>8. \A j \in Ids : j > minted => disk'[j].status = "none"
    BY <2>3, <2>4, <2>6, SweptOK DEF Inv, Sound, Blank, Typed, TypeOK, Ids
  <2> HIDE DEF w
  <2>9. QED BY <1>0, <2>3, <2>4, <2>6, <2>7, <2>8, DownKeepsInv
<1>4. QED
  BY <1>1, <1>2, <1>3

LEMMA BootKeepsInv ==
  ASSUME Inv, Boot \/ BootTorn
  PROVE  Inv' /\ Moved
<1> DEFINE st == Loaded(disk)
<1>1. /\ StoreOK(st)
      /\ \A i \in Ids : st[i].status = IF disk[i].status = "approved" THEN "failed"
                                                                     ELSE disk[i].status
  BY LoadedOK DEF Inv, Typed
<1>2. inflight = {} /\ mem = Empty /\ ~up
  BY DEF Inv, Boot, BootTorn
<1>3. CASE Boot
  <2>1. /\ up' /\ disk' = st /\ mem' = st /\ mcp' \in BOOLEAN
        /\ UNCHANGED <<crashes, now, minted, inflight, shown, made, world, torn>>
    BY <1>3 DEF Boot, Commit
  <2> HIDE DEF st
  <2>2. Typed'
    BY <1>1, <2>1 DEF Boot, Inv, Typed, TypeOK, world, StoreOK
  <2>3. \A i \in Ids : Sound(i)'
    BY <1>1, <1>2, <2>1 DEF Inv, Sound, world, Ran
  <2>4. QED BY <1>1, <1>3, <2>1, <2>2, <2>3 DEF Inv, Moved, MayBecome, Boot
<1>4. CASE BootTorn
  <2>1. PICK k \in 0..MaxId : disk' = Prefix(st, k)
    BY <1>4 DEF BootTorn
  <2>2. UNCHANGED <<up, mcp, crashes, now, minted, mem, inflight, shown, made, world, torn>>
    BY <1>4 DEF BootTorn, proc
  <2> HIDE DEF st
  <2>3. StoreOK(disk') /\ \A i \in Ids : disk'[i] = st[i] \/ disk'[i] = Blank
    BY <1>1, <2>1, PrefixOK
  <2>5. Typed'
    BY <2>2, <2>3 DEF Inv, Typed, TypeOK, world, StoreOK
  <2>6. \A i \in Ids : Sound(i)'
    BY <1>1, <1>2, <2>2, <2>3 DEF Inv, Sound, world, Ran, Blank
  <2>7. Moved
    BY <1>1, <2>2, <2>3 DEF Moved, MayBecome, Blank
  <2>8. QED BY <1>2, <2>2, <2>5, <2>6, <2>7 DEF Inv
<1>5. QED
  BY <1>3, <1>4

LEMMA InvNext == Inv /\ Next => Inv' /\ Moved
<1> SUFFICES ASSUME Inv, Next PROVE Inv' /\ Moved
  OBVIOUS
<1>1. ASSUME NEW t \in Turns, StartTurn(t) PROVE Inv' /\ Moved
  <2>1. UNCHANGED <<proc, now, minted, store, inflight, shown, world, torn>>
        /\ made' = [made EXCEPT ![t] = {}]
    BY <1>1 DEF StartTurn
  <2>2. QED BY <2>1 DEF Inv, Typed, TypeOK, proc, store, world, Sound, Moved, MayBecome, StoreOK
<1>2. ASSUME NEW t \in Turns, NEW a \in Drafts, Propose(t, a) PROVE Inv' /\ Moved
  BY <1>2, ProposeKeepsInv
<1>3. ASSUME NEW drawn \in SUBSET Ids, Read(drawn) PROVE Inv' /\ Moved
  <2>1. /\ up /\ Commit(Swept)
        /\ UNCHANGED <<proc, now, minted, inflight, made, world, torn>>
        /\ shown' = [shown EXCEPT !["web"] = [i \in Ids |->
              IF i \notin drawn THEN @[i]
              ELSE IF Swept[i].status = "pending" THEN mem[i].args ELSE NoArgs]]
    BY <1>3 DEF Read
  <2>2. TypeOK'
    <3>1. shown' \in [Surfaces -> [Ids -> Args \cup {NoArgs}]]
      BY <2>1 DEF Inv, Typed, TypeOK, Proposal
    <3>2. mem' \in [Ids -> Proposal] /\ disk' \in [Ids -> Proposal]
      BY <2>1, SweptOK DEF Commit, StoreOK
    <3>3. QED BY <2>1, <3>1, <3>2 DEF Inv, Typed, TypeOK, proc, world
  <2>3. QED BY <2>1, <2>2, SweptOK, SavedKeepsInv DEF proc, world, Inv, Sound
<1>4. ASSUME NEW i \in Ids, NEW s \in Surfaces, Decision(i, s) PROVE Inv' /\ Moved
  BY <1>4, DecisionKeepsInv
<1>5. ASSUME NEW i \in Ids, ToolActs(i) PROVE Inv' /\ Moved
  <2>1. /\ UNCHANGED <<proc, now, minted, store, inflight, shown, made,
                       called, calledWith, consented, torn>>
        /\ effects[i] < called[i] /\ effects' = [effects EXCEPT ![i] = @ + 1]
    BY <1>5 DEF ToolActs
  <2>2. Typed'
    BY <2>1 DEF Inv, Typed, TypeOK, proc, store, StoreOK
  <2>3. \A j \in Ids : Sound(j)'
    BY <2>1 DEF Inv, Sound, Typed, TypeOK, store
  <2>4. QED BY <2>1, <2>2, <2>3 DEF Inv, Moved, MayBecome, proc, store
<1>6. ASSUME NEW i \in Ids, NEW answer \in Answers, CallReturns(i, answer) PROVE Inv' /\ Moved
  BY <1>6, ReturnKeepsInv
<1>7. CASE Tick
  <2>1. now' \in 0..MaxNow /\ UNCHANGED <<proc, minted, store, inflight, shown, made, world, torn>>
    BY <1>7, ProposalsAssumption DEF Tick, Inv, Typed, TypeOK
  <2>2. QED BY <2>1 DEF Inv, Typed, TypeOK, proc, store, world, Sound, Moved, MayBecome, StoreOK
<1>8. CASE \/ Crash \/ CrashInSave
           \/ \E i \in Ids : \E e \in Edits("web") : CrashInEdit(i, e)
  BY <1>8, CrashKeepsInv
<1>9. CASE Boot \/ BootTorn
  BY <1>9, BootKeepsInv
<1>10. QED
  BY <1>1, <1>2, <1>3, <1>4, <1>5, <1>6, <1>7, <1>8, <1>9 DEF Next, Returns

\* The inductive invariant holds of every reachable state, and every step moves the
\* file in one of the ways Moved lists.
THEOREM InvHolds == Spec => []Inv
<1>1. Inv /\ UNCHANGED vars => Inv'
  BY DEF vars, proc, store, world, Inv, Typed, TypeOK, StoreOK, Sound
<1>2. Inv /\ [Next]_vars => Inv'
  BY <1>1, InvNext
<1>3. QED
  BY InvInit, <1>2, PTL DEF Spec

\* Type correctness of every variable.
THEOREM TypeCorrect == Spec => []TypeOK
<1>1. Inv => TypeOK
  BY DEF Inv, Typed
<1>2. QED
  BY InvHolds, <1>1, PTL

\* Rule 2: whatever is tapped, edited, timed out, torn or restarted, the tool server
\* is asked at most once for a proposal.
THEOREM RunsAtMostOnce == Spec => []AtMostOnce
<1>1. Inv => AtMostOnce
  BY DEF Inv, Sound, AtMostOnce
<1>2. QED
  BY InvHolds, <1>1, PTL

\* What the store calls done was done; what it calls declined or expired never is.
THEOREM ReportsTruly == Spec => []ReportsWhatHappened
<1>1. Inv => ReportsWhatHappened
  BY DEF Inv, Sound, ReportsWhatHappened, Ran, Typed, TypeOK
<1>2. QED
  BY InvHolds, <1>1, PTL

\* A settled proposal never takes another status.
THEOREM SettledStays == Spec => SettledIsFinal
<1>1. Inv /\ [Next]_vars =>
        [\A i \in Ids : disk[i].status \in Settled =>
             disk'[i].status \in {disk[i].status, "none"}]_vars
  BY InvNext DEF Moved, MayBecome, Settled
<1>2. QED
  BY InvHolds, <1>1, PTL DEF Spec, SettledIsFinal

----------------------------------------------------------------------------
(* Rule 1, and the time limit.                                             *)

\* Only an approval reaches the tool server.
LEMMA OnlyApproveCalls ==
  ASSUME Inv, Next
  PROVE  \/ UNCHANGED <<called, calledWith, consented>>
         \/ \E i \in Ids, s \in Surfaces : \E e \in Edits(s) : Approve(i, s, e)
  BY DEF Next, StartTurn, Propose, Read, Decision, TapTooLate, Decline,
         EditRefused, ApproveUnrouted, ToolActs, Returns, CallReturns, Tick, Crash,
         CrashInSave, CrashInEdit, Boot, BootTorn, Down, world

\* TTL_S: no draft goes out once its time is up, however late the queue is looked at.
THEOREM NothingRunsLate == Spec => NotAfterTTL
<1>1. ASSUME Inv, Next, NEW i \in Ids, called'[i] > called[i]
      PROVE  now < mem[i].expires
  <2>1. PICK j \in Ids, s \in Surfaces : \E e \in Edits(s) : Approve(j, s, e)
    BY <1>1, OnlyApproveCalls DEF Inv, Typed, TypeOK
  <2>2. /\ called' = [called EXCEPT ![j] = @ + 1]
        /\ Swept[j].status = "pending" /\ up
    BY <2>1 DEF Approve, StillPending, CanTap
  <2>3. i = j
    BY <1>1, <2>2 DEF Inv, Typed, TypeOK
  <2>4. ~(mem[i].expires <= now) /\ mem[i].expires \in Nat /\ now \in Nat
    BY <1>1, <2>2, <2>3 DEF Swept, Expired, Stale, Inv, Typed, TypeOK, Proposal
  <2>5. QED BY <2>4
<1>2. Inv /\ [Next]_vars => [\A i \in Ids : called'[i] > called[i] => now < mem[i].expires]_vars
  BY <1>1
<1>3. QED
  BY InvHolds, <1>2, PTL DEF Spec, NotAfterTTL

----------------------------------------------------------------------------
(* The store implements Consent: every step of the system moves every      *)
(* proposal as that module allows.                                         *)

\* Up or down, a proposal stands where the file says it does.
LEMMA StageOnDisk ==
  ASSUME Inv, NEW i \in Ids
  PROVE  Stage(i) = IF i > minted THEN "unasked"
                    ELSE IF called[i] > 0 THEN "granted"
                    ELSE IF disk[i].status = "pending" THEN "open" ELSE "closed"
  BY DEF Inv, Stage, Standing

LEMMA StageOnDiskNext ==
  ASSUME Inv', NEW i \in Ids
  PROVE  Stage(i)' = IF i > minted' THEN "unasked"
                     ELSE IF called'[i] > 0 THEN "granted"
                     ELSE IF disk'[i].status = "pending" THEN "open" ELSE "closed"
  BY DEF Inv, Stage, Standing

\* A proposal the tool server is not asked about, and does not act on, in a step.
LEMMA QuietMove ==
  ASSUME Inv, Inv', Moved, NEW i \in Ids,
         called'[i] = called[i], calledWith'[i] = calledWith[i], effects'[i] = effects[i]
  PROVE  C!Live(i)
<1>1. /\ minted \in Nat /\ minted' \in Nat /\ i \in Nat
      /\ called[i] \in Nat /\ minted' \in {minted, minted + 1}
  BY ProposalsAssumption DEF Inv, Typed, TypeOK, Moved, Ids
<1>2. \/ Stage(i)' = Stage(i)
      \/ Stage(i) = "unasked" /\ Stage(i)' = "open"
      \/ Stage(i) = "open" /\ Stage(i)' = "closed"
  <2>1. CASE i > minted
    BY <1>1, <2>1, StageOnDisk, StageOnDiskNext DEF Moved, Inv, Sound
  <2>2. CASE ~(i > minted)
    <3>1. ~(i > minted')
      BY <1>1, <2>2
    <3>2. disk'[i].status = "pending" => disk[i].status = "pending"
      BY <1>1, <2>2 DEF Moved, MayBecome
    <3>3. QED BY <2>2, <3>1, <3>2, StageOnDisk, StageOnDiskNext
  <2>3. QED BY <2>1, <2>2
<1>3. QED
  BY <1>2 DEF C!Live, C!Stay, C!Ask, C!Close, C!Moves, C!Holds

\* The types the abstract step asks for.
LEMMA AbstractTypes ==
  ASSUME Inv'
  PROVE  /\ [i \in Ids |-> Stage(i)]' \in [Ids -> C!Stages]
         /\ calledWith' \in [Ids -> Args \cup {NoArgs}]
         /\ effects' \in [Ids -> {0, 1}]
<1>1. [i \in Ids |-> Stage(i)]' \in [Ids -> C!Stages]
  BY StageOnDiskNext DEF C!Stages, Stage
<1>2. \A i \in Ids : effects'[i] \in {0, 1}
  BY DEF Inv, Typed, TypeOK, Sound
<1>3. QED
  BY <1>1, <1>2 DEF Inv, Typed, TypeOK

LEMMA StepImplements ==
  ASSUME Inv, Inv', Moved, Next
  PROVE  C!Next
<1>1. CASE \E i \in Ids, s \in Surfaces : \E e \in Edits(s) : Approve(i, s, e)
  <2>1. PICK i \in Ids, s \in Surfaces : \E e \in Edits(s) : Approve(i, s, e)
    BY <1>1
  <2>2. PICK e \in Edits(s) : Approve(i, s, e)
    BY <2>1
  <2> DEFINE st == Approved(Edited(Swept, i, e), i)
  <2>3. /\ called' = [called EXCEPT ![i] = @ + 1] /\ effects' = effects
        /\ calledWith' = [calledWith EXCEPT ![i] = st[i].args]
        /\ Swept[i].status = "pending" /\ up /\ minted' = minted
        /\ ~Refused(Swept[i].args, e)
    BY <2>2 DEF Approve, StillPending, CanTap, Turned
  <2>4. st[i].args \in Args
    <3>1. StoreOK(Edited(Swept, i, e)) /\ Edited(Swept, i, e)[i].status = "pending"
      BY <2>3, SweptOK, EditedOK
    <3>2. StoreOK(st) /\ st[i].status = "approved"
      BY <3>1, ApprovedOK
    <3>3. QED BY <3>2 DEF StoreOK
  <2> HIDE DEF st
  <2>5. called[i] = 0 /\ called'[i] = 1 /\ ~(i > minted) /\ disk[i].status = "pending"
    BY <2>3, SweptOK DEF Inv, Typed, TypeOK, Ids
  <2>6. C!Grant(i)
    <3>1. Stage(i) = "open" /\ Stage(i)' = "granted"
      BY <2>3, <2>5, StageOnDisk, StageOnDiskNext
    <3>2. calledWith'[i] = st[i].args
      BY <2>3 DEF Inv, Typed, TypeOK
    <3>3. QED BY <2>3, <2>4, <3>1, <3>2 DEF C!Grant, C!Moves
  <2>7. \A j \in Ids \ {i} : C!Live(j)
    BY <2>3, QuietMove DEF Inv, Typed, TypeOK
  <2>8. QED BY <2>6, <2>7, AbstractTypes DEF C!Next, C!Live
<1>2. CASE \E i \in Ids : ToolActs(i)
  <2>1. PICK i \in Ids : ToolActs(i)
    BY <1>2
  <2>2. /\ UNCHANGED <<minted, called, calledWith>>
        /\ effects[i] < called[i] /\ effects' = [effects EXCEPT ![i] = @ + 1]
    BY <2>1 DEF ToolActs
  <2>3. called[i] = 1 /\ effects[i] = 0 /\ effects'[i] = 1 /\ ~(i > minted)
    BY <2>2 DEF Inv, Sound, Typed, TypeOK
  <2>4. C!Act(i)
    <3>1. Stage(i) = "granted" /\ Stage(i)' = "granted"
      BY <2>2, <2>3, StageOnDisk, StageOnDiskNext
    <3>2. QED BY <2>2, <2>3, <3>1 DEF C!Act
  <2>5. \A j \in Ids \ {i} : C!Live(j)
    BY <2>2, QuietMove DEF Inv, Typed, TypeOK
  <2>6. QED BY <2>4, <2>5, AbstractTypes DEF C!Next, C!Live
<1>3. CASE UNCHANGED <<called, calledWith, effects>>
  <2>1. \A i \in Ids : C!Live(i)
    BY <1>3, QuietMove
  <2>2. QED BY <2>1, AbstractTypes DEF C!Next
<1>4. \/ UNCHANGED effects \/ \E i \in Ids : ToolActs(i)
  BY DEF Next, StartTurn, Propose, Read, Decision, TapTooLate, Decline,
         EditRefused, Approve, ApproveUnrouted, Returns, CallReturns, Tick, Crash,
         CrashInSave, CrashInEdit, Boot, BootTorn, Down, world
<1>5. QED
  BY <1>1, <1>2, <1>3, <1>4, OnlyApproveCalls

\* The store, its decisions and its crashes implement the promise Consent states.
THEOREM StoreImplementsConsent == Spec => Implements
<1>1. Init => C!Init
  BY ProposalsAssumption DEF Init, C!Init, Stage, Ids
<1>2. Inv /\ Inv' /\ [Next]_vars => [C!Next]_C!vars
  <2>1. CASE Inv /\ Inv' /\ Next
    BY <2>1, InvNext, StepImplements
  <2>2. CASE UNCHANGED vars
    BY <2>2 DEF vars, store, world, proc, C!vars, Stage, Standing
  <2>3. QED BY <2>1, <2>2
<1>3. QED
  BY InvHolds, <1>1, <1>2, PTL DEF Spec, C!Spec, Implements

----------------------------------------------------------------------------
(* Rule 1: what runs is what was shown.                                    *)

\* The arguments hold what the configuration supplies.
Fits(a) == \A k \in DOMAIN Fixed : a[k] = Fixed[k]

\* A card shows what is stored for as long as its proposal can be approved.
Honest(i) ==
  /\ disk[i].status # "none" => Fits(disk[i].args)
  /\ i > minted => \A s \in Surfaces : shown[s][i] = NoArgs
  /\ disk[i].status = "pending" /\ i \notin torn =>
       \A s \in Surfaces : shown[s][i] \in {NoArgs, disk[i].args}
  /\ called[i] > 0 => /\ Fits(calledWith[i])
                      /\ i \notin torn => calledWith[i] = consented[i]
Rule1 == \A i \in Ids : Honest(i)

\* A step that shows nothing new and asks the tool server for nothing.
LEMMA QuietRule1 ==
  ASSUME Inv, Rule1, UNCHANGED <<shown, called, calledWith, consented>>,
         torn \subseteq torn', minted' \in Nat, minted' >= minted,
         \A i \in Ids : \/ disk'[i].status = "none"
                        \/ /\ disk'[i].args = disk[i].args /\ disk[i].status # "none"
                           /\ disk'[i].status = "pending" => disk[i].status = "pending"
                        \/ /\ Fits(disk'[i].args)
                           /\ i > minted \/ i \in torn' \/ disk'[i].status # "pending"
  PROVE  Rule1'
<1> SUFFICES ASSUME NEW i \in Ids PROVE Honest(i)'
  BY DEF Rule1
<1>1. Honest(i) /\ minted \in Nat /\ i \in Nat
  BY DEF Rule1, Inv, Typed, TypeOK, Ids
<1>2. disk'[i].status # "none" => Fits(disk'[i].args)
  BY <1>1 DEF Honest
<1>3. i > minted' => \A s \in Surfaces : shown'[s][i] = NoArgs
  BY <1>1 DEF Honest
<1>4. disk'[i].status = "pending" /\ i \notin torn' =>
        \A s \in Surfaces : shown'[s][i] \in {NoArgs, disk'[i].args}
  BY <1>1 DEF Honest
<1>5. QED
  BY <1>1, <1>2, <1>3, <1>4 DEF Honest, Fits

\* The sweep changes no arguments, and makes nothing answerable again.
LEMMA SweptArgs ==
  ASSUME Inv, up, NEW i \in Ids
  PROVE  /\ Swept[i].args = disk[i].args
         /\ Swept[i].status = "none" <=> disk[i].status = "none"
         /\ Swept[i].status = "pending" => disk[i].status = "pending"
  BY ExpiredOK DEF Inv, Typed, Swept

LEMMA DecisionRule1 ==
  ASSUME Inv, Rule1, NEW i \in Ids, NEW s \in Surfaces, Decision(i, s)
  PROVE  Rule1'
<1>0. minted \in Nat
  BY DEF Inv, Typed, TypeOK
<1>1. CASE TapTooLate(i, s) \/ \E e \in Edits(s) : EditRefused(i, s, e)
  <2>1. up /\ disk' = Swept /\ UNCHANGED <<Turned, world>>
    BY <1>1 DEF TapTooLate, EditRefused, Commit, CanTap
  <2>2. QED BY <1>0, <2>1, SweptArgs, QuietRule1 DEF Turned, world
<1>2. CASE Decline(i, s)
  <2>1. /\ up /\ disk' = Declined(Swept, i) /\ Swept[i].status = "pending"
        /\ UNCHANGED <<Turned, world>>
    BY <1>2 DEF Decline, Commit, CanTap, StillPending
  <2>2. \A j \in Ids : /\ disk'[j].args = Swept[j].args
                       /\ disk'[j].status = "pending" => Swept[j].status = "pending"
                       /\ disk'[j].status # "none" => Swept[j].status # "none"
    BY <2>1, SweptOK, DeclinedOK
  <2>3. QED BY <1>0, <2>1, <2>2, SweptArgs, QuietRule1 DEF Turned, world
<1>3. CASE \E e \in Edits(s) : Approve(i, s, e) \/ ApproveUnrouted(i, s, e)
  <2>1. PICK e \in Edits(s) : Approve(i, s, e) \/ ApproveUnrouted(i, s, e)
    BY <1>3
  <2> DEFINE ed == Edited(Swept, i, e)
             ap == Approved(ed, i)
             st == Finished(ap, i, "unrouted")
  <2>2. up /\ Swept[i].status = "pending" /\ ~Refused(Swept[i].args, e) /\ shown[s][i] # NoArgs
    BY <2>1 DEF Approve, ApproveUnrouted, CanTap, StillPending
  <2>3. /\ StoreOK(ed) /\ ed[i].status = "pending" /\ ed[i].args = Merge(Swept[i].args, e)
        /\ \A j \in Ids \ {i} : ed[j] = Swept[j]
    BY <2>2, SweptOK, EditedOK
  <2>4. /\ StoreOK(ap) /\ ap[i].status = "approved" /\ ap[i].args = Merge(Swept[i].args, e)
        /\ \A j \in Ids \ {i} : ap[j] = Swept[j]
    BY <2>3, ApprovedOK
  <2>5. Approve(i, s, e) =>
          /\ disk' = ap /\ UNCHANGED <<Turned>>
          /\ called' = [called EXCEPT ![i] = @ + 1]
          /\ calledWith' = [calledWith EXCEPT ![i] = ap[i].args]
          /\ consented' = [consented EXCEPT ![i] = Merge(shown[s][i], e)]
    BY DEF Approve, SaveApproved, Commit
  <2>6. ApproveUnrouted(i, s, e) => disk' = st /\ UNCHANGED <<Turned, world>>
    BY DEF ApproveUnrouted, Commit
  <2>7. /\ st[i].status = "failed" /\ st[i].args = Merge(Swept[i].args, e)
        /\ \A j \in Ids \ {i} : st[j] = Swept[j]
    BY <2>4, FinishedOK
  <2> HIDE DEF ed, ap, st
  <2>8. Fits(Merge(Swept[i].args, e))
    <3>1. Fits(Swept[i].args)
      BY <2>2, SweptArgs DEF Rule1, Honest
    <3>2. QED BY <2>2, <3>1, ProposalsAssumption DEF Fits, Merge, Refused, Locked
  <2>9. CASE Approve(i, s, e)
    <3>1. Merge(Swept[i].args, e) = Merge(shown[s][i], e) \/ i \in torn
      BY <2>2, SweptArgs DEF Rule1, Honest
    <3>2. Honest(i)'
      BY <1>0, <2>4, <2>5, <2>8, <2>9, <3>1 DEF Rule1, Honest, Turned, Fits, Inv, Typed, TypeOK
    <3>3. ASSUME NEW j \in Ids \ {i} PROVE Honest(j)'
      <4>1. /\ disk'[j] = Swept[j] /\ called'[j] = called[j] /\ calledWith'[j] = calledWith[j]
            /\ consented'[j] = consented[j] /\ UNCHANGED <<minted, shown, torn>>
        BY <2>4, <2>5, <2>9 DEF Turned, Inv, Typed, TypeOK
      <4>2. Honest(j)
        BY DEF Rule1
      <4>3. QED BY <2>2, <4>1, <4>2, SweptArgs DEF Honest, Fits
    <3>4. QED BY <3>2, <3>3 DEF Rule1
  <2>10. CASE ApproveUnrouted(i, s, e)
    BY <1>0, <2>2, <2>6, <2>7, <2>8, <2>10, SweptArgs, QuietRule1 DEF Turned, world
  <2>11. QED BY <2>1, <2>9, <2>10
<1>4. QED
  BY <1>1, <1>2, <1>3 DEF Decision

LEMMA CrashRule1 ==
  ASSUME Inv, Rule1, Inv', Moved,
         \/ Crash \/ CrashInSave \/ \E i \in Ids : \E e \in Edits("web") : CrashInEdit(i, e)
  PROVE  Rule1'
<1>0. minted \in Nat /\ minted' \in Nat /\ minted' >= minted
  BY DEF Inv, Typed, TypeOK, Moved
<1>1. CASE Crash
  BY <1>0, <1>1, QuietRule1 DEF Crash, Down, world
<1>2. CASE CrashInSave
  <2>1. PICK w \in Writes, k \in 0..MaxId : disk' = Prefix(w, k)
    BY <1>2 DEF CrashInSave
  <2>2. /\ StoreOK(w) /\ mem = disk /\ UNCHANGED <<shown, world, torn>>
        /\ \A i \in Ids :
             /\ MayBecome(i, mem[i], w[i])
             /\ mem[i].status # "none" => w[i].args = mem[i].args
             /\ mem[i].status = "none" /\ w[i].status # "none" => w[i].args \in Drafts
    BY <1>2, WritesOK DEF CrashInSave, Inv, Down
  <2>3. \A i \in Ids : disk'[i] = w[i] \/ disk'[i] = Blank
    BY <2>1, <2>2, PrefixOK
  <2>4. ASSUME NEW i \in Ids
        PROVE  \/ disk'[i].status = "none"
               \/ /\ disk'[i].args = disk[i].args /\ disk[i].status # "none"
                  /\ disk'[i].status = "pending" => disk[i].status = "pending"
               \/ Fits(disk'[i].args) /\ i > minted
    <3>1. CASE disk'[i] = Blank
      BY <3>1 DEF Blank
    <3>2. CASE disk'[i] = w[i] /\ disk[i].status # "none"
      BY <2>2, <3>2 DEF MayBecome
    <3>3. CASE disk'[i] = w[i] /\ disk[i].status = "none" /\ w[i].status # "none"
      <4>1. i = minted + 1 /\ w[i].status = "pending"
        BY <2>2, <3>3 DEF MayBecome, Inv, Sound
      <4>2. w[i].args \in Drafts
        BY <2>2, <3>3
      <4>3. QED BY <1>0, <3>3, <4>1, <4>2 DEF Drafts, Fits
    <3>4. QED BY <2>3, <3>1, <3>2, <3>3
  <2>5. QED BY <1>0, <2>2, <2>4, QuietRule1 DEF world
<1>3. CASE \E i \in Ids : \E e \in Edits("web") : CrashInEdit(i, e)
  <2>1. PICK i \in Ids : \E e \in Edits("web") : CrashInEdit(i, e)
    BY <1>3
  <2>2. PICK e \in Edits("web") : CrashInEdit(i, e)
    BY <2>1
  <2> DEFINE w == Edited(Swept, i, e)
  <2>3. /\ up /\ Swept[i].status = "pending" /\ ~Refused(Swept[i].args, e)
        /\ torn' = torn \cup {i} /\ UNCHANGED <<shown, world, minted>>
    BY <2>2 DEF CrashInEdit, CanTap, StillPending, Down
  <2>4. /\ StoreOK(w) /\ w[i].status = "pending" /\ w[i].args = Merge(Swept[i].args, e)
        /\ \A j \in Ids \ {i} : w[j] = Swept[j]
    BY <2>3, SweptOK, EditedOK DEF Surfaces
  <2>5. PICK k \in 0..MaxId : disk' = Prefix(w, k)
    BY <2>2 DEF CrashInEdit
  <2>6. \A j \in Ids : disk'[j] = w[j] \/ disk'[j] = Blank
    BY <2>4, <2>5, PrefixOK
  <2>7. Fits(w[i].args)
    <3>1. Fits(Swept[i].args)
      BY <2>3, SweptArgs DEF Rule1, Honest
    <3>2. QED BY <2>3, <2>4, <3>1, ProposalsAssumption DEF Fits, Merge, Refused, Locked
  <2> HIDE DEF w
  <2>8. ASSUME NEW j \in Ids
        PROVE  \/ disk'[j].status = "none"
               \/ /\ disk'[j].args = disk[j].args /\ disk[j].status # "none"
                  /\ disk'[j].status = "pending" => disk[j].status = "pending"
               \/ Fits(disk'[j].args) /\ j \in torn'
    BY <2>3, <2>4, <2>6, <2>7, SweptArgs DEF Blank
  <2>9. QED BY <1>0, <2>3, <2>8, QuietRule1 DEF world
<1>4. QED
  BY <1>1, <1>2, <1>3

LEMMA Rule1Next == Inv /\ Rule1 /\ Next => Rule1'
<1> SUFFICES ASSUME Inv, Rule1, Next, Inv', Moved PROVE Rule1'
  BY InvNext
<1>0. minted \in Nat /\ \A i \in Ids : i \in Nat
  BY DEF Inv, Typed, TypeOK, Ids
<1>1. ASSUME NEW t \in Turns, StartTurn(t) PROVE Rule1'
  BY <1>0, <1>1, QuietRule1 DEF StartTurn, store, world
<1>2. ASSUME NEW t \in Turns, NEW a \in Drafts, Propose(t, a) PROVE Rule1'
  <2>0. PICK n \in Ids : n = minted + 1
    BY <1>2 DEF Propose
  <2>1. /\ up /\ n \in Ids /\ minted' = n /\ disk' = Added(mem, n, a) /\ mem = disk
        /\ UNCHANGED <<world, torn>>
    BY <1>2, <2>0 DEF Propose, Commit, Inv
  <2>2. a \in Args /\ Fits(a)
    BY DEF Drafts, Fits
  <2>3. disk'[n].args = a /\ \A j \in Ids \ {n} : disk'[j] = disk[j]
    BY <2>1 DEF Added, Inv, Typed, TypeOK
  <2>4. \A s \in Surfaces : /\ shown'[s][n] \in {a, NoArgs}
                            /\ \A j \in Ids \ {n} : shown'[s][j] = shown[s][j]
    <3>1. PICK reached \in SUBSET Surfaces :
            shown' = [s \in Surfaces |-> [shown[s] EXCEPT ![n] =
                                            IF s \in reached THEN a ELSE NoArgs]]
      BY <1>2, <2>0 DEF Propose
    <3>2. shown \in [Surfaces -> [Ids -> Args \cup {NoArgs}]]
      BY DEF Inv, Typed, TypeOK
    <3>3. QED BY <2>1, <3>1, <3>2
  <2>5. Honest(n)'
    <3>1. called[n] = 0 /\ n \in Nat /\ ~(n > minted')
      BY <1>0, <2>0, <2>1 DEF Inv, Sound
    <3>2. called'[n] = 0 /\ disk'[n].args = a /\ Fits(disk'[n].args)
      BY <2>1, <2>2, <2>3, <3>1 DEF world, Fits
    <3>3. QED BY <2>4, <3>1, <3>2 DEF Honest
  <2>6. ASSUME NEW j \in Ids \ {n} PROVE Honest(j)'
    <3>1. Honest(j) /\ (j > minted' => j > minted)
      BY <1>0, <2>0, <2>1 DEF Rule1
    <3>2. /\ disk'[j] = disk[j] /\ called'[j] = called[j] /\ torn' = torn
          /\ calledWith'[j] = calledWith[j] /\ consented'[j] = consented[j]
          /\ \A s \in Surfaces : shown'[s][j] = shown[s][j]
      BY <2>1, <2>3, <2>4 DEF world
    <3>3. QED BY <3>1, <3>2 DEF Honest, Fits
  <2>7. QED BY <2>5, <2>6 DEF Rule1
<1>3. ASSUME NEW drawn \in SUBSET Ids, Read(drawn) PROVE Rule1'
  <2>1. up /\ disk' = Swept /\ UNCHANGED <<minted, world, torn>>
    BY <1>3 DEF Read, Commit, Swept
  <2>2. \A i \in Ids : /\ shown'["web"][i] = IF i \notin drawn THEN shown["web"][i]
                                             ELSE IF Swept[i].status = "pending" THEN disk[i].args
                                             ELSE NoArgs
                       /\ shown'["telegram"][i] = shown["telegram"][i]
    BY <1>3, <2>1 DEF Read, Swept, Surfaces, Inv, Typed, TypeOK
  <2>3. ASSUME NEW i \in Ids PROVE Honest(i)'
    <3>1. Honest(i) /\ (i > minted => disk[i].status = "none")
      BY DEF Rule1, Inv, Sound
    <3>2. /\ Swept[i].args = disk[i].args
          /\ Swept[i].status = "none" <=> disk[i].status = "none"
          /\ Swept[i].status = "pending" => disk[i].status = "pending"
      BY <2>1, SweptArgs
    <3>3. QED BY <2>1, <2>2, <3>1, <3>2 DEF Honest, world, Surfaces, Fits
  <2>4. QED BY <2>3 DEF Rule1
<1>4. ASSUME NEW i \in Ids, NEW s \in Surfaces, Decision(i, s) PROVE Rule1'
  BY <1>4, DecisionRule1
<1>5. ASSUME NEW i \in Ids, ToolActs(i) PROVE Rule1'
  BY <1>0, <1>5, QuietRule1 DEF ToolActs, store
<1>6. ASSUME NEW i \in Ids, NEW answer \in Answers, CallReturns(i, answer) PROVE Rule1'
  <2>1. /\ disk' = Finished(disk, i, answer) /\ disk[i].status = "approved"
        /\ UNCHANGED <<minted, shown, torn, called, calledWith, consented>>
    BY <1>6 DEF CallReturns, Commit, Inv, Sound, Turned, world
  <2>2. \A j \in Ids : /\ disk'[j].args = disk[j].args
                       /\ disk'[j].status # disk[j].status =>
                            disk[j].status = "approved" /\ disk'[j].status \in {"done", "failed"}
    BY <2>1, FinishedOK DEF Inv, Typed
  <2>3. QED BY <1>0, <2>1, <2>2, QuietRule1
<1>7. CASE Tick
  BY <1>0, <1>7, QuietRule1 DEF Tick, store, world
<1>8. CASE \/ Crash \/ CrashInSave
           \/ \E i \in Ids : \E e \in Edits("web") : CrashInEdit(i, e)
  BY <1>8, CrashRule1
<1>9. CASE Boot \/ BootTorn
  <2>1. /\ UNCHANGED <<minted, shown, torn, world>>
        /\ \/ disk' = Loaded(disk)
           \/ \E k \in 0..MaxId : disk' = Prefix(Loaded(disk), k)
    BY <1>9 DEF Boot, BootTorn, Commit
  <2>2. StoreOK(Loaded(disk)) /\ \A i \in Ids :
          /\ Loaded(disk)[i].args = disk[i].args
          /\ Loaded(disk)[i].status = IF disk[i].status = "approved" THEN "failed"
                                                                    ELSE disk[i].status
    BY LoadedOK DEF Inv, Typed
  <2>3. \A i \in Ids : disk'[i] = Loaded(disk)[i] \/ disk'[i] = Blank
    BY <2>1, <2>2, PrefixOK
  <2>4. QED BY <1>0, <2>1, <2>2, <2>3, QuietRule1 DEF world, Blank
<1>10. QED
  BY <1>1, <1>2, <1>3, <1>4, <1>5, <1>6, <1>7, <1>8, <1>9 DEF Next, Returns

\* Rule 1: what ran is what stood on the approved card, the person's own edit
\* included, and the fields the configuration fixes are never another value.
THEOREM ApprovedIsShown == Spec => []RunsWhatWasShown
<1>1. Init => Rule1
  BY DEF Init, Rule1, Honest, Empty, Blank, Surfaces
<1>2. Inv /\ Rule1 /\ [Next]_vars => Rule1'
  <2>1. CASE UNCHANGED vars
    BY <2>1 DEF vars, store, world, Rule1, Honest, Fits
  <2>2. QED BY <2>1, Rule1Next
<1>3. Rule1 => RunsWhatWasShown
  BY DEF Rule1, Honest, Fits, RunsWhatWasShown
<1>4. QED
  BY InvHolds, <1>1, <1>2, <1>3, PTL DEF Spec
----------------------------------------------------------------------------
(* No second card for a call made again in one turn.                       *)

\* What a turn made is in the list of a running process: a proposal leaves the
\* list only with the process, and the turn's memory goes with it.
MadeIsKept == \A t \in Turns : \A i \in made[t] : up /\ mem[i].status # "none"
Twinless == MadeIsKept /\ NoTwinCards

\* From one list to the next nothing is lost, and a draft that is not the one it
\* was carries the arguments it had.
Keeps(s, u) ==
  \A i \in Ids : s[i].status # "none" =>
    /\ u[i].status # "none"
    /\ \/ u[i].args = s[i].args /\ u[i].original = s[i].original
       \/ u[i].original \in Args

LEMMA KeepsTransitive ==
  ASSUME NEW s, NEW u, NEW w, Keeps(s, u), Keeps(u, w)
  PROVE  Keeps(s, w)
  BY DEF Keeps

LEMMA ExpiredKeeps == ASSUME NEW s, StoreOK(s) PROVE Keeps(s, Expired(s))
  BY ExpiredOK DEF Keeps

\* A verdict on a proposal leaves its draft alone.
LEMMA VerdictKeeps ==
  ASSUME NEW s, StoreOK(s), NEW i \in Ids, NEW answer
  PROVE  Keeps(s, Declined(s, i)) /\ Keeps(s, Approved(s, i)) /\ Keeps(s, Finished(s, i, answer))
<1>1. \A v \in Statuses \ {"none"} : Keeps(s, [s EXCEPT ![i].status = v])
  BY DEF Keeps, StoreOK, Proposal
<1>2. "declined" \in Statuses \ {"none"} /\ "approved" \in Statuses \ {"none"}
  BY DEF Statuses, Settled
<1>3. (IF LooksFailed(answer) THEN "failed" ELSE "done") \in Statuses \ {"none"}
  BY DEF Statuses, Settled
<1>4. QED
  BY <1>1, <1>2, <1>3 DEF Declined, Approved, Finished

LEMMA EditedKeeps ==
  ASSUME NEW st, StoreOK(st), NEW i \in Ids, st[i].status # "none", NEW e
  PROVE  Keeps(st, Edited(st, i, e))
  BY DEF Keeps, StoreOK, Edited, Proposal

\* A step in which no turn makes a proposal.
LEMMA QuietTwins ==
  ASSUME Twinless, Inv, Inv', \A t \in Turns : made'[t] \subseteq made[t],
         \/ up' /\ Keeps(mem, mem')
         \/ \A t \in Turns : made'[t] = {}
  PROVE  Twinless'
<1>1. \A t \in Turns : made[t] \subseteq Ids
  BY DEF Inv, Typed, TypeOK
<1>2. CASE \A t \in Turns : made'[t] = {}
  BY <1>2 DEF Twinless, MadeIsKept, NoTwinCards
<1>3. CASE up' /\ Keeps(mem, mem')
  <2>1. MadeIsKept'
    BY <1>1, <1>3 DEF Twinless, MadeIsKept, Keeps
  <2>2. ASSUME NEW t \in Turns, NEW i \in made'[t], NEW j \in made'[t], i # j
        PROVE  \/ mem'[i].args # mem'[j].args
               \/ mem'[i].original # NoArgs \/ mem'[j].original # NoArgs
    <3>1. \/ mem[i].args # mem[j].args
          \/ mem[i].original # NoArgs \/ mem[j].original # NoArgs
      BY <2>2 DEF Twinless, NoTwinCards
    <3>2. \A k \in {i, j} : \/ mem'[k].args = mem[k].args /\ mem'[k].original = mem[k].original
                            \/ mem'[k].original # NoArgs
      BY <1>1, <1>3, ProposalsAssumption DEF Twinless, MadeIsKept, Keeps
    <3>3. QED BY <3>1, <3>2
  <2>3. QED BY <2>1, <2>2 DEF Twinless, NoTwinCards
<1>4. QED
  BY <1>2, <1>3

\* The card a turn adds differs from those it has that nobody edited.
LEMMA ProposeTwins ==
  ASSUME Twinless, Inv, NEW t \in Turns, NEW a \in Drafts, Propose(t, a)
  PROVE  Twinless'
<1>1. PICK n \in Ids : n = minted + 1
  BY DEF Propose
<1>2. /\ up /\ up' = up /\ mem' = Added(mem, n, a)
      /\ made' = [made EXCEPT ![t] = @ \cup {n}]
      /\ \A j \in made[t] : mem[j].args # a
  BY <1>1 DEF Propose, Commit, AlreadyMade, proc
<1>3. mem'[n].status = "pending" /\ mem'[n].args = a /\ \A j \in Ids \ {n} : mem'[j] = mem[j]
  BY <1>2 DEF Added, Inv, Typed, TypeOK
<1>4. /\ \A u \in Turns : made[u] \subseteq Ids \ {n}
      /\ \A u \in Turns : made'[u] = IF u = t THEN made[u] \cup {n} ELSE made[u]
  <2>1. n > minted
    BY <1>1 DEF Inv, Typed, TypeOK
  <2>2. mem[n].status = "none"
    BY <1>2, <2>1 DEF Inv, Sound
  <2>3. made \in [Turns -> SUBSET Ids]
    BY DEF Inv, Typed, TypeOK
  <2>4. QED BY <1>2, <2>2, <2>3 DEF Twinless, MadeIsKept
<1>5. MadeIsKept'
  BY <1>2, <1>3, <1>4 DEF Twinless, MadeIsKept
<1>6. NoTwinCards'
  <2> SUFFICES ASSUME NEW u \in Turns, NEW i \in made'[u], NEW j \in made'[u], i # j
               PROVE  \/ mem'[i].args # mem'[j].args
                      \/ mem'[i].original # NoArgs \/ mem'[j].original # NoArgs
    BY DEF NoTwinCards
  <2>1. CASE i # n /\ j # n
    <3>1. i \in made[u] /\ j \in made[u] /\ mem'[i] = mem[i] /\ mem'[j] = mem[j]
      BY <1>3, <1>4, <2>1
    <3>2. QED BY <3>1 DEF Twinless, NoTwinCards
  <2>2. CASE i = n \/ j = n
    BY <1>2, <1>3, <1>4, <2>2
  <2>3. QED BY <2>1, <2>2
<1>7. QED
  BY <1>5, <1>6 DEF Twinless

LEMMA DecisionKeeps ==
  ASSUME Inv, NEW i \in Ids, NEW s \in Surfaces, Decision(i, s)
  PROVE  up /\ Keeps(mem, mem') /\ UNCHANGED <<up, made>>
<1>1. up /\ UNCHANGED <<up, made>>
  BY DEF Decision, TapTooLate, Decline, EditRefused, Approve, ApproveUnrouted,
         CanTap, Turned, proc
<1>2. StoreOK(Swept) /\ Keeps(mem, Swept)
  BY ExpiredKeeps, ExpiredOK DEF Inv, Typed, Swept
<1>3. CASE TapTooLate(i, s) \/ \E e \in Edits(s) : EditRefused(i, s, e)
  BY <1>1, <1>2, <1>3 DEF TapTooLate, EditRefused, Commit
<1>4. CASE Decline(i, s)
  <2>1. mem' = Declined(Swept, i)
    BY <1>4 DEF Decline, Commit
  <2>2. QED BY <1>1, <1>2, <2>1, VerdictKeeps, KeepsTransitive
<1>5. CASE \E e \in Edits(s) : Approve(i, s, e) \/ ApproveUnrouted(i, s, e)
  <2>1. PICK e \in Edits(s) : Approve(i, s, e) \/ ApproveUnrouted(i, s, e)
    BY <1>5
  <2> DEFINE ed == Edited(Swept, i, e)
             ap == Approved(ed, i)
             st == Finished(ap, i, "unrouted")
  <2>2. Swept[i].status = "pending" /\ ~Refused(Swept[i].args, e) /\ mem' \in {ap, st}
    BY <2>1 DEF Approve, ApproveUnrouted, StillPending, SaveApproved, Commit
  <2>3. StoreOK(ed) /\ ed[i].status = "pending" /\ Keeps(Swept, ed)
    BY <1>2, <2>2, EditedOK, EditedKeeps
  <2>4. StoreOK(ap) /\ Keeps(ed, ap)
    BY <2>3, ApprovedOK, VerdictKeeps
  <2>5. Keeps(ap, st)
    BY <2>4, VerdictKeeps
  <2> HIDE DEF ed, ap, st
  <2>6. Keeps(mem, ed)
    BY <1>2, <2>3, KeepsTransitive
  <2>7. Keeps(mem, ap)
    BY <2>4, <2>6, KeepsTransitive
  <2>8. Keeps(mem, st)
    BY <2>5, <2>7, KeepsTransitive
  <2>9. QED BY <1>1, <2>2, <2>7, <2>8
<1>6. QED
  BY <1>3, <1>4, <1>5 DEF Decision

LEMMA TwinsNext == Inv /\ Twinless /\ Next => Twinless'
<1> SUFFICES ASSUME Inv, Twinless, Next, Inv' PROVE Twinless'
  BY InvNext
<1>0. Keeps(mem, mem) /\ StoreOK(mem) /\ made \in [Turns -> SUBSET Ids]
  BY DEF Keeps, Inv, Typed, TypeOK
<1>1. ASSUME NEW t \in Turns, StartTurn(t) PROVE Twinless'
  <2>1. up' /\ mem' = mem /\ \A u \in Turns : made'[u] \subseteq made[u]
    BY <1>0, <1>1 DEF StartTurn, store, proc
  <2>2. QED BY <1>0, <2>1, QuietTwins
<1>2. ASSUME NEW t \in Turns, NEW a \in Drafts, Propose(t, a) PROVE Twinless'
  BY <1>2, ProposeTwins
<1>3. ASSUME NEW drawn \in SUBSET Ids, Read(drawn) PROVE Twinless'
  <2>1. up' /\ mem' = Swept /\ made' = made
    BY <1>3 DEF Read, Commit, proc
  <2>2. QED BY <1>0, <2>1, ExpiredKeeps, QuietTwins DEF Swept
<1>4. ASSUME NEW i \in Ids, NEW s \in Surfaces, Decision(i, s) PROVE Twinless'
  BY <1>4, DecisionKeeps, QuietTwins
<1>5. ASSUME NEW i \in Ids, ToolActs(i) PROVE Twinless'
  <2>1. UNCHANGED <<up, mem, made>>
    BY <1>5 DEF ToolActs, store, proc
  <2>2. QED BY <2>1 DEF Twinless, MadeIsKept, NoTwinCards
<1>6. ASSUME NEW i \in Ids, NEW answer \in Answers, CallReturns(i, answer) PROVE Twinless'
  <2>1. up' /\ mem' = Finished(mem, i, answer) /\ made' = made
    BY <1>6 DEF CallReturns, Commit, Turned, proc
  <2>2. QED BY <1>0, <2>1, VerdictKeeps, QuietTwins
<1>7. CASE \/ Crash \/ CrashInSave
           \/ \E i \in Ids : \E e \in Edits("web") : CrashInEdit(i, e)
  <2>1. made' = [t \in Turns |-> {}]
    BY <1>7 DEF Crash, CrashInSave, CrashInEdit, Down
  <2>2. QED BY <2>1, QuietTwins
<1>8. CASE Boot \/ BootTorn
  <2>1. ~up /\ made' = made
    BY <1>8 DEF Boot, BootTorn
  <2>2. \A t \in Turns : made'[t] = {}
    BY <2>1 DEF Twinless, MadeIsKept
  <2>3. QED BY <2>1, <2>2, QuietTwins
<1>9. CASE Tick
  <2>1. UNCHANGED <<up, mem, made>>
    BY <1>9 DEF Tick, store, proc
  <2>2. QED BY <2>1 DEF Twinless, MadeIsKept, NoTwinCards
<1>10. QED
  BY <1>1, <1>2, <1>3, <1>4, <1>5, <1>6, <1>7, <1>8, <1>9 DEF Next, Returns

\* A call the model makes again in one turn never puts up a second card beside one
\* nobody edited.
THEOREM NeverTwice == Spec => []NoTwinCards
<1>1. Init => Twinless
  BY DEF Init, Twinless, MadeIsKept, NoTwinCards
<1>2. Inv /\ Twinless /\ [Next]_vars => Twinless'
  <2>1. CASE UNCHANGED vars
    BY <2>1 DEF vars, store, proc, Twinless, MadeIsKept, NoTwinCards
  <2>2. QED BY <2>1, TwinsNext
<1>3. Twinless => NoTwinCards
  BY DEF Twinless
<1>4. QED
  BY InvHolds, <1>1, <1>2, <1>3, PTL DEF Spec
=============================================================================
