------------------------------- MODULE Consent -------------------------------
(***************************************************************************)
(* What the Keeper promises about acting in the world: it asks, a person   *)
(* answers once, and only a yes lets the action happen, once, on the terms *)
(* the yes covered.  Each proposal lives its own life; a step of the       *)
(* system may move several of them at once.  Proposals.tla implements it.  *)
(***************************************************************************)
EXTENDS Naturals

CONSTANTS Ids,      \* the proposals that may ever be made
          Terms,    \* what a yes can cover: the exact arguments
          NoTerms   \* no yes has been given

VARIABLES stage,    \* where each proposal stands between the two of them
          terms,    \* the arguments the yes covered
          acted     \* how often the world was changed

Stages == {"unasked", "open", "granted", "closed"}

Init == /\ stage = [i \in Ids |-> "unasked"]
        /\ terms = [i \in Ids |-> NoTerms]
        /\ acted = [i \in Ids |-> 0]

Moves(i, from, to) == stage[i] = from /\ stage'[i] = to
Holds(i) == terms'[i] = terms[i] /\ acted'[i] = acted[i]

Stay(i)  == stage'[i] = stage[i] /\ Holds(i)
Ask(i)   == Moves(i, "unasked", "open") /\ Holds(i)
\* Declined, expired, lost, or approved with no tool to run it: never acted on.
Close(i) == Moves(i, "open", "closed") /\ Holds(i)
Grant(i) == /\ Moves(i, "open", "granted")
            /\ terms'[i] \in Terms
            /\ acted'[i] = acted[i]
Act(i)   == /\ stage[i] = "granted" /\ stage'[i] = "granted"
            /\ acted[i] = 0 /\ acted'[i] = 1
            /\ terms'[i] = terms[i]

Live(i) == Stay(i) \/ Ask(i) \/ Close(i) \/ Grant(i) \/ Act(i)

Next == /\ stage' \in [Ids -> Stages]
        /\ terms' \in [Ids -> Terms \cup {NoTerms}]
        /\ acted' \in [Ids -> {0, 1}]
        /\ \A i \in Ids : Live(i)

vars == <<stage, terms, acted>>
Spec == Init /\ [][Next]_vars
=============================================================================
