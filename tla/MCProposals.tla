----------------------------- MODULE MCProposals -----------------------------
(* A small instance: two fields, one fixed by the configuration, two drafts. *)
EXTENDS Proposals
CONSTANTS body, account, v1, v2

MCFields == {body, account}
MCValues == {v1, v2}
MCFixed  == [k \in {account} |-> v1]
=============================================================================
