--------------------------- MODULE MCConversation ---------------------------
(* Two turns, a line and a proposal over the phone's thread and two more,  *)
(* left for hours once, a death.                                           *)
EXTENDS Conversation
MCProposals == {1}
=============================================================================
