------------------------ MODULE MCConversationCache ------------------------
(***************************************************************************)
(* ConversationCache for TLC: timestamps run from 1 to MaxTime.            *)
(***************************************************************************)
EXTENDS ConversationCache

CONSTANT MaxTime   (* bound: the last timestamp                            *)

Times == 1..MaxTime
=============================================================================
