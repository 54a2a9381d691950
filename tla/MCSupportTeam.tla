--------------------------- MODULE MCSupportTeam ---------------------------
(***************************************************************************)
(* SupportTeam for TLC: the first task of the example's script, a refund   *)
(* that is requested twice and needs approval, and its second task in two  *)
(* iterations, so that a task follows one that was given up.               *)
(***************************************************************************)
EXTENDS SupportTeam

Bots == {Router, "refund", "order", Approver}
Self == [b \in Bots |-> b]
Goroutines == Bots \cup {Driver}

Refund == <<<<"costly refund">>>>
Enquiries == <<<<"order">>, <<"order">>>>
AllScripts == {Refund, Enquiries}
=============================================================================
