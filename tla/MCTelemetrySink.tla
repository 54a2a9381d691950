--------------------------- MODULE MCTelemetrySink ---------------------------
(***************************************************************************)
(* TelemetrySink for TLC. The bounds MaxEvents and MaxEvictions are guards *)
(* of the calls, not of the steps: every call that was made is finished.   *)
(***************************************************************************)
EXTENDS TelemetrySink, TLC

CONSTANTS
  MaxEvents,      (* bound: OnEvent calls                                  *)
  MaxEvictions    (* bound: OnEvict calls per conversation                 *)

Called == totalMessages + Cardinality({t \in Thread : pc[t] = "count"})

(* Every call of the bounds was made and has returned.                     *)
AllReturned ==
  /\ Called = MaxEvents
  /\ \A t \in Thread : pc[t] = "idle"
  /\ \A c \in Conv : epoch[c] = MaxEvictions
  /\ UNCHANGED vars

MCNext ==
  \/ \E t \in Thread :
       \/ Called < MaxEvents /\ \E c \in Calls : OnEvent(t, c)
       \/ Count(t) \/ Score(t) \/ Publish(t) \/ StartSpan(t)
  \/ \E c \in Conv : epoch[c] < MaxEvictions /\ OnEvict(c)
  \/ AllReturned

MCSpec == Init /\ [][MCNext]_vars

Symmetry == Permutations(Thread) \cup Permutations(Conv)
=============================================================================
