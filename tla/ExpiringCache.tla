---------------------------- MODULE ExpiringCache ----------------------------
(***************************************************************************)
(* What the conversation store promises about which conversations it       *)
(* remembers, without its linked list. It is a bounded cache whose entries *)
(* expire ConvTTL after their last event. Timestamps come in with a skew   *)
(* of at most Slack; with Slack = 0 every record forgets exactly the       *)
(* expired entries and, if there is still no room, a least recently seen   *)
(* one. With more, an entry expired for less than Slack may linger, and    *)
(* the victim may be up to Slack younger than the oldest.                  *)
(***************************************************************************)
EXTENDS Integers, FiniteSets

CONSTANTS
  Key,                (* conversation keys                                 *)
  Time,               (* timestamps                                        *)
  MaxConversations,   (* capacity                                          *)
  ConvTTL,            (* lifetime of an entry after its last event         *)
  Slack               (* how far a timestamp may lie behind the newest one *)

VARIABLES
  live,               (* the remembered conversations                      *)
  seen,               (* when each of them was last seen                   *)
  newest              (* the greatest timestamp so far                     *)

vars == <<live, seen, newest>>

Init ==
  /\ live = {}
  /\ seen = [k \in Key |-> 0]
  /\ newest = 0

(* keep survives expiry at time now.                                       *)
Survivors(keep, now) ==
  /\ keep \subseteq live
  /\ \A k \in live : seen[k] > now - ConvTTL => k \in keep
  /\ \A k \in keep : seen[k] > now - ConvTTL - Slack

(* v may give way to a new conversation.                                   *)
LeastRecent(v, keep) ==
  v \in keep /\ \A k \in keep : seen[v] <= seen[k] + Slack

See(k, now, kept) ==
  /\ live' = kept \cup {k}
  /\ seen' = [x \in Key |-> IF x = k THEN now ELSE IF x \in kept THEN seen[x] ELSE 0]
  /\ newest' = IF now > newest THEN now ELSE newest

Record(k, now) ==
  /\ now >= newest - Slack
  /\ \E keep \in SUBSET live :
       /\ Survivors(keep, now)
       /\ \/ k \in keep /\ See(k, now, keep)
          \/ k \notin keep /\ Cardinality(keep) < MaxConversations /\ See(k, now, keep)
          \/ /\ k \notin keep /\ Cardinality(keep) >= MaxConversations
             /\ \E v \in keep : LeastRecent(v, keep) /\ See(k, now, keep \ {v})

Next == \E k \in Key, now \in Time : Record(k, now)

Spec == Init /\ [][Next]_vars
=============================================================================
