----------------------------- MODULE UpdateFeed -----------------------------
(***************************************************************************)
(* What a bot is promised by getUpdates: every update published to it is   *)
(* received once and in the order of publication, unless there was no room *)
(* for it. Updates received by the last answer go on taking up room until  *)
(* they are confirmed.                                                     *)
(***************************************************************************)
EXTENDS Integers, Sequences

CONSTANTS
  Bot,        (* owners of a feed                                          *)
  Capacity    (* how many updates a feed holds                             *)

VARIABLES
  issued,     (* the newest update id                                      *)
  unread,     (* per bot: updates published and not received               *)
  held,       (* per bot: how many received updates are unconfirmed        *)
  inbox       (* per bot: updates received and not handled                 *)

vars == <<issued, unread, held, inbox>>

Init ==
  /\ issued \in Nat
  /\ unread = [b \in Bot |-> <<>>]
  /\ held = [b \in Bot |-> 0]
  /\ inbox = [b \in Bot |-> <<>>]

(* A new update enters the feed of b if there is room, and is lost if not. *)
Publish(b) ==
  LET n   == Len(unread[b])
      new == unread'[b]
  IN /\ issued' > issued
     /\ IF n + held[b] < Capacity
        THEN /\ Len(new) = n + 1 /\ SubSeq(new, 1, n) = unread[b]
             /\ new[n + 1].id = issued'
             /\ unread' = [unread EXCEPT ![b] = new]
        ELSE UNCHANGED unread
     /\ UNCHANGED held

(* An update for nobody.                                                   *)
Waste == issued' > issued /\ UNCHANGED <<unread, held>>

(* The owner takes the next update it has received.                        *)
Handle(b) ==
  /\ inbox[b] # <<>>
  /\ inbox' = [inbox EXCEPT ![b] = Tail(inbox[b])]

(* An answer hands the n oldest unread updates to the owner.               *)
Receive(b, n) ==
  /\ inbox' = [inbox EXCEPT ![b] = inbox[b] \o SubSeq(unread[b], 1, n)]
  /\ unread' = [unread EXCEPT ![b] = SubSeq(unread[b], n + 1, Len(unread[b]))]
  /\ held' = [held EXCEPT ![b] = held[b] + n]
  /\ UNCHANGED issued

(* The owner's next call confirms what it has received.                    *)
Confirm(b) ==
  /\ held' = [held EXCEPT ![b] = 0]
  /\ UNCHANGED <<issued, unread, inbox>>

(* A bot handles an update by publishing another, or without doing so.     *)
Next ==
  \/ (\E b \in Bot : Publish(b)) /\ (UNCHANGED inbox \/ \E a \in Bot : Handle(a))
  \/ Waste /\ UNCHANGED inbox
  \/ (\E b \in Bot : Handle(b)) /\ UNCHANGED <<issued, unread, held>>
  \/ \E b \in Bot : Confirm(b)
  \/ \E b \in Bot : \E n \in 0..Len(unread[b]) : Receive(b, n)

Spec == Init /\ [][Next]_vars
=============================================================================
