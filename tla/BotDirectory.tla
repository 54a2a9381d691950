---------------------------- MODULE BotDirectory ----------------------------
(***************************************************************************)
(* What capture.BotRegistry promises its readers, seen through Snapshot: a *)
(* list of at most MaxEntries bots in the order they were first learned.   *)
(* Learning a new bot appends it and, when the list is full, forgets the   *)
(* bot learned longest ago; a rotated token changes the hash of a bot in   *)
(* place, which neither moves it nor prolongs its stay.                    *)
(***************************************************************************)
EXTENDS Integers, Sequences

CONSTANTS
  BotID,       (* Telegram user ids of bots                               *)
  Hash,        (* token hashes                                            *)
  MaxEntries   (* capacity of the directory                               *)

VARIABLE entries   (* the rows of Snapshot, oldest first                  *)

Rows == [id : BotID, hash : Hash]

Init == entries = <<>>

Rotate(id, h) ==
  \E i \in DOMAIN entries :
    /\ entries[i].id = id
    /\ entries' = [entries EXCEPT ![i].hash = h]

Learn(id, h) ==
  /\ \A i \in DOMAIN entries : entries[i].id # id
  /\ entries' = Append(IF Len(entries) < MaxEntries THEN entries ELSE Tail(entries),
                       [id |-> id, hash |-> h])

Next == \E id \in BotID, h \in Hash : Rotate(id, h) \/ Learn(id, h)

Spec == Init /\ [][Next]_entries
=============================================================================
