-------------------------- MODULE ConversationCache --------------------------
(***************************************************************************)
(* The LRU/TTL cache of capture.Store (src/internal/capture/store.go):     *)
(* s.list, s.lmap and each conversation's LastSeen, as recordOne changes   *)
(* them in its critical section. s.mu is held from evictStaleLocked to     *)
(* MoveToFront, so one Record is one atomic step. Loop windows, event      *)
(* lists and listener callbacks are added by CapturePipeline.              *)
(*                                                                         *)
(* Timestamps are stamped before the lock is taken, so they may reach the  *)
(* cache out of order: a message may be up to MaxSkew older than the       *)
(* newest one already recorded.                                            *)
(***************************************************************************)
EXTENDS Integers, Sequences

CONSTANTS
  Key,                (* ConvKey: (chat, thread) pairs                     *)
  Time,               (* timestamps; 0 is the zero time                    *)
  MaxConversations,   (* cfg.MaxConversations                              *)
  ConvTTL,            (* cfg.ConvTTL                                       *)
  MaxSkew             (* how late a stamped message may reach the lock     *)

ASSUME CacheAssumption ==
  /\ Time \subseteq Nat \ {0}
  /\ MaxConversations \in Nat \ {0}
  /\ ConvTTL \in Nat \ {0}
  /\ MaxSkew \in Nat

VARIABLES
  lru,        (* s.list, front (most recently used) first                  *)
  lmap,       (* the keys s.lmap has an element for                        *)
  lastSeen,   (* conv.LastSeen of each conversation, 0 when there is none  *)
  evicted,    (* ids of the conversations the last recordOne evicted       *)
  newest      (* history: the greatest timestamp recorded                  *)

vars == <<lru, lmap, lastSeen, evicted, newest>>

Init ==
  /\ lru = <<>>
  /\ lmap = {}
  /\ lastSeen = [k \in Key |-> 0]
  /\ evicted = <<>>
  /\ newest = 0

-----------------------------------------------------------------------------

(* Mutant of Fresh: an entry that expired just now is kept.                *)
FreshAtCutoff(i, now) == lastSeen[lru[i]] >= now - ConvTTL

Fresh(i, now) == lastSeen[lru[i]] > now - ConvTTL

(* evictStaleLocked walks from the tail and stops at the first fresh       *)
(* entry: it leaves the first n entries.                                   *)
StopsAt(n, now) ==
  /\ n > 0 => Fresh(n, now)
  /\ \A i \in (n + 1)..Len(lru) : ~Fresh(i, now)

(* Mutant of Popped: positions instead of ids.                             *)
PoppedPositions(n) == [j \in 1..(Len(lru) - n) |-> j]

(* The entries after the first n, in the order they are popped.            *)
Popped(n) == [j \in 1..(Len(lru) - n) |-> lru[Len(lru) + 1 - j]]

PoppedKeys(n) == {lru[i] : i \in (n + 1)..Len(lru)}

(* Mutant of MoveToFront: the list stays in order of creation.             *)
LeaveInPlace(s, p) == s

MoveToFront(s, p) ==
  [i \in 1..Len(s) |-> IF i = 1 THEN s[p] ELSE IF i <= p THEN s[i - 1] ELSE s[i]]

PushFront(k, s) == <<k>> \o s

(* Mutant of Touch: a conversation that is there again is not reported.    *)
TouchUnreported(k, now, n) ==
  /\ lmap' = (lmap \ PoppedKeys(n)) \cup {k}
  /\ lastSeen' = [x \in Key |-> IF x = k THEN now
                                ELSE IF x \in PoppedKeys(n) THEN 0 ELSE lastSeen[x]]
  /\ evicted' = SelectSeq(Popped(n), LAMBDA x : x # k)
  /\ newest' = IF now > newest THEN now ELSE newest

(* The bookkeeping common to the outcomes below, when the first n entries  *)
(* survive and k is recorded at now.                                       *)
Touch(k, now, n) ==
  /\ lmap' = (lmap \ PoppedKeys(n)) \cup {k}
  /\ lastSeen' = [x \in Key |-> IF x = k THEN now
                                ELSE IF x \in PoppedKeys(n) THEN 0 ELSE lastSeen[x]]
  /\ evicted' = Popped(n)
  /\ newest' = IF now > newest THEN now ELSE newest

(* getOrCreateLocked finds the conversation; MoveToFront promotes it.      *)
Found(k, now, n) ==
  /\ k \in lmap \ PoppedKeys(n)
  /\ \E p \in 1..n : lru[p] = k /\ lru' = MoveToFront(SubSeq(lru, 1, n), p)
  /\ Touch(k, now, n)

(* getOrCreateLocked creates the conversation while there is room.         *)
Created(k, now, n) ==
  /\ k \notin lmap \ PoppedKeys(n)
  /\ n < MaxConversations
  /\ lru' = PushFront(k, SubSeq(lru, 1, n))
  /\ Touch(k, now, n)

(* Mutant of CreatedEvicting: the newest conversation makes room.          *)
CreatedEvictingFront(k, now, n) ==
  /\ k \notin lmap \ PoppedKeys(n)
  /\ n >= MaxConversations
  /\ lru' = PushFront(k, SubSeq(lru, 2, n))
  /\ lmap' = (lmap \ (PoppedKeys(n) \cup {lru[1]})) \cup {k}
  /\ lastSeen' = [x \in Key |-> IF x = k THEN now
                     ELSE IF x \in PoppedKeys(n) \cup {lru[1]} THEN 0 ELSE lastSeen[x]]
  /\ evicted' = Popped(n) \o <<lru[1]>>
  /\ newest' = IF now > newest THEN now ELSE newest

(* At capacity evictOldestLocked first pops the tail.                      *)
CreatedEvicting(k, now, n) ==
  /\ k \notin lmap \ PoppedKeys(n)
  /\ n >= MaxConversations
  /\ lru' = PushFront(k, SubSeq(lru, 1, n - 1))
  /\ Touch(k, now, n - 1)

(* The critical section of recordOne for a message of conversation k.      *)
Record(k, now) ==
  \E n \in 0..Len(lru) :
    /\ StopsAt(n, now)
    /\ Found(k, now, n) \/ Created(k, now, n) \/ CreatedEvicting(k, now, n)

Next ==
  \E k \in Key, now \in Time : now >= newest - MaxSkew /\ Record(k, now)

Spec == Init /\ [][Next]_vars

-----------------------------------------------------------------------------

TypeOK ==
  /\ lru \in Seq(Key)
  /\ lmap \in SUBSET Key
  /\ lastSeen \in [Key -> Nat]
  /\ evicted \in Seq(Key)
  /\ newest \in Nat

(* The list and the map hold the same conversations, each once: no key     *)
(* leads to an element that left the list, and no element is unreachable.  *)
ListMatchesMap ==
  /\ \A i, j \in DOMAIN lru : lru[i] = lru[j] => i = j
  /\ lmap = {lru[i] : i \in DOMAIN lru}
  /\ \A k \in Key : lastSeen[k] # 0 <=> k \in lmap

(* The number of conversations never exceeds the configured maximum.       *)
Bounded == Len(lru) <= MaxConversations

(* The list is sorted by recency up to the skew: nothing is much younger   *)
(* than what stands in front of it. Exact order when timestamps arrive in  *)
(* order.                                                                  *)
RecencyOrder ==
  \A i, j \in DOMAIN lru : i < j => lastSeen[lru[i]] >= lastSeen[lru[j]] - MaxSkew

(* The bound on what evictStaleLocked can miss by stopping at a fresh      *)
(* tail: after a message recorded at now (it is at the front), every       *)
(* conversation left was seen less than ConvTTL + MaxSkew before now.      *)
NoneOverdue ==
  lru # <<>> =>
    \A k \in lmap : lastSeen[k] > lastSeen[lru[1]] - ConvTTL - MaxSkew

(* What the comments of evictStaleLocked say: it removes the entries not   *)
(* updated within ConvTTL, since none older exist once the tail is fresh.  *)
NoStaleLeft ==
  lru # <<>> => \A k \in lmap : lastSeen[k] > lastSeen[lru[1]] - ConvTTL

(* The conversations at the tail of the list that have all expired when a  *)
(* message is recorded at now: none of them survives the message, though   *)
(* one may be there again at once, as a new conversation.                  *)
ExpiredTail(now) ==
  {lru[i] : i \in {j \in DOMAIN lru :
                     \A h \in j..Len(lru) : lastSeen[lru[h]] + ConvTTL <= now}}

(* The conversations a message recorded at now has removed.                *)
Departed(now) == (lmap \ lmap') \cup ExpiredTail(now)

(* What is reported to the eviction listeners is what left the store: each *)
(* departure once, no survivor, and also the conversation that expired and *)
(* is recreated by the very message that found it expired. The trace index *)
(* can only follow the store if it hears of exactly these. (The message    *)
(* just recorded is at the front of the list: its time is now.)            *)
EvictionsReported ==
  [][ /\ {evicted'[i] : i \in DOMAIN evicted'} = Departed(lastSeen'[lru'[1]])
      /\ \A i, j \in DOMAIN evicted' : evicted'[i] = evicted'[j] => i = j ]_vars

(* The list-based cache implements the abstract one.                       *)
Cache == INSTANCE ExpiringCache WITH live <- lmap, seen <- lastSeen, Slack <- MaxSkew

(* The store keeps what an expiring least-recently-used cache would keep,  *)
(* exactly when timestamps arrive in order and within MaxSkew when not.    *)
ImplementsCache == Cache!Spec
=============================================================================
