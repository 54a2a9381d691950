----------------------------- MODULE BotRegistry -----------------------------
(***************************************************************************)
(* capture.BotRegistry (src/internal/capture/registry.go): the             *)
(* bidirectional map between Telegram bot ids and token hashes, filled     *)
(* from getMe responses and bounded by FIFO eviction.                      *)
(*                                                                         *)
(* Every method holds r.mu for its whole body, so each is one atomic step. *)
(* The Go maps are total functions here: the zero value a Go lookup yields *)
(* for an absent key (NoHash for "", NoBot for 0) is never stored, so it   *)
(* stands for absence.                                                     *)
(***************************************************************************)
EXTENDS Integers, Sequences, FiniteSets

CONSTANTS
  BotID,       (* Telegram user ids of bots                               *)
  Hash,        (* token hashes                                            *)
  NoBot,       (* the zero id                                             *)
  NoHash,      (* the empty hash                                          *)
  MaxEntries,  (* r.maxEntries                                            *)
  Answers      (* the (result.id, token hash) pairs getMe exchanges carry *)

ASSUME RegistryAssumption ==
  /\ MaxEntries \in Nat \ {0}
  /\ NoBot \notin BotID
  /\ NoHash \notin Hash
  /\ Answers \subseteq (BotID \cup {NoBot}) \X (Hash \cup {NoHash})

VARIABLES
  idToHash,    (* r.idToHash                                              *)
  hashToID,    (* r.hashToID                                              *)
  insertOrder  (* r.insertOrder, oldest registration first                *)

vars == <<idToHash, hashToID, insertOrder>>

-----------------------------------------------------------------------------

HashForID(id) == IF id = NoBot THEN NoHash ELSE idToHash[id]
IDForHash(h)  == IF h = NoHash THEN NoBot ELSE hashToID[h]

Known == {id \in BotID : idToHash[id] # NoHash}

(* BotRegistry.Len *)
Size == Cardinality(Known)

(* Snapshot: the rows of insertOrder, every id with its current hash. The  *)
(* code leaves out ids that idToHash lacks; OrderMatchesMap shows that     *)
(* there are none.                                                         *)
Listing == [i \in DOMAIN insertOrder |->
             [id |-> insertOrder[i], hash |-> idToHash[insertOrder[i]]]]

-----------------------------------------------------------------------------

NewBotRegistry ==
  /\ idToHash = [id \in BotID |-> NoHash]
  /\ hashToID = [h \in Hash |-> NoBot]
  /\ insertOrder = <<>>

(* Mutant of Unlinked: blanks the entry with the wrong zero value.         *)
UnlinkedToHash(h, id) ==
  IF hashToID[h] = id THEN [hashToID EXCEPT ![h] = NoHash] ELSE hashToID

(* hashToID once the entry of hash h is dropped, if it is still id's.      *)
Unlinked(h, id) ==
  IF hashToID[h] = id THEN [hashToID EXCEPT ![h] = NoBot] ELSE hashToID

(* Mutants of Rotate: the stale reverse entry stays; the rotated bot goes  *)
(* to the back of insertOrder; the new reverse entry is not installed.     *)
RotateKeepingOld(id, h) ==
  /\ idToHash[id] \notin {NoHash, h}
  /\ idToHash' = [idToHash EXCEPT ![id] = h]
  /\ hashToID' = [hashToID EXCEPT ![h] = id]
  /\ UNCHANGED insertOrder

RotateToBack(id, h) ==
  /\ idToHash[id] \notin {NoHash, h}
  /\ idToHash' = [idToHash EXCEPT ![id] = h]
  /\ hashToID' = [Unlinked(idToHash[id], id) EXCEPT ![h] = id]
  /\ insertOrder' = Append(SelectSeq(insertOrder, LAMBDA x : x # id), id)

RotateForwardOnly(id, h) ==
  /\ idToHash[id] \notin {NoHash, h}
  /\ idToHash' = [idToHash EXCEPT ![id] = h]
  /\ hashToID' = Unlinked(idToHash[id], id)
  /\ UNCHANGED insertOrder

(* A known bot answers getMe under another token: its token was rotated.   *)
Rotate(id, h) ==
  /\ idToHash[id] \notin {NoHash, h}
  /\ idToHash' = [idToHash EXCEPT ![id] = h]
  /\ hashToID' = [Unlinked(idToHash[id], id) EXCEPT ![h] = id]
  /\ UNCHANGED insertOrder

(* A bot answers getMe for the first time while there is room.             *)
Learn(id, h) ==
  /\ idToHash[id] = NoHash
  /\ ~(Size >= MaxEntries /\ insertOrder # <<>>)
  /\ idToHash' = [idToHash EXCEPT ![id] = h]
  /\ hashToID' = [hashToID EXCEPT ![h] = id]
  /\ insertOrder' = Append(insertOrder, id)

(* The same at capacity: the oldest registration makes room. When          *)
(* insertOrder's head is not in idToHash only the head is dropped.         *)
LearnEvicting(id, h) ==
  LET oldest == Head(insertOrder)
      old    == idToHash[oldest]
  IN /\ idToHash[id] = NoHash
     /\ Size >= MaxEntries /\ insertOrder # <<>>
     /\ idToHash' = [idToHash EXCEPT ![oldest] = NoHash, ![id] = h]
     /\ hashToID' = [(IF old = NoHash THEN hashToID ELSE Unlinked(old, oldest))
                        EXCEPT ![h] = id]
     /\ insertOrder' = Append(Tail(insertOrder), id)

(* Mutant of Register: an empty hash is not rejected.                      *)
RegisterEmptyHash(id, h) ==
  /\ id # NoBot
  /\ Rotate(id, h) \/ Learn(id, h) \/ LearnEvicting(id, h)

(* BotRegistry.Register. A zero id, an empty hash and a pair already known *)
(* return early and change nothing.                                        *)
Register(id, h) ==
  /\ id # NoBot /\ h # NoHash
  /\ Rotate(id, h) \/ Learn(id, h) \/ LearnEvicting(id, h)

Next == \E a \in Answers : Register(a[1], a[2])

Spec == NewBotRegistry /\ [][Next]_vars

-----------------------------------------------------------------------------

TypeOK ==
  /\ idToHash \in [BotID -> Hash \cup {NoHash}]
  /\ hashToID \in [Hash -> BotID \cup {NoBot}]
  /\ insertOrder \in Seq(BotID)

(* insertOrder holds each registered id once and nothing else: eviction    *)
(* always finds its victim and Snapshot returns no duplicate and no hole.  *)
OrderMatchesMap ==
  /\ \A i, j \in DOMAIN insertOrder : insertOrder[i] = insertOrder[j] => i = j
  /\ Known = {insertOrder[i] : i \in DOMAIN insertOrder}

(* The registry never holds more than maxEntries identities, however often *)
(* tokens rotate and ids are evicted and learned again.                    *)
Bounded == Len(insertOrder) <= MaxEntries

(* A reverse entry never outlives or contradicts the forward entry it came *)
(* from: if a hash leads to an id, that id is registered under that hash.  *)
ReverseSound ==
  \A h \in Hash : hashToID[h] # NoBot => idToHash[hashToID[h]] = h

(* No other bot is ever reported under hash h: what a bot token           *)
(* guarantees, since the token carries the id of its bot.                  *)
Exclusive(h) ==
  h # NoHash /\ \A a, b \in Answers : a[2] = h /\ b[2] = h => a[1] = b[1]

(* A bot registered under a hash of its own is found by that hash, through *)
(* every rotation and eviction of itself and of others, and whatever       *)
(* happens to the hashes that several bots are reported under.             *)
Bidirectional ==
  \A id \in BotID : Exclusive(idToHash[id]) => hashToID[idToHash[id]] = id

(* The abstract directory, its rows read off the registry.                 *)
Directory == INSTANCE BotDirectory WITH entries <- Listing

(* The registry implements the first-in-first-out directory: a rotation    *)
(* updates one row in place, a new bot goes last, and the only row ever    *)
(* dropped is the first.                                                   *)
ImplementsDirectory == Directory!Spec
=============================================================================
