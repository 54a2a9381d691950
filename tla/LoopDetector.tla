---------------------------- MODULE LoopDetector ----------------------------
(***************************************************************************)
(* One conversation under Conversation.detectLoop. The detector sees only  *)
(* its window; log remembers every message it was ever shown, and the      *)
(* properties judge the reported depth against that log.                   *)
(***************************************************************************)
EXTENDS LoopWindow

CONSTANTS
  Message,    (* messages shown to the detector: [from, to, text, media]   *)
  MaxSkew,    (* how far a timestamp may lie behind the newest one         *)
  MaxTime,    (* bound: the last timestamp                                 *)
  MaxLog      (* bound: how many messages are shown                        *)

VARIABLES
  window,     (* c.loopWindow                                              *)
  depth,      (* the depth detectLoop returned last                        *)
  log         (* history: every entry ever appended                        *)

vars == <<window, depth, log>>

Newest == Max({1} \cup {log[i].seenAt : i \in DOMAIN log})

Init ==
  /\ window = <<>>
  /\ depth = 0
  /\ log = <<>>

detectLoop(m, now) ==
  LET sig == Signature(m)
  IN /\ depth' = DetectedDepth(window, sig, now)
     /\ window' = WindowAfter(window, sig, now)
     /\ log' = Append(log, [sig |-> sig, seenAt |-> now])

(* The next message, unless the bound on the log is reached.               *)
Observe ==
  /\ Len(log) < MaxLog
  /\ \E m \in Message, now \in (Newest - MaxSkew)..MaxTime :
       now > 0 /\ detectLoop(m, now)

BoundReached == Len(log) = MaxLog /\ UNCHANGED vars

Next == Observe \/ BoundReached

Spec == Init /\ [][Next]_vars

-----------------------------------------------------------------------------

TypeOK ==
  /\ depth \in 0..LoopWindowSize
  /\ Len(window) \in 0..LoopWindowSize
  /\ \A i \in DOMAIN window : window[i] \in {log[j] : j \in DOMAIN log}

(* Earlier messages of the log that repeat its last one, still within the  *)
(* entry TTL of it.                                                        *)
Repeats ==
  LET n == Len(log)
  IN {i \in 1..(n - 1) :
        /\ log[i].sig = log[n].sig
        /\ log[n].sig.contentKey # NoContent
        /\ log[i].seenAt > log[n].seenAt - LoopEntryTTL}

(* A reported loop is real: an earlier message with the same ends and the  *)
(* same content, not expired, lies at least that many steps back. Expired  *)
(* entries between the two are not counted, so the depth may understate    *)
(* the distance when timestamps arrive out of order, never overstate it.   *)
DepthSound ==
  log # <<>> /\ depth > 0 => \E i \in Repeats : Len(log) - i >= depth

(* While timestamps have not run backwards the detector is exact: it       *)
(* reports the distance to the closest unexpired repeat among the          *)
(* LoopWindowSize messages before it, and nothing when there is none,      *)
(* although it has forgotten all the rest of the log.                      *)
DepthExact ==
  LET ordered == \A i \in 2..Len(log) : log[i - 1].seenAt <= log[i].seenAt
      near == {i \in Repeats : Len(log) - i <= LoopWindowSize}
  IN log # <<>> /\ ordered =>
       depth = IF near = {} THEN 0 ELSE Len(log) - Max(near)
=============================================================================
