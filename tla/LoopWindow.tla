----------------------------- MODULE LoopWindow -----------------------------
(***************************************************************************)
(* Loop detection (src/internal/capture/conversation.go): the operators of *)
(* detectLoop on a conversation's sliding window. They are pure; the       *)
(* window is kept by LoopDetector for one conversation and by              *)
(* CapturePipeline for all of them.                                        *)
(*                                                                         *)
(* A message is reduced to what detectLoop compares: its two ends, its     *)
(* text (NoText when empty) and its media identity (NoMedia when none).    *)
(***************************************************************************)
EXTENDS Selection, FiniteSetsExt

CONSTANTS
  LoopWindowSize,   (* maxWindow: how many entries the window keeps        *)
  LoopEntryTTL,     (* ttl: how long an entry stays comparable             *)
  NoText,           (* the empty text                                      *)
  NoMedia           (* no recognised media                                 *)

ASSUME LoopWindowAssumption ==
  /\ LoopWindowSize \in Nat \ {0}
  /\ LoopEntryTTL \in Nat \ {0}

NoContent == <<>>

(* loopContentKey: the text decides; media identity stands in for a        *)
(* missing text, tagged so that it never equals a text hash.               *)
loopContentKey(text, media) ==
  CASE text # NoText   -> <<"text", text>>
    [] text = NoText /\ media # NoMedia -> <<"media", media>>
    [] OTHER           -> NoContent

(* The tuple a window entry is compared by.                                *)
Signature(m) ==
  [from |-> m.from, to |-> m.to, contentKey |-> loopContentKey(m.text, m.media)]

(* Mutant of Unexpired: an entry exactly LoopEntryTTL old is kept.         *)
UnexpiredInclusive(window, now) ==
  Keep(window, {i \in DOMAIN window : window[i].seenAt >= now - LoopEntryTTL})

(* The entries detectLoop keeps at time now: filtered one by one, since    *)
(* seenAt need not grow along the window.                                  *)
Unexpired(window, now) ==
  Keep(window, {i \in DOMAIN window : window[i].seenAt > now - LoopEntryTTL})

(* Mutant of Matches: messages without content match each other.           *)
MatchesWithoutContent(window, sig) == {i \in DOMAIN window : window[i].sig = sig}

Matches(window, sig) ==
  {i \in DOMAIN window : window[i].sig = sig /\ sig.contentKey # NoContent}

(* How many steps back the closest repeat is, 0 when there is none.        *)
LoopDepth(window, sig) ==
  IF Matches(window, sig) = {} THEN 0
  ELSE Len(window) + 1 - Max(Matches(window, sig))

(* Mutant of Slide: the cap keeps one entry too many.                      *)
SlideOneMore(window, entry) ==
  LET w == Append(window, entry)
  IN SubSeq(w, Max({1, Len(w) - LoopWindowSize}), Len(w))

Slide(window, entry) ==
  LET w == Append(window, entry)
  IN SubSeq(w, Max({1, Len(w) - LoopWindowSize + 1}), Len(w))

(* The depth detectLoop returns for a message with signature sig at now.   *)
DetectedDepth(window, sig, now) == LoopDepth(Unexpired(window, now), sig)

(* The window it leaves behind.                                            *)
WindowAfter(window, sig, now) ==
  Slide(Unexpired(window, now), [sig |-> sig, seenAt |-> now])
=============================================================================
