--------------------------- MODULE MCLoopDetector ---------------------------
(***************************************************************************)
(* LoopDetector for TLC: a text in both directions, a media message of one *)
(* bot, and one with neither text nor media.                               *)
(***************************************************************************)
EXTENDS LoopDetector

CONSTANTS A, B, hello, photo

Messages ==
  { [from |-> A, to |-> B, text |-> hello,  media |-> NoMedia],
    [from |-> B, to |-> A, text |-> hello,  media |-> photo],
    [from |-> A, to |-> B, text |-> NoText, media |-> photo],
    [from |-> A, to |-> B, text |-> NoText, media |-> NoMedia] }
=============================================================================
