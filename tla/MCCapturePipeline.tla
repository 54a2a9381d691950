-------------------------- MODULE MCCapturePipeline --------------------------
(***************************************************************************)
(* CapturePipeline for TLC. In every conversation bot A repeats one text   *)
(* to bot B, which the detector reports.                                   *)
(***************************************************************************)
EXTENDS CapturePipeline

CONSTANTS A, B, hello

Hellos == {[key |-> k, from |-> A, to |-> B, text |-> hello, media |-> NoMedia] : k \in Key}
=============================================================================
