------------------------------- MODULE BodyTap -------------------------------
(***************************************************************************)
(* The bounded body tap of the proxy (src/internal/proxy/proxy.go):        *)
(* tapBody, decodeCapturedBody and readBounded as operators.               *)
(*                                                                         *)
(* A body is reduced to what the tap can tell apart: how many units it     *)
(* yields, whether reading it then ends in an error instead of EOF, the    *)
(* first token of its Content-Encoding, the only one the code looks at,    *)
(* and whether the body is still encoded once that token is decoded, as    *)
(* with a list of several encodings. What a decompressor makes of a        *)
(* captured copy is an input.                                              *)
(***************************************************************************)
EXTENDS Integers

CONSTANT BodyCap     (* bodyCapBytes; 0 switches the tap off               *)

ASSUME BodyTapAssumption == BodyCap \in Nat

Encodings == {"identity", "compressed", "unsupported"}
Bodies    ==
  [size : Nat, fails : BOOLEAN, encoding : Encodings, layered : BOOLEAN]

(* What a decompressor yields: everything, more than the cap, some output  *)
(* and then an error, or an error at once.                                 *)
Inflations == {"clean", "overflow", "partial", "invalid"}

(* What the capture layer gets to parse.                                   *)
Contents == {"nothing", "whole", "prefix", "encoded"}

Stream(size, fails) == [size |-> size, fails |-> fails]

(* The error comes before the read of cap + 1 units is complete.           *)
ReadFails(b) == BodyCap > 0 /\ b.fails /\ b.size <= BodyCap

(* Mutant of Overflows: a body that fills the cap is taken for a longer    *)
(* one, as if the probe unit beyond the cap were not read.                 *)
OverflowsAtCap(b) == BodyCap > 0 /\ b.size >= BodyCap

(* The probe unit beyond the cap is there.                                 *)
Overflows(b) == BodyCap > 0 /\ b.size > BodyCap

(* The stream tapBody leaves for the next reader. After a failed read it   *)
(* is the original reader, whose units have been consumed.                 *)
Replacement(b) ==
  IF ReadFails(b) THEN Stream(0, TRUE) ELSE Stream(b.size, b.fails)

(* Mutant of CapturedSize: the probe unit is captured as well.             *)
CapturedSizeProbe(b) ==
  IF BodyCap = 0 \/ ReadFails(b) THEN 0
  ELSE IF Overflows(b) THEN BodyCap + 1 ELSE b.size

(* How many units tapBody captures.                                        *)
CapturedSize(b) ==
  IF BodyCap = 0 \/ ReadFails(b) THEN 0
  ELSE IF Overflows(b) THEN BodyCap ELSE b.size

(* What decodeCapturedBody hands to the parser: the bytes as they came     *)
(* when it cannot decode them, or not all the way; all of the content; or  *)
(* less than that, cut by the cap or by the end of a broken stream.        *)
Content(b, inflation) ==
  CASE CapturedSize(b) = 0 -> "nothing"
    [] CapturedSize(b) > 0 /\ (\/ b.layered \/ b.encoding = "unsupported"
                               \/ b.encoding = "compressed" /\ inflation = "invalid")
         -> "encoded"
    [] OTHER ->
         IF /\ CapturedSize(b) = b.size
            /\ b.encoding = "compressed" => inflation = "clean"
         THEN "whole" ELSE "prefix"

(* The truncated flag after tapBody and decodeCapturedBody.                *)
Truncated(b, inflation) ==
  \/ Overflows(b)
  \/ /\ CapturedSize(b) > 0
     /\ \/ b.encoding = "unsupported"
        \/ b.encoding = "compressed" /\ inflation # "clean"
=============================================================================
