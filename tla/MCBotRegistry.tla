--------------------------- MODULE MCBotRegistry ---------------------------
(***************************************************************************)
(* BotRegistry for TLC. Every bot may be reported under the shared hashes, *)
(* and under a hash of its own: it can rotate away from it and back. The   *)
(* empty values are reported too.                                          *)
(***************************************************************************)
EXTENDS BotRegistry

CONSTANT Shared   (* hashes several bots are reported under                *)

MCHash    == Shared \cup {<<id>> : id \in BotID}
MCAnswers == { a \in (BotID \cup {NoBot}) \X (MCHash \cup {NoHash}) :
                 a[2] \in Shared \cup {NoHash, <<a[1]>>} }
=============================================================================
