---------------------------- MODULE MCResolution ----------------------------
(***************************************************************************)
(* Resolution for TLC: getMe answers report any bot under any hash.        *)
(***************************************************************************)
EXTENDS Resolution

AllAnswers == BotID \X Hash
=============================================================================
