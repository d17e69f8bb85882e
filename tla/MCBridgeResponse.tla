--------------------------- MODULE MCBridgeResponse ---------------------------
(***************************************************************************)
(* Instances of BridgeResponse: two threads, of which one takes a response *)
(* even after a failed wait, and up to four commands, so that a call of    *)
(* each can be abandoned before another one is made.                       *)
(***************************************************************************)
EXTENDS BridgeResponse
==============================================================================
