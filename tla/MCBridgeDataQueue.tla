-------------------------- MODULE MCBridgeDataQueue --------------------------
(***************************************************************************)
(* Instances of BridgeDataQueue.  Arguments: one word (send_data), an      *)
(* object of one word, and an object of two.                               *)
(***************************************************************************)
EXTENDS BridgeDataQueue

Words(n) == [kind |-> "words", n |-> n]
Object(n) == [kind |-> "object", n |-> n]

ItemsObject == {Words(1), Object(1), Object(2)}
ItemsLarge == {Words(1), Object(2)}
==============================================================================
