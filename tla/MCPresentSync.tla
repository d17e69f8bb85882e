---------------------------- MODULE MCPresentSync ----------------------------
(***************************************************************************)
(* The instance of PresentSync: a command ring of four slots and two       *)
(* frames instead of the default three, which suffices to tell "at the     *)
(* maximum" from "one" and "none"; one retry before a wait gives up.       *)
(***************************************************************************)
EXTENDS PresentSync
==============================================================================
