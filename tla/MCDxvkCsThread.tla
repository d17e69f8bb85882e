---------------------------- MODULE MCDxvkCsThread ----------------------------
(***************************************************************************)
(* The instance of DxvkCsThread: chunks of two commands, so that a chunk   *)
(* may be empty, half full or full, and two callers.                       *)
(***************************************************************************)
EXTENDS DxvkCsThread
===============================================================================
