------------------------- MODULE MCDxvkSubmissionQueue -------------------------
(***************************************************************************)
(* Instances of DxvkSubmissionQueue: with a limit of one queued list,      *)
(* three lists make both callers wait for room.                            *)
(***************************************************************************)
EXTENDS DxvkSubmissionQueue
===============================================================================
