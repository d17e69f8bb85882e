------------------------ MODULE MCAtomicCircularQueue ------------------------
(***************************************************************************)
(* Instances of AtomicCircularQueue for TLC.  The headers are model values *)
(* so that two equal headers in flight and two different ones both occur;  *)
(* the state space is finite without any bound on the number of pushes.    *)
(***************************************************************************)
EXTENDS AtomicCircularQueue
==============================================================================
