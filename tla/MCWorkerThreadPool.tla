------------------------- MODULE MCWorkerThreadPool -------------------------
(***************************************************************************)
(* The instance of WorkerThreadPool: two workers whose rings hold one task *)
(* each, and five tasks for four slots, so that the slots are lapped.      *)
(***************************************************************************)
EXTENDS WorkerThreadPool

\* The pools of the program: geometry processing steals and spins, the ray tracing
\* pipelines steal and sleep, and the asset exporter only sleeps.
MCModes == [workStealing : {TRUE}, lowLatency : BOOLEAN]
           \cup {[workStealing |-> FALSE, lowLatency |-> FALSE]}
==============================================================================
