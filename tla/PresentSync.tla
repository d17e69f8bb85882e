----------------------------- MODULE PresentSync -----------------------------
(***************************************************************************)
(* How far the game may run ahead of the server, on top of the life of the *)
(* two processes (BridgeLifecycle): after sending each Present command the *)
(* client takes a token from the "Present" semaphore, and the server       *)
(* returns one after each Present it has executed                          *)
(* (Direct3DSwapChain9_LSS::Present, syncOnPresent, the Present cases of   *)
(* ProcessDeviceCommandQueue).                                             *)
(*                                                                         *)
(* The semaphore is the kernel object that util_semaphore wraps: whoever   *)
(* creates it first decides its initial count, and releasing it at its     *)
(* maximum does nothing.                                                   *)
(***************************************************************************)
EXTENDS BridgeLifecycle, FiniteSets

CONSTANTS
  MaxFrames,   \* presentSemaphoreMaxFrames, the semaphore's maximum count
  MaxRetries   \* commandRetries

ASSUME PresentAssumption == MaxFrames \in Nat \ {0} /\ MaxRetries \in Nat

VARIABLES
  sem,          \* the semaphore's count
  waiting,      \* the client's main thread is in syncOnPresent
  numRetries,
  unlimited,    \* syncOnPresent read maxRetries as INFINITE
  presented,    \* the server took a Present it has not answered
  owed          \* history: time-outs less releases that did nothing, since
                \* the server last had no Present left

pvars == <<sem, waiting, numRetries, unlimited, presented, owed>>
allVars == <<vars, pvars>>

(* RemixAttach, before it starts the server, makes the semaphore without a  *)
(* token; the server's own initial count then means nothing.               *)
Init ==
  /\ LifeInit
  /\ sem = 0 /\ waiting = FALSE /\ numRetries = 0 /\ unlimited = FALSE
  /\ presented = FALSE /\ owed = 0

---------------------------------------------------------------------------

(* Present: send the command first, then enter syncOnPresent, whether the  *)
(* command went out or not.                                                *)
SendPresent ==
  /\ ~waiting
  /\ SendCommand("Present")
  /\ waiting' = TRUE /\ numRetries' = 0 /\ unlimited' = infiniteRetries
  /\ UNCHANGED <<sem, presented, owed>>

InSync == waiting /\ ~ClientGone

(* Faulty: the token is seen but not taken. *)
WaitPeeks ==
  /\ InSync /\ clientBridge
  /\ sem > 0
  /\ waiting' = FALSE
  /\ UNCHANGED <<vars, sem, numRetries, unlimited, presented, owed>>

(* The token arrives.                                                      *)
WaitSucceeds ==
  /\ InSync /\ clientBridge
  /\ sem > 0
  /\ sem' = sem - 1
  /\ waiting' = FALSE
  /\ UNCHANGED <<vars, numRetries, unlimited, presented, owed>>

(* One wait timed out; numRetries++ < maxRetries.                          *)
WaitTimesOut ==
  /\ Timeouts /\ ~unlimited
  /\ InSync /\ clientBridge
  /\ sem = 0
  /\ numRetries' = numRetries + 1
  /\ waiting' = (numRetries < MaxRetries)
  /\ owed' = IF numRetries < MaxRetries THEN owed ELSE owed + 1
  /\ UNCHANGED <<vars, sem, unlimited, presented>>

(* Faulty: the loop goes on while the bridge is down. *)
WaitIgnoresBridge ==
  /\ InSync /\ ~clientBridge
  /\ sem > 0
  /\ waiting' = FALSE
  /\ UNCHANGED <<vars, sem, numRetries, unlimited, presented, owed>>

(* The bridge went down before or while waiting.                           *)
WaitAborts ==
  /\ InSync /\ ~clientBridge
  /\ waiting' = FALSE
  /\ UNCHANGED <<vars, sem, numRetries, unlimited, presented, owed>>

---------------------------------------------------------------------------

(* The server executes a Present, ...                                      *)
ServerPresents ==
  /\ ~presented
  /\ Serve("Present")
  /\ presented' = TRUE
  /\ UNCHANGED <<sem, waiting, numRetries, unlimited, owed>>

PresentsIn(commands) == Cardinality({ i \in DOMAIN commands : commands[i] = "Present" })

Presents == PresentsIn(toServer)

(* Faulty: no token for a Present that failed. *)
ReleasesOnSuccess ==
  /\ spc = "serving" /\ presented
  /\ sem' \in {sem, IF sem < MaxFrames THEN sem + 1 ELSE sem}
  /\ owed' = IF Presents = 0 THEN 0 ELSE IF sem < MaxFrames THEN owed ELSE owed - 1
  /\ presented' = FALSE
  /\ UNCHANGED <<vars, waiting, numRetries, unlimited>>

(* ... and whether or not D3D reports success, gpPresent->release().       *)
ServerReleases ==
  /\ spc = "serving" /\ presented
  /\ sem' = IF sem < MaxFrames THEN sem + 1 ELSE sem
  /\ owed' = IF Presents = 0 THEN 0 ELSE IF sem < MaxFrames THEN owed ELSE owed - 1
  /\ presented' = FALSE
  /\ UNCHANGED <<vars, waiting, numRetries, unlimited>>

---------------------------------------------------------------------------
(* Both processes.  The client's main thread does nothing else inside      *)
(* Present, and the server's nothing else before it has released.          *)

Alone(step) == step /\ UNCHANGED pvars

SyncOnPresent == WaitSucceeds \/ WaitTimesOut \/ WaitAborts
ServerLoop ==
  \/ ~presented /\ Alone(Server)
  \/ ServerPresents \/ ServerReleases

Next ==
  \/ ~waiting /\ Alone(Client)
  \/ SendPresent \/ SyncOnPresent \/ ServerLoop
  \/ Alone(ClientCrashes) \/ Alone(Callbacks) \/ Alone(FocusChanges)

Spec == Init /\ [][Next]_allVars

(* Threads run, waits time out, and the system runs the callbacks.  The    *)
(* application need not call anything.                                     *)
FairSpec ==
  /\ Spec
  /\ WF_allVars(ServerLoop) /\ WF_allVars(Alone(Detach))
  /\ WF_allVars(WaitSucceeds) /\ WF_allVars(WaitTimesOut) /\ WF_allVars(WaitAborts)
  /\ WF_allVars(Alone(ServerExitSeen)) /\ WF_allVars(Alone(ServerExitHandled))
  /\ WF_allVars(Alone(ClientExitSeen)) /\ WF_allVars(Alone(ClientExitHandled))
  /\ WF_allVars(Alone(ForceQuit))

---------------------------------------------------------------------------

(* Types; the count stays within the semaphore's maximum.                  *)
TypeOK ==
  /\ LifeTypeOK
  /\ sem \in 0 .. MaxFrames
  /\ \A flag \in {waiting, unlimited, presented} : flag \in BOOLEAN
  /\ numRetries \in 0 .. MaxRetries + 1
  /\ owed \in -1 .. MaxFrames + K + 2

(* Frames the client has sent and the server has not answered.             *)
Lead == Presents + (IF presented THEN 1 ELSE 0)
Waiting == IF waiting THEN 1 ELSE 0

(* The client is never further ahead than the semaphore allows, plus the   *)
(* frame it is waiting for and the frames whose wait timed out.            *)
LeadBounded == clientBridge => Lead <= MaxFrames + Waiting + owed

(* No token gets lost: a client still waiting when the server has answered *)
(* every Present finds the semaphore raised, after time-outs and releases  *)
(* at the maximum count as well.                                           *)
TokenArrives == waiting /\ clientBridge /\ Lead = 0 => sem > 0

(* A Present that waits returns, with the server alive, dead, or dead and  *)
(* not yet noticed, unless the game is gone, or waits without limit for a  *)
(* server that hangs.                                                      *)
PresentCompletes ==
  waiting ~> (~waiting \/ ClientGone \/ (unlimited /\ spc = "hung"))
==============================================================================
