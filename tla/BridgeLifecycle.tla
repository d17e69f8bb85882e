--------------------------- MODULE BridgeLifecycle ---------------------------
(***************************************************************************)
(* The life of the two processes: the client launches the server, the two  *)
(* shake hands (Syn, Ack, Continue), the server serves commands, and either *)
(* side may leave, fail or vanish at any point.  Each process learns of    *)
(* the other's end through a callback the system runs on a thread of its   *)
(* own (OnServerExited, OnClientExited).                                   *)
(*                                                                         *)
(* A wait that can fail may do so at any moment its command is not there:  *)
(* the time limit and the retries are not counted.                         *)
(*                                                                         *)
(* This module has the state and the steps; PresentSync adds the presents  *)
(* and puts the two processes together.                                    *)
(***************************************************************************)
EXTENDS Integers, Sequences

CONSTANTS
  K,              \* commands the ring to the server holds
  Timeouts,       \* FALSE with the option disableTimeouts, which is the default
  FocusMayChange, \* the game's window may lose the keyboard focus
  ClientMayCrash,
  ServerMayHang   \* executing a command may take forever

ASSUME LifecycleAssumption ==
  /\ K \in Nat \ {0}
  /\ \A option \in {Timeouts, FocusMayChange, ClientMayCrash, ServerMayHang} :
       option \in BOOLEAN

VARIABLES
  \* the client process
  cpc,            \* where its main thread is
  clientState,    \* BridgeState: its own state ...
  serverState,    \* ... and its idea of the server's
  clientBridge,   \* its gbBridgeRunning
  infiniteRetries,
  serverWait,     \* the callback OnServerExited
  \* the server process
  spc,
  serverBridge,   \* its gbBridgeRunning
  clientWait,     \* the callback OnClientExited
  ghModule,       \* d3d9.dll is loaded
  \* the two command rings
  toServer, toClient,
  \* history
  sawTerminate    \* the server took a Terminate

cvars == <<cpc, clientState, serverState, clientBridge, infiniteRetries,
           serverWait>>
svars == <<spc, serverBridge, clientWait, ghModule>>
rings == <<toServer, toClient>>
vars == <<cvars, svars, rings, sawTerminate>>

ClientGone == cpc \in {"exited", "aborted", "crashed"}
ServerGone == spc = "exited"

LifeInit ==
  /\ cpc = "attached" /\ clientState = "Init" /\ serverState = "NotInit"
  /\ clientBridge = TRUE /\ serverWait = "none"
  /\ spc = "none" /\ serverBridge = TRUE /\ clientWait = "none"
  /\ ghModule = FALSE /\ infiniteRetries = FALSE
  /\ toServer = <<>> /\ toClient = <<>>
  /\ sawTerminate = FALSE

---------------------------------------------------------------------------
(* The client's main thread.                                               *)

(* Faulty: the exit callback is not registered. *)
InitServerUnwatched ==
  /\ cpc = "attached"
  /\ spc' = "waitSyn" /\ serverState' = "Init" /\ cpc' = "sendSyn"
  /\ UNCHANGED <<clientState, clientBridge, infiniteRetries, serverWait,
                 serverBridge, clientWait, ghModule, rings, sawTerminate>>

(* InitServer: start the process with its exit callback, send Syn.         *)
InitServer ==
  /\ cpc = "attached"
  /\ spc' = "waitSyn" /\ serverWait' = "armed"
  /\ serverState' = "Init"
  /\ cpc' = "sendSyn"
  /\ UNCHANGED <<infiniteRetries, clientState, clientBridge, serverBridge,
                 clientWait, ghModule, rings, sawTerminate>>

SendSyn ==
  /\ cpc = "sendSyn"
  /\ toServer' = IF clientBridge THEN Append(toServer, "Syn") ELSE toServer
  /\ clientState' = "Handshaking"
  /\ cpc' = "waitAck"
  /\ UNCHANGED <<serverState, clientBridge, infiniteRetries, serverWait,
                 svars, toClient, sawTerminate>>

TakeAck ==
  /\ cpc = "waitAck"
  /\ toClient # <<>>
  /\ toClient' = Tail(toClient)
  /\ serverState' = "Handshaking"
  /\ cpc' = "sendContinue"
  /\ UNCHANGED <<clientState, clientBridge, infiniteRetries, serverWait,
                 svars, toServer, sawTerminate>>

(* When the client gives up on a wait or a send: with unlimited retries    *)
(* only once the bridge is off, with unlimited time limits never.          *)
ClientGivesUp == Timeouts /\ (~infiniteRetries \/ ~clientBridge)

(* waitForCommand gave up: the game goes on without the bridge.            *)
NoAck ==
  /\ cpc = "waitAck"
  /\ toClient = <<>> /\ ClientGivesUp
  /\ serverState' = "DoneProcessing"
  /\ clientBridge' = FALSE
  /\ cpc' = "running"
  /\ UNCHANGED <<clientState, infiniteRetries, serverWait, svars, rings,
                 sawTerminate>>

SendContinue ==
  /\ cpc = "sendContinue"
  /\ toServer' = IF clientBridge THEN Append(toServer, "Continue") ELSE toServer
  /\ clientState' = "Running" /\ serverState' = "Running"
  /\ cpc' = "running"
  /\ UNCHANGED <<clientBridge, infiniteRetries, serverWait, svars, toClient,
                 sawTerminate>>

(* ~Command, with room in the ring.                                        *)
Sends(command) ==
  IF serverState \in {"DoneProcessing", "Exited"}
  THEN clientBridge' = FALSE /\ UNCHANGED toServer
  ELSE /\ Len(toServer) < K
       /\ toServer' = Append(toServer, command)
       /\ UNCHANGED clientBridge

(* ~Command, retries exhausted on a full ring.                             *)
SendFails ==
  /\ serverState \notin {"DoneProcessing", "Exited"}
  /\ Len(toServer) = K /\ ClientGivesUp
  /\ clientBridge' = FALSE
  /\ UNCHANGED toServer

SendCommand(command) ==
  /\ cpc = "running" /\ clientBridge
  /\ Sends(command) \/ SendFails
  /\ UNCHANGED <<cpc, clientState, serverState, infiniteRetries, serverWait,
                 svars, toClient, sawTerminate>>

(* Faulty: detach without marking the state or unregistering first. *)
BeginDetachAtOnce ==
  /\ cpc = "running"
  /\ cpc' = "terminate"
  /\ UNCHANGED <<clientState, serverState, clientBridge, infiniteRetries,
                 serverWait, svars, rings, sawTerminate>>

(* RemixDetach, when the game is done: mark the state, ...                 *)
BeginDetach ==
  /\ cpc = "running"
  /\ clientState' = "DoneProcessing"
  /\ cpc' = "unregister"
  /\ UNCHANGED <<serverState, clientBridge, infiniteRetries, serverWait,
                 svars, rings, sawTerminate>>

(* ... unregister the callback, waiting for one that is running, ...       *)
UnregisterExitCallback ==
  /\ cpc = "unregister"
  /\ serverWait # "running"
  /\ serverWait' = "removed"
  /\ cpc' = "terminate"
  /\ UNCHANGED <<infiniteRetries, clientState, serverState, clientBridge,
                 svars, rings, sawTerminate>>

(* ... send Terminate, ...                                                 *)
SendTerminate ==
  /\ cpc = "terminate"
  /\ IF clientBridge
     THEN Sends("Terminate") \/ SendFails
     ELSE UNCHANGED <<toServer, clientBridge>>
  /\ cpc' = "waitClean"
  /\ UNCHANGED <<clientState, serverState, infiniteRetries, serverWait, svars,
                 toClient, sawTerminate>>

(* ... wait for an Ack, ...                                                *)
CleanAck ==
  /\ cpc = "waitClean"
  /\ toClient # <<>>
  /\ toClient' = Tail(toClient)
  /\ cpc' = "release"
  /\ UNCHANGED <<clientState, serverState, clientBridge, infiniteRetries,
                 serverWait, svars, toServer, sawTerminate>>

(* Faulty: wait for the Ack as long as the bridge is up. *)
NoCleanAckPatient ==
  /\ cpc = "waitClean"
  /\ toClient = <<>> /\ ~clientBridge
  /\ cpc' = "release"
  /\ UNCHANGED <<clientState, serverState, clientBridge, infiniteRetries,
                 serverWait, svars, rings, sawTerminate>>

NoCleanAck ==
  /\ cpc = "waitClean"
  /\ toClient = <<>> /\ ClientGivesUp
  /\ cpc' = "release"
  /\ UNCHANGED <<clientState, serverState, clientBridge, infiniteRetries,
                 serverWait, svars, rings, sawTerminate>>

(* ... and release the process: wait for its end, then kill it.            *)
ReleaseChildProcess ==
  /\ cpc = "release"
  /\ serverWait' = "freed"
  /\ spc' = "exited"
  /\ clientState' = "Exited"
  /\ cpc' = "exited"
  /\ UNCHANGED <<infiniteRetries, serverState, clientBridge, serverBridge,
                 clientWait, ghModule, rings, sawTerminate>>

ClientCrashes ==
  /\ ClientMayCrash
  /\ ~ClientGone
  /\ cpc' = "crashed"
  /\ UNCHANGED <<clientState, serverState, clientBridge, infiniteRetries,
                 serverWait, svars, rings, sawTerminate>>

---------------------------------------------------------------------------
(* OnServerExited, on a thread of the client's.                            *)

ServerExitSeen ==
  /\ ServerGone /\ ~ClientGone
  /\ serverWait = "armed"
  /\ serverWait' = "running"
  /\ serverState' = "Exited"
  /\ clientBridge' = FALSE
  /\ UNCHANGED <<infiniteRetries, cpc, clientState, svars, rings,
                 sawTerminate>>

(* Abort, unless the client is leaving anyway.                             *)
ServerExitHandled ==
  /\ serverWait = "running" /\ ~ClientGone
  /\ IF clientState # "DoneProcessing"
     THEN cpc' = "aborted" /\ UNCHANGED serverWait
     ELSE serverWait' = "done" /\ UNCHANGED cpc
  /\ UNCHANGED <<infiniteRetries, clientState, serverState, clientBridge,
                 svars, rings, sawTerminate>>

---------------------------------------------------------------------------
(* The server's main thread: wWinMain.                                     *)

ServerUnchanged == UNCHANGED <<cvars, sawTerminate>>

TakeSyn ==
  /\ spc = "waitSyn"
  /\ toServer # <<>> /\ Head(toServer) = "Syn"
  /\ toServer' = Tail(toServer)
  /\ clientWait' = "armed"
  /\ spc' = "initialize"
  /\ UNCHANGED <<serverBridge, ghModule, toClient>>
  /\ ServerUnchanged

(* When the server gives up on a wait.  Its retries are always unlimited:  *)
(* getInfiniteRetries returns true in the server.  So it never gives up on *)
(* the Syn, before which nothing can turn its bridge off.                  *)
ServerGivesUp == Timeouts /\ ~serverBridge

(* InitializeD3D loads the module; a failure after that ends the process.  *)
InitializeD3D ==
  /\ spc = "initialize"
  /\ ghModule' \in BOOLEAN
  /\ spc' \in IF ghModule' THEN {"sendAck", "exited"} ELSE {"exited"}
  /\ UNCHANGED <<serverBridge, clientWait, rings>>
  /\ ServerUnchanged

SendAck ==
  /\ spc = "sendAck"
  /\ toClient' = IF serverBridge THEN Append(toClient, "HandshakeAck") ELSE toClient
  /\ spc' = "waitContinue"
  /\ UNCHANGED <<serverBridge, clientWait, ghModule, toServer>>
  /\ ServerUnchanged

TakeContinue ==
  /\ spc = "waitContinue"
  /\ toServer # <<>> /\ Head(toServer) = "Continue"
  /\ toServer' = Tail(toServer)
  /\ spc' = "serving"
  /\ UNCHANGED <<serverBridge, clientWait, ghModule, toClient>>
  /\ ServerUnchanged

NoContinue ==
  /\ spc = "waitContinue"
  /\ toServer = <<>> /\ ServerGivesUp
  /\ spc' = "exited"
  /\ UNCHANGED <<serverBridge, clientWait, ghModule, rings>>
  /\ ServerUnchanged

(* One turn of ProcessDeviceCommandQueue.  A queued command is taken even  *)
(* when the bridge is off.                                                 *)
Serve(command) ==
  /\ spc = "serving"
  /\ toServer # <<>> /\ Head(toServer) = command
  /\ toServer' = Tail(toServer)
  /\ IF command = "Terminate"
     THEN spc' = "cleanUp" /\ sawTerminate' = TRUE
     ELSE spc' \in {"serving", "hung"} /\ UNCHANGED sawTerminate
  /\ spc' = "hung" => ServerMayHang
  /\ UNCHANGED <<cvars, serverBridge, clientWait, ghModule, toClient>>

NoCommand ==
  /\ spc = "serving"
  /\ toServer = <<>> /\ ServerGivesUp
  /\ spc' = "cleanUp"
  /\ UNCHANGED <<serverBridge, clientWait, ghModule, rings>>
  /\ ServerUnchanged

CleanUp ==
  /\ spc = "cleanUp"
  /\ ghModule' = FALSE
  /\ spc' = "unregister"
  /\ UNCHANGED <<serverBridge, clientWait, rings>>
  /\ ServerUnchanged

(* UnregisterWaitEx waits for a callback that is running.                  *)
UnregisterWait ==
  /\ spc = "unregister"
  /\ clientWait # "running"
  /\ clientWait' = "removed"
  /\ spc' = "sendCleanAck"
  /\ UNCHANGED <<serverBridge, ghModule, rings>>
  /\ ServerUnchanged

SendCleanAck ==
  /\ spc = "sendCleanAck"
  /\ toClient' = IF serverBridge THEN Append(toClient, "CleanAck") ELSE toClient
  /\ spc' = "exited"
  /\ UNCHANGED <<serverBridge, clientWait, ghModule, toServer>>
  /\ ServerUnchanged

---------------------------------------------------------------------------
(* OnClientExited, on a thread of the server's, and the client's window.   *)

ClientExitSeen ==
  /\ ClientGone /\ ~ServerGone
  /\ clientWait = "armed"
  /\ clientWait' = "running"
  /\ serverBridge' = FALSE
  /\ UNCHANGED <<spc, ghModule, rings>>
  /\ ServerUnchanged

(* The main thread has unloaded the module, or never loaded it, ...        *)
ClientExitHandled ==
  /\ clientWait = "running" /\ ~ServerGone
  /\ ~ghModule
  /\ clientWait' = "done"
  /\ UNCHANGED <<spc, serverBridge, ghModule, rings>>
  /\ ServerUnchanged

(* Faulty: the callback returns when the retries are exhausted. *)
ForceQuitNever ==
  /\ clientWait = "running" /\ ~ServerGone
  /\ ghModule
  /\ clientWait' = "done"
  /\ UNCHANGED <<spc, serverBridge, ghModule, rings>>
  /\ ServerUnchanged

(* ... or shutdownRetries have passed: TerminateProcess.                   *)
ForceQuit ==
  /\ clientWait = "running" /\ ~ServerGone
  /\ ghModule
  /\ spc' = "exited"
  /\ UNCHANGED <<serverBridge, clientWait, ghModule, rings>>
  /\ ServerUnchanged

(* WM_KILLFOCUS and WM_SETFOCUS, handled once the client has the Ack and   *)
(* as long as the game handles messages.                                   *)
FocusChanges ==
  /\ FocusMayChange
  /\ cpc = "running" /\ serverState = "Running"
  /\ infiniteRetries' = ~infiniteRetries
  /\ UNCHANGED <<cpc, clientState, serverState, clientBridge, serverWait,
                 svars, rings, sawTerminate>>

---------------------------------------------------------------------------

Detach == UnregisterExitCallback \/ SendTerminate \/ CleanAck \/ NoCleanAck
          \/ ReleaseChildProcess
Client == InitServer \/ SendSyn \/ TakeAck \/ NoAck \/ SendContinue
          \/ SendCommand("Command") \/ BeginDetach \/ Detach
Server == TakeSyn \/ InitializeD3D \/ SendAck \/ TakeContinue
          \/ NoContinue \/ Serve("Command") \/ Serve("Terminate") \/ NoCommand \/ CleanUp \/ UnregisterWait
          \/ SendCleanAck

Callbacks == ServerExitSeen \/ ServerExitHandled
             \/ ClientExitSeen \/ ClientExitHandled \/ ForceQuit

---------------------------------------------------------------------------

(* Types, and no more than two commands in the ring to the client.         *)
LifeTypeOK ==
  /\ cpc \in {"attached", "sendSyn", "waitAck", "sendContinue", "running",
             "unregister", "terminate", "waitClean", "release",
             "exited", "aborted", "crashed"}
  /\ clientState \in {"Init", "Handshaking", "Running", "DoneProcessing", "Exited"}
  /\ serverState \in {"NotInit", "Init", "Handshaking", "Running",
                     "DoneProcessing", "Exited"}
  /\ serverWait \in {"none", "armed", "running", "done", "removed", "freed"}
  /\ clientWait \in {"none", "armed", "running", "done", "removed"}
  /\ spc \in {"none", "waitSyn", "initialize", "sendAck", "waitContinue",
             "serving", "hung", "cleanUp", "unregister", "sendCleanAck", "exited"}
  /\ \A flag \in {clientBridge, serverBridge, ghModule, infiniteRetries,
                  sawTerminate} : flag \in BOOLEAN
  /\ Len(toServer) <= K /\ Len(toClient) <= 2

(* A client that told the server to terminate is never aborted by the      *)
(* callback for the server's end.                                          *)
NoSpuriousAbort == cpc = "aborted" => ~sawTerminate

(* No server is left behind that has taken the client's Syn, whatever it   *)
(* was doing when the client went.                                         *)
ServerGoneAfterClient ==
  (ClientGone /\ spc \notin {"none", "waitSyn"}) ~> ServerGone

(* A game never goes on with the bridge to a dead server up: it leaves,    *)
(* or it is aborted.                                                       *)
ServerLossNoticed == (ServerGone /\ cpc = "running") ~> (cpc # "running")

(* RemixDetach returns, with the server serving, hung, or dead ("Timeout   *)
(* waiting for clean server termination. Moving ahead anyway."), if the    *)
(* game had the focus when it began: without it the retries are unlimited, *)
(* and a hung server keeps the game in RemixDetach.                        *)
DetachCompletes == (cpc = "unregister" /\ ~infiniteRetries) ~> ClientGone
==============================================================================
