-------------------------- MODULE PresentSyncProofs --------------------------
(***************************************************************************)
(* Proofs about the two processes and their frames (PresentSync).          *)
(*                                                                         *)
(* Frames is why the client's lead is bounded: tokens and unanswered       *)
(* frames together balance the frame the client waits for and what it owes,*)
(* and since a release can do nothing only at the maximum of the semaphore,*)
(* the two sides never differ by more than that maximum.                   *)
(***************************************************************************)
EXTENDS PresentSync, SequenceTheorems, FiniteSetTheorems, TLAPS

Commands == {"Syn", "Continue", "Command", "Terminate", "Present"}
Answers == {"HandshakeAck", "CleanAck"}

\* The rings, from the handshake on: the client sends Continue after the server
\* has taken its Syn, and the server answers twice at most.
Rings ==
  /\ toServer \in Seq(Commands) /\ toClient \in Seq(Answers)
  /\ cpc \in {"attached", "sendSyn"} => toServer = <<>>
  /\ (cpc = "attached" => spc = "none") /\ (cpc = "sendSyn" => spc = "waitSyn")
  /\ spc \in {"none", "waitSyn", "initialize", "sendAck"} => toClient = <<>>
  /\ spc \in {"waitContinue", "serving", "hung", "cleanUp", "unregister", "sendCleanAck"}
       => Len(toClient) <= 1
  /\ cpc = "waitAck" => Len(toServer) <= 1
  /\ cpc \in {"waitAck", "sendContinue"} /\ spc \notin {"none", "waitSyn"} => toServer = <<>>
  /\ cpc = "sendContinue" => spc \notin {"none", "waitSyn"}
  /\ clientWait = "running" => ClientGone

\* The client told the server to go, or is about to
Told == sawTerminate \/ \E i \in DOMAIN toServer : toServer[i] = "Terminate"

\* Terminate is sent after the callback for the server's end was unregistered,
\* and only that callback, once it runs, aborts the game.
Leaving ==
  /\ Told => cpc \in {"waitClean", "release", "exited", "crashed"}
             /\ serverWait \in {"removed", "freed"}
  /\ cpc = "terminate" => serverWait = "removed"
  /\ cpc = "waitClean" => serverWait = "removed"
  /\ cpc = "aborted" => serverWait = "running"

\* s tokens and the frames not answered against what is owed and waited for
Balanced(s, n, p, w, o, up) ==
  LET lead == n + (IF p THEN 1 ELSE 0)
      wait == IF w THEN 1 ELSE 0
  IN /\ 0 <= o /\ o <= s + lead /\ s + lead <= o + MaxFrames + 1
     /\ up => o + wait <= s + lead /\ s + lead <= o + wait + MaxFrames

Frames == Balanced(sem, Presents, presented, waiting, owed, clientBridge)

\* What the two processes keep, whatever the frames
LifeInv == LifeTypeOK /\ Rings /\ Leaving

IInv ==
  /\ LifeInv /\ TypeOK /\ Frames
  /\ waiting => numRetries <= MaxRetries
-----------------------------------------------------------------------------
(* The Presents in a ring *)

LEMMA PresentsType ==
  ASSUME NEW q \in Seq(Commands)
  PROVE  PresentsIn(q) \in Nat /\ PresentsIn(q) <= Len(q)
<1> DEFINE P == { i \in DOMAIN q : q[i] = "Present" }
<1>1. DOMAIN q = 1 .. Len(q) /\ Len(q) \in Nat
  OBVIOUS
<1>2. IsFiniteSet(1 .. Len(q)) /\ Cardinality(1 .. Len(q)) = Len(q)
  <2>1. 1 \in Int /\ Len(q) \in Int
    BY <1>1
  <2>2. /\ IsFiniteSet(1 .. Len(q))
        /\ Cardinality(1 .. Len(q)) = IF 1 > Len(q) THEN 0 ELSE Len(q) - 1 + 1
    BY <2>1, FS_Interval, Zenon
  <2>3. (IF 1 > Len(q) THEN 0 ELSE Len(q) - 1 + 1) = Len(q)
    BY <1>1
  <2> QED
    BY <2>2, <2>3
<1>3. P \subseteq 1 .. Len(q)
  BY <1>1
<1>4. IsFiniteSet(P) /\ Cardinality(P) <= Cardinality(1 .. Len(q))
  BY <1>2, <1>3, FS_Subset
<1> QED
  BY <1>2, <1>4, FS_CardinalityType DEF PresentsIn

LEMMA PresentsAppend ==
  ASSUME NEW q \in Seq(Commands), NEW c \in Commands
  PROVE  PresentsIn(Append(q, c)) = PresentsIn(q) + (IF c = "Present" THEN 1 ELSE 0)
<1> DEFINE P == { i \in DOMAIN q : q[i] = "Present" }
           A == { i \in DOMAIN Append(q, c) : Append(q, c)[i] = "Present" }
<1>1. DOMAIN q = 1 .. Len(q) /\ Len(q) \in Nat
  OBVIOUS
<1>2. IsFiniteSet(P)
  <2>1. IsFiniteSet(1 .. Len(q))
    BY <1>1, FS_Interval
  <2> QED
    BY <2>1, <1>1, FS_Subset
<1>3. Cardinality(P) \in Nat
  BY <1>2, FS_CardinalityType
<1>4. CASE c = "Present"
  <2>1. A = P \cup {Len(q) + 1} /\ Len(q) + 1 \notin P
    BY <1>1, <1>4
  <2>2. Cardinality(A) = Cardinality(P) + 1
    BY <2>1, <1>2, FS_AddElement
  <2> QED
    BY <2>2, <1>4 DEF PresentsIn
<1>5. CASE c # "Present"
  <2>1. A = P
    BY <1>1, <1>5
  <2>2. PresentsIn(Append(q, c)) = PresentsIn(q) /\ PresentsIn(q) \in Nat
    BY <2>1, <1>3 DEF PresentsIn
  <2> QED
    BY <2>2, <1>5
<1> QED
  BY <1>4, <1>5

LEMMA PresentsTail ==
  ASSUME NEW q \in Seq(Commands), q # <<>>
  PROVE  PresentsIn(q) = PresentsIn(Tail(q)) + (IF Head(q) = "Present" THEN 1 ELSE 0)
<1> DEFINE P == { i \in DOMAIN q : q[i] = "Present" }
           R == { i \in DOMAIN q : i > 1 /\ q[i] = "Present" }
           T == { i \in DOMAIN Tail(q) : Tail(q)[i] = "Present" }
           Shift == [i \in T |-> i + 1]
<1>1. DOMAIN q = 1 .. Len(q) /\ Len(q) \in Nat \ {0} /\ Head(q) = q[1]
  OBVIOUS
<1>2. /\ DOMAIN Tail(q) = 1 .. Len(q) - 1
      /\ \A i \in 1 .. Len(q) - 1 : Tail(q)[i] = q[i + 1]
  BY <1>1
<1>3. IsFiniteSet(R) /\ IsFiniteSet(T)
  <2>1. IsFiniteSet(1 .. Len(q)) /\ IsFiniteSet(1 .. Len(q) - 1)
    BY <1>1, FS_Interval
  <2> QED
    BY <2>1, <1>1, <1>2, FS_Subset
<1>4. Shift \in Bijection(T, R)
  <2>1. \A i \in T : i + 1 \in R
    BY <1>1, <1>2
  <2>2. \A k \in R : k - 1 \in T /\ k = (k - 1) + 1
    BY <1>1, <1>2
  <2>3. T \subseteq Int
    BY <1>1, <1>2
  <2>4. Shift \in [T -> R]
    BY <2>1
  <2>5. \A a, b \in T : Shift[a] = Shift[b] => a = b
    BY <2>3
  <2>6. \A k \in R : \E i \in T : Shift[i] = k
    BY <2>2
  <2> HIDE DEF T, R, Shift
  <2> QED
    BY <2>4, <2>5, <2>6 DEF Bijection, Injection, Surjection, IsInjective
<1>5. Cardinality(T) = Cardinality(R)
  BY <1>3, <1>4, FS_Bijection DEF ExistsBijection
<1>6. Cardinality(T) \in Nat
  BY <1>3, FS_CardinalityType
<1>7. CASE Head(q) = "Present"
  <2>1. P = R \cup {1} /\ 1 \notin R
    BY <1>1, <1>7
  <2>2. Cardinality(P) = Cardinality(R) + 1
    BY <2>1, <1>3, FS_AddElement
  <2> QED
    BY <2>2, <1>5, <1>7 DEF PresentsIn
<1>8. CASE Head(q) # "Present"
  <2>1. P = R
    BY <1>1, <1>8
  <2>2. PresentsIn(q) = PresentsIn(Tail(q)) /\ PresentsIn(Tail(q)) \in Nat
    BY <2>1, <1>5, <1>6 DEF PresentsIn
  <2> QED
    BY <2>2, <1>8
<1> QED
  BY <1>7, <1>8
-----------------------------------------------------------------------------
(* The two processes *)

\* A ring as a command is added to it, or taken from it
Adding(S, q, c) ==
  /\ Append(q, c) \in Seq(S) /\ Len(Append(q, c)) = Len(q) + 1
  /\ \A i \in DOMAIN Append(q, c) :
       (i \in DOMAIN q /\ Append(q, c)[i] = q[i]) \/ Append(q, c)[i] = c

Taking(S, q) ==
  q # <<>> => /\ Tail(q) \in Seq(S) /\ Len(Tail(q)) = Len(q) - 1
              /\ Head(q) \in S /\ Head(q) = q[1] /\ 1 \in DOMAIN q
              /\ (Len(q) <= 1 => Tail(q) = <<>>)
              /\ \A i \in DOMAIN Tail(q) : i + 1 \in DOMAIN q /\ Tail(q)[i] = q[i + 1]

LEMMA Added ==
  ASSUME NEW S, NEW q \in Seq(S), NEW c \in S
  PROVE  Adding(S, q, c)
  BY DEF Adding

LEMMA Taken ==
  ASSUME NEW S, NEW q \in Seq(S)
  PROVE  Taking(S, q)
  BY DEF Taking

LEMMA ClientKeepsLife ==
  ASSUME LifeInv,
         \/ InitServer
         \/ SendSyn
         \/ TakeAck
         \/ NoAck
         \/ SendContinue
         \/ SendCommand("Command")
         \/ SendCommand("Present")
         \/ BeginDetach
         \/ UnregisterExitCallback
         \/ SendTerminate
         \/ CleanAck
         \/ NoCleanAck
         \/ ReleaseChildProcess
         \/ ClientCrashes
         \/ FocusChanges
  PROVE  LifeInv'
<1> USE LifecycleAssumption DEF Commands, Answers, ClientGone, ServerGone, ServerUnchanged,
           cvars, svars, rings, Adding, Taking
<1>1. CASE InitServer
  <2>1. LifeTypeOK'
    BY <1>1 DEF LifeInv, LifeTypeOK, Rings, InitServer
  <2>2. Rings'
    BY <1>1 DEF LifeInv, LifeTypeOK, Rings, InitServer
  <2>3. Leaving'
    BY <1>1 DEF LifeInv, LifeTypeOK, Leaving, Told, InitServer
  <2> QED
    BY <2>1, <2>2, <2>3 DEF LifeInv
<1>2. CASE SendSyn
  <2>0. Adding(Commands, toServer, "Syn")
    BY Added DEF LifeInv, Rings
  <2>1. LifeTypeOK'
    BY <1>2, <2>0 DEF LifeInv, LifeTypeOK, Rings, SendSyn
  <2>2. Rings'
    <3>1. toServer = <<>> /\ Len(toServer) = 0
      BY <1>2 DEF LifeInv, Rings, SendSyn
    <3>2. toServer' \in Seq(Commands) /\ Len(toServer') <= 1
      <4>1. Len(Append(toServer, "Syn")) <= 1
        BY <2>0, <3>1
      <4>2. toServer' = Append(toServer, "Syn") \/ toServer' = toServer
        BY <1>2 DEF SendSyn
      <4>3. toServer \in Seq(Commands) /\ Len(toServer) <= 1
        BY <3>1 DEF LifeInv, Rings
      <4> QED
        BY <2>0, <4>1, <4>2, <4>3, Zenon
    <3>3. cpc' = "waitAck" /\ UNCHANGED <<spc, clientWait, toClient>>
      BY <1>2 DEF SendSyn
    <3>4. spc' \notin {"none", "waitSyn"} => toServer' = <<>>
      <4>1. spc \in {"none", "waitSyn"}
        BY <1>2 DEF LifeInv, Rings, SendSyn
      <4> QED
        BY <3>3, <4>1
    <3> QED
      BY <1>2, <3>2, <3>3, <3>4 DEF LifeInv, LifeTypeOK, Rings, SendSyn
  <2>3. Leaving'
    BY <1>2, <2>0 DEF LifeInv, LifeTypeOK, Leaving, Told, SendSyn
  <2> QED
    BY <2>1, <2>2, <2>3 DEF LifeInv
<1>3. CASE TakeAck
  <2>0. Taking(Answers, toClient)
    BY Taken DEF LifeInv, Rings
  <2>1. LifeTypeOK'
    BY <1>3, <2>0 DEF LifeInv, LifeTypeOK, Rings, TakeAck
  <2>2. Rings'
    BY <1>3, <2>0 DEF LifeInv, LifeTypeOK, Rings, TakeAck
  <2>3. Leaving'
    BY <1>3, <2>0 DEF LifeInv, LifeTypeOK, Leaving, Told, TakeAck
  <2> QED
    BY <2>1, <2>2, <2>3 DEF LifeInv
<1>4. CASE NoAck
  <2>1. LifeTypeOK'
    BY <1>4, Zenon DEF LifeInv, LifeTypeOK, NoAck
  <2>2. Rings'
    BY <1>4 DEF LifeInv, LifeTypeOK, Rings, NoAck
  <2>3. Leaving'
    BY <1>4 DEF LifeInv, LifeTypeOK, Leaving, Told, NoAck
  <2> QED
    BY <2>1, <2>2, <2>3 DEF LifeInv
<1>5. CASE SendContinue
  <2>0. Adding(Commands, toServer, "Continue")
    BY Added DEF LifeInv, Rings
  <2>1. LifeTypeOK'
    BY <1>5, <2>0 DEF LifeInv, LifeTypeOK, Rings, SendContinue
  <2>2. Rings'
    BY <1>5, <2>0 DEF LifeInv, LifeTypeOK, Rings, SendContinue
  <2>3. Leaving'
    BY <1>5, <2>0 DEF LifeInv, LifeTypeOK, Leaving, Told, SendContinue
  <2> QED
    BY <2>1, <2>2, <2>3 DEF LifeInv
<1>6. ASSUME NEW c \in {"Command", "Present"}, SendCommand(c)
      PROVE  LifeInv'
  <2>0. Adding(Commands, toServer, c)
    BY Added DEF LifeInv, Rings
  <2>1. LifeTypeOK'
    <3>1. \A flag \in {clientBridge', serverBridge', ghModule', infiniteRetries', sawTerminate'} :
            flag \in BOOLEAN
      BY <1>6, <2>0 DEF LifeInv, LifeTypeOK, SendCommand, Sends, SendFails
    <3>2. /\ cpc' \in {"attached", "sendSyn", "waitAck", "sendContinue", "running",
             "unregister", "terminate", "waitClean", "release",
             "exited", "aborted", "crashed"}
          /\ clientState' \in {"Init", "Handshaking", "Running", "DoneProcessing", "Exited"}
          /\ serverState' \in {"NotInit", "Init", "Handshaking", "Running",
                     "DoneProcessing", "Exited"}
          /\ serverWait' \in {"none", "armed", "running", "done", "removed", "freed"}
          /\ clientWait' \in {"none", "armed", "running", "done", "removed"}
          /\ spc' \in {"none", "waitSyn", "initialize", "sendAck", "waitContinue",
             "serving", "hung", "cleanUp", "unregister", "sendCleanAck", "exited"}
      BY <1>6, <2>0 DEF LifeInv, LifeTypeOK, SendCommand, Sends, SendFails
    <3>3. Len(toServer') <= K /\ Len(toClient') <= 2
      <4>1. \/ toServer' = toServer
            \/ Len(toServer) < K /\ toServer' = Append(toServer, c)
        BY <1>6 DEF SendCommand, Sends, SendFails
      <4>2. Len(Append(toServer, c)) <= K \/ ~(Len(toServer) < K)
        BY <2>0 DEF LifeInv, Rings
      <4> QED
        BY <1>6, <4>1, <4>2 DEF LifeInv, LifeTypeOK, SendCommand
    <3> QED
      BY <3>1, <3>2, <3>3 DEF LifeTypeOK
  <2>2. Rings'
    BY <1>6, <2>0 DEF LifeInv, LifeTypeOK, Rings, SendCommand, Sends, SendFails
  <2>3. Leaving'
    BY <1>6, <2>0 DEF LifeInv, LifeTypeOK, Leaving, Told, SendCommand, Sends, SendFails
  <2> QED
    BY <2>1, <2>2, <2>3 DEF LifeInv
<1>7. CASE BeginDetach
  <2>1. LifeTypeOK'
    BY <1>7 DEF LifeInv, LifeTypeOK, Rings, BeginDetach
  <2>2. Rings'
    BY <1>7 DEF LifeInv, LifeTypeOK, Rings, BeginDetach
  <2>3. Leaving'
    BY <1>7 DEF LifeInv, LifeTypeOK, Leaving, Told, BeginDetach
  <2> QED
    BY <2>1, <2>2, <2>3 DEF LifeInv
<1>8. CASE UnregisterExitCallback
  <2>1. LifeTypeOK'
    BY <1>8 DEF LifeInv, LifeTypeOK, Rings, UnregisterExitCallback
  <2>2. Rings'
    BY <1>8 DEF LifeInv, LifeTypeOK, Rings, UnregisterExitCallback
  <2>3. Leaving'
    BY <1>8 DEF LifeInv, LifeTypeOK, Leaving, Told, UnregisterExitCallback
  <2> QED
    BY <2>1, <2>2, <2>3 DEF LifeInv
<1>9. CASE SendTerminate
  <2>0. Adding(Commands, toServer, "Terminate")
    BY Added DEF LifeInv, Rings
  <2>1. LifeTypeOK'
    <3>1. \A flag \in {clientBridge', serverBridge', ghModule', infiniteRetries', sawTerminate'} :
            flag \in BOOLEAN
      BY <1>9, <2>0 DEF LifeInv, LifeTypeOK, SendTerminate, Sends, SendFails
    <3>2. /\ cpc' \in {"attached", "sendSyn", "waitAck", "sendContinue", "running",
             "unregister", "terminate", "waitClean", "release",
             "exited", "aborted", "crashed"}
          /\ clientState' \in {"Init", "Handshaking", "Running", "DoneProcessing", "Exited"}
          /\ serverState' \in {"NotInit", "Init", "Handshaking", "Running",
                     "DoneProcessing", "Exited"}
          /\ serverWait' \in {"none", "armed", "running", "done", "removed", "freed"}
          /\ clientWait' \in {"none", "armed", "running", "done", "removed"}
          /\ spc' \in {"none", "waitSyn", "initialize", "sendAck", "waitContinue",
             "serving", "hung", "cleanUp", "unregister", "sendCleanAck", "exited"}
      BY <1>9, <2>0 DEF LifeInv, LifeTypeOK, SendTerminate, Sends, SendFails
    <3>3. Len(toServer') <= K /\ Len(toClient') <= 2
      BY <1>9, <2>0 DEF LifeInv, LifeTypeOK, Rings, SendTerminate, Sends, SendFails
    <3> QED
      BY <3>1, <3>2, <3>3 DEF LifeTypeOK
  <2>2. Rings'
    BY <1>9, <2>0 DEF LifeInv, LifeTypeOK, Rings, SendTerminate, Sends, SendFails
  <2>3. Leaving'
    BY <1>9, <2>0 DEF LifeInv, LifeTypeOK, Leaving, Told, SendTerminate, Sends, SendFails
  <2> QED
    BY <2>1, <2>2, <2>3 DEF LifeInv
<1>10. CASE CleanAck
  <2>0. Taking(Answers, toClient)
    BY Taken DEF LifeInv, Rings
  <2>1. LifeTypeOK'
    BY <1>10, <2>0 DEF LifeInv, LifeTypeOK, Rings, CleanAck
  <2>2. Rings'
    BY <1>10, <2>0 DEF LifeInv, LifeTypeOK, Rings, CleanAck
  <2>3. Leaving'
    BY <1>10, <2>0 DEF LifeInv, LifeTypeOK, Leaving, Told, CleanAck
  <2> QED
    BY <2>1, <2>2, <2>3 DEF LifeInv
<1>11. CASE NoCleanAck
  <2>1. LifeTypeOK'
    BY <1>11 DEF LifeInv, LifeTypeOK, Rings, NoCleanAck
  <2>2. Rings'
    BY <1>11 DEF LifeInv, LifeTypeOK, Rings, NoCleanAck
  <2>3. Leaving'
    BY <1>11 DEF LifeInv, LifeTypeOK, Leaving, Told, NoCleanAck
  <2> QED
    BY <2>1, <2>2, <2>3 DEF LifeInv
<1>12. CASE ReleaseChildProcess
  <2>1. LifeTypeOK'
    BY <1>12 DEF LifeInv, LifeTypeOK, Rings, ReleaseChildProcess
  <2>2. Rings'
    BY <1>12 DEF LifeInv, LifeTypeOK, Rings, ReleaseChildProcess
  <2>3. Leaving'
    BY <1>12 DEF LifeInv, LifeTypeOK, Leaving, Told, ReleaseChildProcess
  <2> QED
    BY <2>1, <2>2, <2>3 DEF LifeInv
<1>13. CASE ClientCrashes
  <2>1. LifeTypeOK'
    BY <1>13 DEF LifeInv, LifeTypeOK, Rings, ClientCrashes
  <2>2. Rings'
    BY <1>13 DEF LifeInv, LifeTypeOK, Rings, ClientCrashes
  <2>3. Leaving'
    BY <1>13 DEF LifeInv, LifeTypeOK, Leaving, Told, ClientCrashes
  <2> QED
    BY <2>1, <2>2, <2>3 DEF LifeInv
<1>14. CASE FocusChanges
  <2>1. LifeTypeOK'
    BY <1>14 DEF LifeInv, LifeTypeOK, Rings, FocusChanges
  <2>2. Rings'
    BY <1>14 DEF LifeInv, LifeTypeOK, Rings, FocusChanges
  <2>3. Leaving'
    BY <1>14 DEF LifeInv, LifeTypeOK, Leaving, Told, FocusChanges
  <2> QED
    BY <2>1, <2>2, <2>3 DEF LifeInv
<1> QED
  BY <1>1, <1>2, <1>3, <1>4, <1>5, <1>6, <1>7, <1>8, <1>9, <1>10, <1>11, <1>12, <1>13, <1>14

LEMMA ServerKeepsLife ==
  ASSUME LifeInv,
         \/ TakeSyn
         \/ InitializeD3D
         \/ SendAck
         \/ TakeContinue
         \/ NoContinue
         \/ Serve("Command")
         \/ Serve("Terminate")
         \/ Serve("Present")
         \/ NoCommand
         \/ CleanUp
         \/ UnregisterWait
         \/ SendCleanAck
  PROVE  LifeInv'
<1> USE LifecycleAssumption DEF Commands, Answers, ClientGone, ServerGone, ServerUnchanged,
           cvars, svars, rings, Adding, Taking
<1>1. CASE TakeSyn
  <2>0. Taking(Commands, toServer)
    BY Taken DEF LifeInv, Rings
  <2>1. LifeTypeOK'
    BY <1>1, <2>0 DEF LifeInv, LifeTypeOK, Rings, TakeSyn
  <2>2. Rings'
    BY <1>1, <2>0 DEF LifeInv, LifeTypeOK, Rings, TakeSyn
  <2>3. Leaving'
    BY <1>1, <2>0 DEF LifeInv, LifeTypeOK, Leaving, Told, TakeSyn
  <2> QED
    BY <2>1, <2>2, <2>3 DEF LifeInv
<1>2. CASE InitializeD3D
  <2>1. LifeTypeOK'
    BY <1>2 DEF LifeInv, LifeTypeOK, Rings, InitializeD3D
  <2>2. Rings'
    BY <1>2 DEF LifeInv, LifeTypeOK, Rings, InitializeD3D
  <2>3. Leaving'
    BY <1>2 DEF LifeInv, LifeTypeOK, Leaving, Told, InitializeD3D
  <2> QED
    BY <2>1, <2>2, <2>3 DEF LifeInv
<1>3. CASE SendAck
  <2>0. Adding(Answers, toClient, "HandshakeAck")
    BY Added DEF LifeInv, Rings
  <2>1. LifeTypeOK'
    BY <1>3, <2>0 DEF LifeInv, LifeTypeOK, Rings, SendAck
  <2>2. Rings'
    <3>1. toClient = <<>> /\ Len(toClient) = 0
      BY <1>3 DEF LifeInv, Rings, SendAck
    <3>2. toClient' \in Seq(Answers) /\ Len(toClient') <= 1
      <4>1. Len(Append(toClient, "HandshakeAck")) <= 1
        BY <2>0, <3>1
      <4>2. toClient' = Append(toClient, "HandshakeAck") \/ toClient' = toClient
        BY <1>3 DEF SendAck
      <4>3. toClient \in Seq(Answers) /\ Len(toClient) <= 1
        BY <3>1 DEF LifeInv, Rings
      <4> QED
        BY <2>0, <4>1, <4>2, <4>3, Zenon
    <3> QED
      BY <1>3, <3>2 DEF LifeInv, LifeTypeOK, Rings, SendAck
  <2>3. Leaving'
    BY <1>3, <2>0 DEF LifeInv, LifeTypeOK, Leaving, Told, SendAck
  <2> QED
    BY <2>1, <2>2, <2>3 DEF LifeInv
<1>4. CASE TakeContinue
  <2>0. Taking(Commands, toServer)
    BY Taken DEF LifeInv, Rings
  <2>1. LifeTypeOK'
    BY <1>4, <2>0 DEF LifeInv, LifeTypeOK, Rings, TakeContinue
  <2>2. Rings'
    BY <1>4, <2>0 DEF LifeInv, LifeTypeOK, Rings, TakeContinue
  <2>3. Leaving'
    BY <1>4, <2>0 DEF LifeInv, LifeTypeOK, Leaving, Told, TakeContinue
  <2> QED
    BY <2>1, <2>2, <2>3 DEF LifeInv
<1>5. CASE NoContinue
  <2>1. LifeTypeOK'
    BY <1>5 DEF LifeInv, LifeTypeOK, Rings, NoContinue
  <2>2. Rings'
    BY <1>5 DEF LifeInv, LifeTypeOK, Rings, NoContinue
  <2>3. Leaving'
    BY <1>5 DEF LifeInv, LifeTypeOK, Leaving, Told, NoContinue
  <2> QED
    BY <2>1, <2>2, <2>3 DEF LifeInv
<1>6. CASE Serve("Command")
  <2>0. Taking(Commands, toServer)
    BY Taken DEF LifeInv, Rings
  <2>1. LifeTypeOK'
    BY <1>6, <2>0 DEF LifeInv, LifeTypeOK, Rings, Serve
  <2>2. Rings'
    BY <1>6, <2>0 DEF LifeInv, LifeTypeOK, Rings, Serve
  <2>3. Leaving'
    BY <1>6, <2>0 DEF LifeInv, LifeTypeOK, Leaving, Told, Serve
  <2> QED
    BY <2>1, <2>2, <2>3 DEF LifeInv
<1>7. CASE Serve("Terminate")
  <2>0. Taking(Commands, toServer)
    BY Taken DEF LifeInv, Rings
  <2>1. LifeTypeOK'
    BY <1>7, <2>0 DEF LifeInv, LifeTypeOK, Rings, Serve
  <2>2. Rings'
    BY <1>7, <2>0 DEF LifeInv, LifeTypeOK, Rings, Serve
  <2>3. Leaving'
    BY <1>7, <2>0 DEF LifeInv, LifeTypeOK, Leaving, Told, Serve
  <2> QED
    BY <2>1, <2>2, <2>3 DEF LifeInv
<1>8. CASE Serve("Present")
  <2>0. Taking(Commands, toServer)
    BY Taken DEF LifeInv, Rings
  <2>1. LifeTypeOK'
    BY <1>8, <2>0 DEF LifeInv, LifeTypeOK, Rings, Serve
  <2>2. Rings'
    BY <1>8, <2>0 DEF LifeInv, LifeTypeOK, Rings, Serve
  <2>3. Leaving'
    BY <1>8, <2>0 DEF LifeInv, LifeTypeOK, Leaving, Told, Serve
  <2> QED
    BY <2>1, <2>2, <2>3 DEF LifeInv
<1>9. CASE NoCommand
  <2>1. LifeTypeOK'
    BY <1>9 DEF LifeInv, LifeTypeOK, Rings, NoCommand
  <2>2. Rings'
    BY <1>9 DEF LifeInv, LifeTypeOK, Rings, NoCommand
  <2>3. Leaving'
    BY <1>9 DEF LifeInv, LifeTypeOK, Leaving, Told, NoCommand
  <2> QED
    BY <2>1, <2>2, <2>3 DEF LifeInv
<1>10. CASE CleanUp
  <2>1. LifeTypeOK'
    <3>1. \A flag \in {clientBridge', serverBridge', ghModule', infiniteRetries', sawTerminate'} :
            flag \in BOOLEAN
      BY <1>10 DEF LifeInv, LifeTypeOK, CleanUp
    <3>2. /\ cpc' \in {"attached", "sendSyn", "waitAck", "sendContinue", "running",
             "unregister", "terminate", "waitClean", "release",
             "exited", "aborted", "crashed"}
          /\ clientState' \in {"Init", "Handshaking", "Running", "DoneProcessing", "Exited"}
          /\ serverState' \in {"NotInit", "Init", "Handshaking", "Running",
                     "DoneProcessing", "Exited"}
          /\ serverWait' \in {"none", "armed", "running", "done", "removed", "freed"}
          /\ clientWait' \in {"none", "armed", "running", "done", "removed"}
          /\ spc' \in {"none", "waitSyn", "initialize", "sendAck", "waitContinue",
             "serving", "hung", "cleanUp", "unregister", "sendCleanAck", "exited"}
      BY <1>10 DEF LifeInv, LifeTypeOK, CleanUp
    <3>3. Len(toServer') <= K /\ Len(toClient') <= 2
      BY <1>10 DEF LifeInv, LifeTypeOK, Rings, CleanUp
    <3> QED
      BY <3>1, <3>2, <3>3 DEF LifeTypeOK
  <2>2. Rings'
    BY <1>10 DEF LifeInv, LifeTypeOK, Rings, CleanUp
  <2>3. Leaving'
    BY <1>10 DEF LifeInv, LifeTypeOK, Leaving, Told, CleanUp
  <2> QED
    BY <2>1, <2>2, <2>3 DEF LifeInv
<1>11. CASE UnregisterWait
  <2>1. LifeTypeOK'
    BY <1>11 DEF LifeInv, LifeTypeOK, Rings, UnregisterWait
  <2>2. Rings'
    BY <1>11 DEF LifeInv, LifeTypeOK, Rings, UnregisterWait
  <2>3. Leaving'
    BY <1>11 DEF LifeInv, LifeTypeOK, Leaving, Told, UnregisterWait
  <2> QED
    BY <2>1, <2>2, <2>3 DEF LifeInv
<1>12. CASE SendCleanAck
  <2>0. Adding(Answers, toClient, "CleanAck")
    BY Added DEF LifeInv, Rings
  <2>1. LifeTypeOK'
    BY <1>12, <2>0 DEF LifeInv, LifeTypeOK, Rings, SendCleanAck
  <2>2. Rings'
    BY <1>12, <2>0 DEF LifeInv, LifeTypeOK, Rings, SendCleanAck
  <2>3. Leaving'
    BY <1>12, <2>0 DEF LifeInv, LifeTypeOK, Leaving, Told, SendCleanAck
  <2> QED
    BY <2>1, <2>2, <2>3 DEF LifeInv
<1> QED
  BY <1>1, <1>2, <1>3, <1>4, <1>5, <1>6, <1>7, <1>8, <1>9, <1>10, <1>11, <1>12

LEMMA CallbackKeepsLife ==
  ASSUME LifeInv,
         \/ ServerExitSeen
         \/ ServerExitHandled
         \/ ClientExitSeen
         \/ ClientExitHandled
         \/ ForceQuit
  PROVE  LifeInv'
<1> USE LifecycleAssumption DEF Commands, Answers, ClientGone, ServerGone, ServerUnchanged,
           cvars, svars, rings, Adding, Taking
<1>1. CASE ServerExitSeen
  <2>1. LifeTypeOK'
    BY <1>1 DEF LifeInv, LifeTypeOK, Rings, ServerExitSeen
  <2>2. Rings'
    BY <1>1 DEF LifeInv, LifeTypeOK, Rings, ServerExitSeen
  <2>3. Leaving'
    BY <1>1 DEF LifeInv, LifeTypeOK, Leaving, Told, ServerExitSeen
  <2> QED
    BY <2>1, <2>2, <2>3 DEF LifeInv
<1>2. CASE ServerExitHandled
  <2>1. LifeTypeOK'
    BY <1>2 DEF LifeInv, LifeTypeOK, Rings, ServerExitHandled
  <2>2. Rings'
    BY <1>2 DEF LifeInv, LifeTypeOK, Rings, ServerExitHandled
  <2>3. Leaving'
    BY <1>2 DEF LifeInv, LifeTypeOK, Leaving, Told, ServerExitHandled
  <2> QED
    BY <2>1, <2>2, <2>3 DEF LifeInv
<1>3. CASE ClientExitSeen
  <2>1. LifeTypeOK'
    <3>1. \A flag \in {clientBridge', serverBridge', ghModule', infiniteRetries', sawTerminate'} :
            flag \in BOOLEAN
      BY <1>3 DEF LifeInv, LifeTypeOK, ClientExitSeen
    <3>2. /\ cpc' \in {"attached", "sendSyn", "waitAck", "sendContinue", "running",
             "unregister", "terminate", "waitClean", "release",
             "exited", "aborted", "crashed"}
          /\ clientState' \in {"Init", "Handshaking", "Running", "DoneProcessing", "Exited"}
          /\ serverState' \in {"NotInit", "Init", "Handshaking", "Running",
                     "DoneProcessing", "Exited"}
          /\ serverWait' \in {"none", "armed", "running", "done", "removed", "freed"}
          /\ clientWait' \in {"none", "armed", "running", "done", "removed"}
          /\ spc' \in {"none", "waitSyn", "initialize", "sendAck", "waitContinue",
             "serving", "hung", "cleanUp", "unregister", "sendCleanAck", "exited"}
      BY <1>3 DEF LifeInv, LifeTypeOK, ClientExitSeen
    <3>3. Len(toServer') <= K /\ Len(toClient') <= 2
      BY <1>3 DEF LifeInv, LifeTypeOK, Rings, ClientExitSeen
    <3> QED
      BY <3>1, <3>2, <3>3 DEF LifeTypeOK
  <2>2. Rings'
    BY <1>3 DEF LifeInv, LifeTypeOK, Rings, ClientExitSeen
  <2>3. Leaving'
    BY <1>3 DEF LifeInv, LifeTypeOK, Leaving, Told, ClientExitSeen
  <2> QED
    BY <2>1, <2>2, <2>3 DEF LifeInv
<1>4. CASE ClientExitHandled
  <2>1. LifeTypeOK'
    BY <1>4 DEF LifeInv, LifeTypeOK, Rings, ClientExitHandled
  <2>2. Rings'
    BY <1>4 DEF LifeInv, LifeTypeOK, Rings, ClientExitHandled
  <2>3. Leaving'
    BY <1>4 DEF LifeInv, LifeTypeOK, Leaving, Told, ClientExitHandled
  <2> QED
    BY <2>1, <2>2, <2>3 DEF LifeInv
<1>5. CASE ForceQuit
  <2>1. LifeTypeOK'
    BY <1>5 DEF LifeInv, LifeTypeOK, Rings, ForceQuit
  <2>2. Rings'
    BY <1>5 DEF LifeInv, LifeTypeOK, Rings, ForceQuit
  <2>3. Leaving'
    BY <1>5 DEF LifeInv, LifeTypeOK, Leaving, Told, ForceQuit
  <2> QED
    BY <2>1, <2>2, <2>3 DEF LifeInv
<1> QED
  BY <1>1, <1>2, <1>3, <1>4, <1>5

-----------------------------------------------------------------------------
(* The frames *)

\* What each step of a frame does to the balance: the bridge goes down, a frame is
\* sent, a wait ends without a token, takes one, gives up, the server takes a
\* frame, and releases its token, as the last, below the maximum or at it.
Rebalances(s, n, p, w, o, u) ==
  /\ \A v \in BOOLEAN : (v => u) => Balanced(s, n, p, w, o, v)
  /\ u /\ ~w => Balanced(s, n + 1, p, TRUE, o, u)
  /\ \A x \in BOOLEAN : Balanced(s, n, p, x, o, FALSE)
  /\ u /\ w /\ s > 0 => Balanced(s - 1, n, p, FALSE, o, u)
  /\ u /\ w => Balanced(s, n, p, FALSE, o + 1, u)
  /\ ~p /\ n > 0 => Balanced(s, n - 1, TRUE, w, o, u)
  /\ p /\ n = 0 /\ s < MaxFrames => Balanced(s + 1, n, FALSE, w, 0, u)
  /\ p /\ n = 0 /\ s = MaxFrames => Balanced(s, n, FALSE, w, 0, u)
  /\ p /\ n > 0 /\ s < MaxFrames => Balanced(s + 1, n, FALSE, w, o, u)
  /\ p /\ n > 0 /\ s = MaxFrames => Balanced(s, n, FALSE, w, o - 1, u)

LEMMA Balances ==
  ASSUME NEW s \in 0 .. MaxFrames, NEW n \in Nat, NEW p \in BOOLEAN, NEW w \in BOOLEAN,
         NEW o \in Int, NEW u \in BOOLEAN, Balanced(s, n, p, w, o, u)
  PROVE  Rebalances(s, n, p, w, o, u)
  BY PresentAssumption DEF Balanced, Rebalances

\* What the balance says of the debt, of the lead and of the last token
LEMMA BalanceBounds ==
  ASSUME NEW s \in 0 .. MaxFrames, NEW n \in 0 .. K, NEW p \in BOOLEAN, NEW w \in BOOLEAN,
         NEW o \in Int, NEW u \in BOOLEAN, Balanced(s, n, p, w, o, u)
  PROVE  /\ o \in -1 .. MaxFrames + K + 2
         /\ u => n + (IF p THEN 1 ELSE 0) <= MaxFrames + (IF w THEN 1 ELSE 0) + o
         /\ w /\ u /\ n + (IF p THEN 1 ELSE 0) = 0 => s > 0
  BY PresentAssumption, LifecycleAssumption DEF Balanced

\* The facts about the present state that Balances needs
LEMMA FramesNow ==
  ASSUME IInv
  PROVE  /\ toServer \in Seq(Commands) /\ Presents \in 0 .. K
         /\ sem \in 0 .. MaxFrames /\ presented \in BOOLEAN /\ waiting \in BOOLEAN
         /\ owed \in Int /\ clientBridge \in BOOLEAN
         /\ Balanced(sem, Presents, presented, waiting, owed, clientBridge)
<1>1. toServer \in Seq(Commands) /\ Len(toServer) <= K
  BY DEF IInv, LifeInv, Rings, LifeTypeOK
<1>2. Presents \in Nat /\ Presents <= Len(toServer)
  BY <1>1, PresentsType DEF Presents
<1>3. Presents \in 0 .. K
  BY <1>1, <1>2, LifecycleAssumption
<1>4. owed \in Int
  BY PresentAssumption, LifecycleAssumption DEF IInv, TypeOK
<1> QED
  BY <1>1, <1>3, <1>4, Zenon DEF IInv, TypeOK, LifeTypeOK, Frames

LEMMA BalancesNow ==
  ASSUME IInv
  PROVE  Rebalances(sem, Presents, presented, waiting, owed, clientBridge)
<1>1. Presents \in Nat
  BY FramesNow
<1> QED
  BY <1>1, FramesNow, Balances, Zenon

\* A step of the processes that is not about a frame
LEMMA QuietStep ==
  ASSUME IInv, UNCHANGED pvars, LifeInv', clientBridge' => clientBridge,
         PresentsIn(toServer') = PresentsIn(toServer)
  PROVE  IInv'
<1>1. Frames'
  <2>1. Balanced(sem, Presents, presented, waiting, owed, clientBridge')
    <3>1. clientBridge' \in BOOLEAN
      BY DEF LifeInv, LifeTypeOK
    <3> QED
      BY <3>1, BalancesNow, Zenon DEF Rebalances
  <2>2. Presents' = Presents
    BY DEF Presents
  <2> QED
    BY <2>1, <2>2, Zenon DEF Frames, pvars
<1>2. TypeOK'
  BY DEF IInv, LifeInv, TypeOK, pvars
<1> QED
  BY <1>1, <1>2 DEF IInv, pvars

LEMMA QuietClient ==
  ASSUME LifeInv, Client \/ ClientCrashes \/ FocusChanges
  PROVE  /\ clientBridge' => clientBridge
         /\ PresentsIn(toServer') = PresentsIn(toServer)
<1>1. toServer \in Seq(Commands)
  BY DEF LifeInv, Rings
<1>2. \A c \in Commands \ {"Present"} : PresentsIn(Append(toServer, c)) = PresentsIn(toServer)
  <2>1. PresentsIn(toServer) \in Nat
    BY <1>1, PresentsType
  <2> QED
    BY <1>1, <2>1, PresentsAppend
<1>3. /\ clientBridge' => clientBridge
      /\ toServer' = toServer \/ \E c \in Commands \ {"Present"} : toServer' = Append(toServer, c)
  BY DEF Client, Detach, InitServer, SendSyn, TakeAck, NoAck, SendContinue, SendCommand, Sends,
         SendFails, BeginDetach, UnregisterExitCallback, SendTerminate, CleanAck, NoCleanAck,
         ReleaseChildProcess, ClientCrashes, FocusChanges, Commands, cvars, svars, rings
<1> QED
  <2>1. ASSUME NEW c \in Commands \ {"Present"}, toServer' = Append(toServer, c)
        PROVE  PresentsIn(toServer') = PresentsIn(toServer)
    BY <1>2, <2>1
  <2>2. toServer' = toServer => PresentsIn(toServer') = PresentsIn(toServer)
    OBVIOUS
  <2> QED
    BY <1>3, <2>1, <2>2

LEMMA QuietServer ==
  ASSUME LifeInv, Server \/ Callbacks
  PROVE  /\ clientBridge' => clientBridge
         /\ PresentsIn(toServer') = PresentsIn(toServer)
<1>1. toServer \in Seq(Commands)
  BY DEF LifeInv, Rings
<1>2. toServer # <<>> /\ Head(toServer) # "Present"
      => PresentsIn(Tail(toServer)) = PresentsIn(toServer)
  <2>1. toServer # <<>> => PresentsIn(Tail(toServer)) \in Nat
    BY <1>1, PresentsType, Taken DEF Taking
  <2> QED
    BY <1>1, <2>1, PresentsTail
<1>3. /\ clientBridge' => clientBridge
      /\ \/ toServer' = toServer
         \/ toServer # <<>> /\ Head(toServer) # "Present" /\ toServer' = Tail(toServer)
  BY DEF Server, TakeSyn, InitializeD3D, SendAck, TakeContinue, NoContinue, Serve, NoCommand,
         CleanUp, UnregisterWait, SendCleanAck, Callbacks, ServerExitSeen, ServerExitHandled,
         ClientExitSeen, ClientExitHandled, ForceQuit, ServerUnchanged, cvars, svars, rings
<1> QED
  BY <1>2, <1>3

\* A Present is sent, or the bridge goes down instead
LEMMA SendPresentStep ==
  ASSUME IInv, SendPresent
  PROVE  IInv'
<1> DEFINE n == PresentsIn(toServer)
<1>1. LifeInv'
  BY ClientKeepsLife DEF IInv, SendPresent
<1>2. \/ toServer' = Append(toServer, "Present") /\ clientBridge' = TRUE
      \/ toServer' = toServer /\ clientBridge' = FALSE
  BY DEF SendPresent, SendCommand, Sends, SendFails
<1>3. clientBridge = TRUE /\ waiting = FALSE /\ waiting' = TRUE
      /\ UNCHANGED <<sem, presented, owed>> /\ numRetries' = 0
  BY DEF SendPresent, SendCommand, IInv, LifeInv, LifeTypeOK, TypeOK
<1>5. PresentsIn(Append(toServer, "Present")) = n + 1
  <2>1. "Present" \in Commands /\ toServer \in Seq(Commands)
    BY FramesNow DEF Commands
  <2>2. PresentsIn(Append(toServer, "Present")) = n + (IF "Present" = "Present" THEN 1 ELSE 0)
    BY <2>1, PresentsAppend, Zenon
  <2> QED
    BY <2>2
<1>6. Balanced(sem, n + 1, presented, TRUE, owed, TRUE)
      /\ Balanced(sem, n, presented, TRUE, owed, FALSE)
  <2>1. Presents = n
    BY DEF Presents
  <2> QED
    BY <1>3, <2>1, BalancesNow, Zenon DEF Rebalances
<1>7. Frames'
  <2> HIDE DEF n
  <2>1. CASE toServer' = Append(toServer, "Present") /\ clientBridge' = TRUE
    BY <1>3, <1>5, <1>6, <2>1, Zenon DEF Frames, Presents
  <2>2. CASE toServer' = toServer /\ clientBridge' = FALSE
    BY <1>3, <1>6, <2>2, Zenon DEF Frames, Presents, n
  <2> QED
    BY <1>2, <2>1, <2>2
<1>8. TypeOK'
  <2>1. unlimited' \in BOOLEAN /\ numRetries' \in 0 .. MaxRetries + 1
    BY <1>3, PresentAssumption DEF SendPresent, IInv, LifeInv, LifeTypeOK
  <2> QED
    BY <1>1, <1>3, <2>1 DEF IInv, LifeInv, TypeOK
<1> QED
  BY <1>1, <1>3, <1>7, <1>8, PresentAssumption DEF IInv

\* The ways out of syncOnPresent, and one more retry
LEMMA SyncStep ==
  ASSUME IInv, SyncOnPresent
  PROVE  IInv'
<1>1. UNCHANGED <<vars, presented>> /\ waiting = TRUE /\ LifeInv' /\ Presents' = Presents
  BY DEF SyncOnPresent, WaitSucceeds, WaitTimesOut, WaitAborts, InSync, IInv, LifeInv, TypeOK,
         LifeTypeOK, Rings, Leaving, Told, vars, cvars, svars, rings, ClientGone, Presents
<1>2. Presents \in Nat /\ Balanced(sem, Presents, presented, waiting, owed, clientBridge)
  BY FramesNow
<1>3. CASE WaitSucceeds
  <2>1. Balanced(sem - 1, Presents, presented, FALSE, owed, clientBridge)
    BY <1>1, <1>2, <1>3, BalancesNow DEF WaitSucceeds, Rebalances
  <2>2. Frames'
    BY <1>1, <1>3, <2>1 DEF WaitSucceeds, Frames, vars, cvars
  <2>3. sem - 1 \in 0 .. MaxFrames
    <3>1. sem \in 0 .. MaxFrames /\ sem > 0
      BY <1>3, FramesNow DEF WaitSucceeds
    <3> QED
      BY <3>1, PresentAssumption
  <2> QED
    BY <1>1, <1>3, <2>2, <2>3 DEF WaitSucceeds, IInv, LifeInv, TypeOK
<1>4. CASE WaitTimesOut /\ numRetries < MaxRetries
  <2>1. Frames'
    BY <1>1, <1>2, <1>4 DEF WaitTimesOut, Frames, vars, cvars
  <2>2. numRetries + 1 \in 0 .. MaxRetries + 1 /\ numRetries + 1 <= MaxRetries
    BY <1>4, PresentAssumption DEF IInv, TypeOK
  <2> QED
    BY <1>1, <1>4, <2>1, <2>2 DEF WaitTimesOut, IInv, LifeInv, TypeOK
<1>5. CASE WaitTimesOut /\ ~(numRetries < MaxRetries)
  <2>1. Balanced(sem, Presents, presented, FALSE, owed + 1, clientBridge)
    BY <1>1, <1>2, <1>5, BalancesNow DEF WaitTimesOut, InSync, Rebalances
  <2>2. Frames'
    <3>1. owed' = owed + 1 /\ waiting' = FALSE /\ UNCHANGED <<sem, clientBridge>>
      BY <1>1, <1>5 DEF WaitTimesOut, vars, cvars, IInv, TypeOK
    <3> QED
      BY <1>1, <2>1, <3>1 DEF Frames
  <2>3. numRetries + 1 \in 0 .. MaxRetries + 1
    BY <1>1, <1>5, PresentAssumption DEF IInv, TypeOK
  <2>4. owed + 1 \in -1 .. MaxFrames + K + 2
    <3>1. sem \in 0 .. MaxFrames /\ Presents \in 0 .. K /\ presented \in BOOLEAN
          /\ owed + 1 \in Int /\ clientBridge \in BOOLEAN
      BY FramesNow
    <3> QED
      BY <2>1, <3>1, BalanceBounds
  <2> QED
    BY <1>1, <1>5, <2>2, <2>3, <2>4 DEF WaitTimesOut, IInv, LifeInv, TypeOK
<1>6. CASE WaitAborts
  <2>1. clientBridge = FALSE
    BY <1>6 DEF WaitAborts, IInv, LifeInv, LifeTypeOK
  <2>2. Balanced(sem, Presents, presented, FALSE, owed, FALSE)
    BY <1>2, BalancesNow DEF Rebalances
  <2>3. Frames'
    BY <1>1, <1>6, <2>1, <2>2 DEF WaitAborts, Frames, vars, cvars
  <2> QED
    BY <1>1, <1>6, <2>3 DEF WaitAborts, IInv, LifeInv, TypeOK
<1> QED
  BY <1>3, <1>4, <1>5, <1>6 DEF SyncOnPresent

\* The server takes a Present
LEMMA ServerPresentsStep ==
  ASSUME IInv, ServerPresents
  PROVE  IInv'
<1>1. LifeInv'
  BY ServerKeepsLife DEF IInv, ServerPresents
<1>2. /\ toServer # <<>> /\ Head(toServer) = "Present" /\ toServer' = Tail(toServer)
      /\ UNCHANGED <<clientBridge, sem, waiting, numRetries, unlimited, owed>>
      /\ presented = FALSE /\ presented' = TRUE
  BY DEF ServerPresents, Serve, cvars, IInv, TypeOK
<1>3. Presents = PresentsIn(Tail(toServer)) + 1 /\ PresentsIn(Tail(toServer)) \in Nat
  BY <1>2, FramesNow, PresentsTail, PresentsType, Taken DEF Presents, Taking
<1>4. PresentsIn(Tail(toServer)) = Presents - 1 /\ Presents > 0
  BY <1>3
<1>5. Balanced(sem, Presents - 1, TRUE, waiting, owed, clientBridge)
  BY <1>2, <1>4, BalancesNow, Zenon DEF Rebalances
<1>6. Presents' = Presents - 1
  BY <1>2, <1>4 DEF Presents
<1>7. Frames'
  BY <1>2, <1>5, <1>6 DEF Frames
<1> QED
  BY <1>1, <1>2, <1>7 DEF IInv, LifeInv, TypeOK

\* The server releases the token of a Present
LEMMA ServerReleasesStep ==
  ASSUME IInv, ServerReleases
  PROVE  IInv'
<1>1. UNCHANGED <<vars, waiting, numRetries, unlimited>> /\ LifeInv' /\ Presents' = Presents
      /\ presented = TRUE /\ presented' = FALSE
  BY DEF ServerReleases, IInv, LifeInv, TypeOK, LifeTypeOK, Rings, Leaving, Told, vars, cvars,
         svars, rings, ClientGone, Presents
<1>2. Presents \in Nat /\ sem \in 0 .. MaxFrames
  BY FramesNow
<1> DEFINE s == IF sem < MaxFrames THEN sem + 1 ELSE sem
           o == IF Presents = 0 THEN 0 ELSE IF sem < MaxFrames THEN owed ELSE owed - 1
<1>3. sem' = s /\ owed' = o /\ s \in 0 .. MaxFrames /\ o \in Int
  BY <1>2, FramesNow, PresentAssumption DEF ServerReleases
<1>4. Balanced(s, Presents, FALSE, waiting, o, clientBridge)
  <2>1. CASE Presents = 0 /\ sem < MaxFrames
    BY <1>1, <1>2, <2>1, BalancesNow, PresentAssumption DEF Rebalances
  <2>2. CASE Presents = 0 /\ sem = MaxFrames
    BY <1>1, <1>2, <2>2, BalancesNow, PresentAssumption DEF Rebalances
  <2>3. CASE Presents > 0 /\ sem < MaxFrames
    BY <1>1, <1>2, <2>3, BalancesNow, PresentAssumption DEF Rebalances
  <2>4. CASE Presents > 0 /\ sem = MaxFrames
    BY <1>1, <1>2, <2>4, BalancesNow, PresentAssumption DEF Rebalances
  <2> QED
    <3>1. /\ Presents = 0 \/ Presents > 0
          /\ sem < MaxFrames \/ sem = MaxFrames
      BY <1>2, PresentAssumption
    <3> QED
      BY <2>1, <2>2, <2>3, <2>4, <3>1, Zenon
<1>5. o \in -1 .. MaxFrames + K + 2
  <2> HIDE DEF s, o
  <2>1. Presents \in 0 .. K /\ waiting \in BOOLEAN /\ clientBridge \in BOOLEAN
    BY FramesNow
  <2> QED
    BY <1>3, <1>4, <2>1, BalanceBounds
<1> HIDE DEF s, o
<1>6. Frames'
  BY <1>1, <1>3, <1>4 DEF Frames, vars, cvars
<1> QED
  BY <1>1, <1>3, <1>5, <1>6 DEF IInv, LifeInv, TypeOK

LEMMA FirstFrames == Init => IInv
<1> SUFFICES ASSUME Init PROVE IInv
  OBVIOUS
<1>1. LifeInv
  <2>1. <<>> \in Seq(Commands) /\ <<>> \in Seq(Answers) /\ Len(<<>>) = 0
    OBVIOUS
  <2>2. LifeTypeOK
    <3>1. Len(toServer) <= K /\ Len(toClient) <= 2
      BY <2>1, LifecycleAssumption DEF Init, LifeInit
    <3>2. \A flag \in {clientBridge, serverBridge, ghModule, infiniteRetries, sawTerminate} :
            flag \in BOOLEAN
      BY DEF Init, LifeInit
    <3> QED
      BY <3>1, <3>2 DEF Init, LifeInit, LifeTypeOK
  <2>3. Rings
    BY <2>1 DEF Init, LifeInit, Rings, ClientGone
  <2>4. Leaving
    BY <2>1 DEF Init, LifeInit, Leaving, Told
  <2> QED
    BY <2>2, <2>3, <2>4 DEF LifeInv
<1>2. Presents = 0
  <2>1. { i \in DOMAIN toServer : toServer[i] = "Present" } = {}
    BY DEF Init, LifeInit
  <2> QED
    BY <2>1, FS_EmptySet DEF Presents, PresentsIn
<1>3. Balanced(0, 0, FALSE, FALSE, 0, TRUE)
  BY PresentAssumption DEF Balanced
<1>4. Frames
  BY <1>2, <1>3 DEF Init, LifeInit, Frames
<1>5. TypeOK
  <2>1. 0 \in 0 .. MaxFrames /\ 0 \in 0 .. MaxRetries + 1 /\ 0 \in -1 .. MaxFrames + K + 2
    BY PresentAssumption, LifecycleAssumption
  <2>2. sem = 0 /\ numRetries = 0 /\ owed = 0
        /\ \A flag \in {waiting, unlimited, presented} : flag \in BOOLEAN
    BY DEF Init
  <2> QED
    BY <1>1, <2>1, <2>2 DEF LifeInv, TypeOK
<1> QED
  BY <1>1, <1>4, <1>5 DEF Init, IInv

LEMMA NextFrames == IInv /\ [Next]_allVars => IInv'
<1> SUFFICES ASSUME IInv, [Next]_allVars PROVE IInv'
  OBVIOUS
<1> USE DEF Alone
<1>1. CASE (~waiting /\ Alone(Client)) \/ Alone(ClientCrashes) \/ Alone(FocusChanges)
  <2>1. LifeInv'
    BY <1>1, ClientKeepsLife DEF IInv, Client, Detach
  <2> QED
    BY <1>1, <2>1, QuietClient, QuietStep DEF IInv
<1>2. CASE ~presented /\ Alone(Server)
  <2>1. LifeInv'
    BY <1>2, ServerKeepsLife DEF IInv, Server
  <2> QED
    BY <1>2, <2>1, QuietServer, QuietStep DEF IInv
<1>3. CASE Alone(Callbacks)
  <2>1. LifeInv'
    BY <1>3, CallbackKeepsLife DEF IInv, Callbacks
  <2> QED
    BY <1>3, <2>1, QuietServer, QuietStep DEF IInv
<1>4. CASE SendPresent \/ SyncOnPresent \/ ServerPresents \/ ServerReleases
  BY <1>4, SendPresentStep, SyncStep, ServerPresentsStep, ServerReleasesStep
<1>5. CASE UNCHANGED allVars
  <2>1. LifeInv'
    BY <1>5 DEF IInv, LifeInv, LifeTypeOK, Rings, Leaving, Told, allVars, vars, cvars, svars,
                rings, ClientGone
  <2> QED
    BY <1>5, <2>1, QuietStep DEF allVars, vars, cvars, rings
<1> QED
  BY <1>1, <1>2, <1>3, <1>4, <1>5 DEF Next, ServerLoop

LEMMA FramesAlways == Spec => []IInv
  BY FirstFrames, NextFrames, PTL DEF Spec
-----------------------------------------------------------------------------
(* Every variable of the two processes and of the semaphore keeps its type; *)
(* the rings hold no more commands than they have slots, and the ring to   *)
(* the client, which SendAck and SendCleanAck do not ask for room, at most *)
(* two.                                                                    *)
THEOREM PresentTypes == Spec => []TypeOK
<1>1. IInv => TypeOK
  BY DEF IInv
<1> QED
  BY <1>1, FramesAlways, PTL

(* A game that told its server to go (SendTerminate in RemixDetach) is not *)
(* aborted by OnServerExited, however the end of the server, its crash and *)
(* the callback interleave with the detach.                                *)
THEOREM DetachIsQuiet == Spec => []NoSpuriousAbort
<1>1. IInv => NoSpuriousAbort
  BY DEF IInv, LifeInv, Leaving, Told, NoSpuriousAbort
<1> QED
  BY <1>1, FramesAlways, PTL

(* syncOnPresent keeps the game at most presentSemaphoreMaxFrames ahead of *)
(* the server, plus the frame it is waiting for and those whose wait timed *)
(* out, for any number of frames, retries and commands in the ring.        *)
THEOREM LeadIsBounded == Spec => []LeadBounded
<1>1. IInv => LeadBounded
  <2> SUFFICES ASSUME IInv PROVE LeadBounded
    OBVIOUS
  <2> QED
    BY FramesNow, BalanceBounds DEF LeadBounded, Lead, Waiting
<1> QED
  BY <1>1, FramesAlways, PTL

(* A client that waits in syncOnPresent when the server has answered every *)
(* Present finds a token: none was lost to a release at the maximum count  *)
(* or to a wait that was given up.                                         *)
THEOREM TokenIsThere == Spec => []TokenArrives
<1>1. IInv => TokenArrives
  <2> SUFFICES ASSUME IInv PROVE TokenArrives
    OBVIOUS
  <2> QED
    BY FramesNow, BalanceBounds DEF TokenArrives, Lead
<1> QED
  BY <1>1, FramesAlways, PTL
==============================================================================
