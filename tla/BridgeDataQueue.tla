--------------------------- MODULE BridgeDataQueue ---------------------------
(***************************************************************************)
(* The data ring that carries the arguments of the client's commands to    *)
(* the server, and the protocol that is to keep the client from            *)
(* overwriting arguments the server has not read                           *)
(* (Bridge::syncDataQueue, and the end of ProcessDeviceCommandQueue).      *)
(*                                                                         *)
(* Client and server each walk the ring with a private position; the       *)
(* server publishes its own only at the end of each command.  A word of    *)
(* the ring is abstracted to the identifier of the command that wrote it,  *)
(* which is all it takes to tell whether the server reads what was sent;   *)
(* a word that has been read is forgotten, as nobody reads it again.       *)
(*                                                                         *)
(* The command ring between the two is the BoundedFifo that                *)
(* AtomicCircularQueue implements.                                         *)
(***************************************************************************)
EXTENDS Integers, Sequences, FiniteSetsExt

CONSTANTS
  Sizes,       \* the sizes the data ring can be configured to, in words
  K,           \* commands the command ring holds
  Items,       \* the arguments a command can send after its UID
  MaxItems,    \* arguments per command
  GiveUp       \* TRUE when a wait on dataSemaphore can exhaust its retries

(* An argument is n words (send_data, send_many) or an object of n words   *)
(* behind its size word (send_data(size, obj), begin_data_blob).           *)
ItemType == [kind : {"words", "object"}, n : Nat]

ASSUME DataAssumption ==
  /\ Sizes \subseteq Nat /\ \A m \in Sizes : m >= 3
  /\ K \in Nat \ {0}
  /\ Items \subseteq ItemType /\ Items # {}
  /\ MaxItems \in Nat
  /\ GiveUp \in BOOLEAN
(* A larger object leaves the position past the end of the ring.           *)
ASSUME ItemAssumption ==
  \A it \in Items, m \in Sizes : it.n < m /\ (it.kind = "words" => it.n > 0)

VARIABLES
  M,                       \* m_size, which the options decide at the start
  ring,                    \* the data ring: who wrote each word
  cmds,                    \* headers in the command ring
  serverDataPos,           \* shared words of the IPC channel
  clientDataExpectedPos,
  serverResetPosRequired,
  dataSemaphore,
  cpc, cPos, cUid,         \* the client: control point, m_pos, s_cmdUID
  s_curBatchStartPos,
  cSent, cItem,            \* arguments sent so far, the one being sent
  cServer, cExpect,        \* syncDataQueue's serverCount, expectedClientDataPos
  cResume,                 \* where handleOverwriteCondition returns to
  gaveUp,                  \* history: a wait on the semaphore was given up
  spc, sPos, sCmd, sLeft   \* the server: control point, m_pos, header, unread

shared == <<serverDataPos, clientDataExpectedPos, serverResetPosRequired,
            dataSemaphore>>
client == <<M, cpc, cPos, cUid, s_curBatchStartPos, cSent, cItem, cServer,
            cExpect, cResume, gaveUp>>
server == <<M, spc, sPos, sCmd, sLeft>>
dataVars == <<ring, cmds, shared, client, server>>

---------------------------------------------------------------------------
(* Positions.  Both ends move by the same rules.                           *)

(* CircularQueue::pop.                                                     *)
Bump(p) == IF p + 1 < M THEN p + 1 ELSE 0

(* CircularBuffer::ensure_space: an object is never split.                 *)
EnsureSpace(p, n) == IF p + n >= M THEN 0 ELSE p

(* Where the words of an argument go, and the position after it.           *)
ItemWords(p, it) ==
  IF it.kind = "words"
  THEN {(p + i) % M : i \in 0 .. it.n - 1}
  ELSE {p} \cup {EnsureSpace(Bump(p), it.n) + i : i \in 0 .. it.n - 1}

PushPos(p, it) ==
  IF it.kind = "words" THEN (p + it.n) % M
                       ELSE EnsureSpace(Bump(p), it.n) + it.n

(* Faulty: the reader lets an object run round the end of the ring.        *)
PullPosSplit(p, it) ==
  IF it.kind = "words" THEN (p + it.n) % M
                       ELSE (Bump(p) + it.n) % M

PullPos(p, it) ==
  IF it.kind = "words" THEN (p + it.n) % M
                       ELSE EnsureSpace(Bump(p), it.n) + it.n

(* The memory send_data and send_many announce to syncDataQueue.           *)
MemUsage(it) == IF it.kind = "words" THEN it.n ELSE it.n + 1

UidWord == [kind |-> "words", n |-> 1]

(* Identifiers are reused only when no trace of the earlier command is     *)
(* left: at most K + 2 commands are in progress at once.                   *)
UidRange == K + 3
NoWriter == UidRange

---------------------------------------------------------------------------

DataInit ==
  /\ M \in Sizes
  /\ ring = [p \in 0 .. M - 1 |-> NoWriter]
  /\ cmds = << >>
  /\ serverDataPos = -1 /\ clientDataExpectedPos = -1
  /\ serverResetPosRequired = FALSE /\ dataSemaphore = 0
  /\ cpc = "idle" /\ cPos = 0 /\ cUid = 0 /\ s_curBatchStartPos = -1
  /\ cSent = << >> /\ cItem = UidWord
  /\ cServer = -1 /\ cExpect = 0 /\ cResume = "wrap" /\ gaveUp = FALSE
  /\ spc = "idle" /\ sPos = 0 /\ sLeft = << >>
  /\ sCmd = [uid |-> NoWriter, items |-> << >>, dataOffset |-> 0]

(* Command::Command: note where this command's data starts, then send the  *)
(* UID.                                                                    *)
CommandBegin ==
  /\ cpc = "idle"
  /\ s_curBatchStartPos' = cPos
  /\ cSent' = << >> /\ cItem' = UidWord
  /\ cpc' = "sync"
  /\ UNCHANGED <<ring, cmds, shared, cPos, cUid, cServer, cExpect, cResume,
                 gaveUp, server>>

(* send_data, send_many, begin_data_blob.                                  *)
SendItem(it) ==
  /\ cpc = "open"
  /\ Len(cSent) <= MaxItems
  /\ cItem' = it
  /\ cpc' = "sync"
  /\ UNCHANGED <<ring, cmds, shared, cPos, cUid, s_curBatchStartPos, cSent,
                 cServer, cExpect, cResume, gaveUp, server>>

(* syncDataQueue: read the server's position.                              *)
SyncLoad ==
  /\ cpc = "sync"
  /\ cServer' = serverDataPos
  /\ cExpect' = cPos + (IF MemUsage(cItem) # 0 THEN MemUsage(cItem) ELSE 1) - 1
  /\ cpc' = IF cExpect' >= M THEN "lap" ELSE "test"
  /\ UNCHANGED <<ring, cmds, shared, cPos, cUid, s_curBatchStartPos, cSent,
                 cItem, cResume, gaveUp, server>>

(* The server still has the previous lap to finish.                        *)
SyncDoubleOverflow ==
  /\ cpc = "lap"
  /\ serverResetPosRequired
  /\ cpc' = "announce" /\ cResume' = "wrap"
  /\ UNCHANGED <<ring, cmds, shared, cPos, cUid, s_curBatchStartPos, cSent,
                 cItem, cServer, cExpect, gaveUp, server>>

SyncWrap ==
  /\ \/ cpc = "lap" /\ ~serverResetPosRequired
     \/ cpc = "wrap"
  /\ cExpect' = IF cItem.kind = "object" THEN MemUsage(cItem) - 1
                                         ELSE cExpect - M
  /\ serverResetPosRequired' = TRUE
  /\ cpc' = "test"
  /\ UNCHANGED <<ring, cmds, serverDataPos, clientDataExpectedPos,
                 dataSemaphore, cPos, cUid, s_curBatchStartPos, cSent, cItem,
                 cServer, cResume, gaveUp, server>>

(* The comparison with serverCount is unsigned: -1 exceeds every position. *)
Overwrites ==
  /\ cServer >= 0
  /\ cExpect >= cServer
  /\ \/ s_curBatchStartPos < cServer
     \/ s_curBatchStartPos > cServer /\ cExpect < s_curBatchStartPos
     \/ s_curBatchStartPos <= cServer /\ serverResetPosRequired

SyncTest ==
  /\ cpc = "test"
  /\ cpc' = IF Overwrites THEN "announce" ELSE "write"
  /\ cResume' = IF Overwrites THEN "write" ELSE cResume
  /\ UNCHANGED <<ring, cmds, shared, cPos, cUid, s_curBatchStartPos, cSent,
                 cItem, cServer, cExpect, gaveUp, server>>

(* handleOverwriteCondition: tell the server which position is awaited, or *)
(* exit when the command can never fit.                                    *)
BatchUsed == IF cPos >= s_curBatchStartPos THEN cPos - s_curBatchStartPos
                                           ELSE cPos + M - s_curBatchStartPos

Announce ==
  /\ cpc = "announce"
  /\ clientDataExpectedPos' = s_curBatchStartPos - 1
  /\ cpc' = IF MemUsage(cItem) + BatchUsed > M THEN "exited" ELSE "wait"
  /\ UNCHANGED <<ring, cmds, serverDataPos, serverResetPosRequired,
                 dataSemaphore, cPos, cUid, s_curBatchStartPos, cSent, cItem,
                 cServer, cExpect, cResume, gaveUp, server>>

WaitSucceeds ==
  /\ cpc = "wait"
  /\ dataSemaphore = 1
  /\ dataSemaphore' = 0
  /\ cpc' = "resolved"
  /\ UNCHANGED <<ring, cmds, serverDataPos, clientDataExpectedPos,
                 serverResetPosRequired, cPos, cUid, s_curBatchStartPos,
                 cSent, cItem, cServer, cExpect, cResume, gaveUp, server>>

(* Faulty: the client waits for the signal however long it takes.          *)
WaitForever ==
  /\ cpc = "wait"
  /\ dataSemaphore = 0
  /\ UNCHANGED dataVars

(* Every retry timed out; the client only logs it and goes on.             *)
WaitGivesUp ==
  /\ GiveUp
  /\ cpc = "wait"
  /\ dataSemaphore = 0
  /\ cpc' = "resolved" /\ gaveUp' = TRUE
  /\ UNCHANGED <<ring, cmds, shared, cPos, cUid, s_curBatchStartPos, cSent,
                 cItem, cServer, cExpect, cResume, server>>

Resolve ==
  /\ cpc = "resolved"
  /\ clientDataExpectedPos' = -1
  /\ serverResetPosRequired' = FALSE
  /\ cpc' = cResume
  /\ UNCHANGED <<ring, cmds, serverDataPos, dataSemaphore, cPos, cUid,
                 s_curBatchStartPos, cSent, cItem, cServer, cExpect, cResume,
                 gaveUp, server>>

(* CircularBuffer::push, CircularQueue::push, push_many.                   *)
WriteItem ==
  /\ cpc = "write"
  /\ ring' = [p \in 0 .. M - 1 |->
                IF p \in ItemWords(cPos, cItem) THEN cUid ELSE ring[p]]
  /\ cPos' = PushPos(cPos, cItem)
  /\ cSent' = Append(cSent, cItem)
  /\ cpc' = "open"
  /\ UNCHANGED <<cmds, shared, cUid, s_curBatchStartPos, cItem, cServer,
                 cExpect, cResume, gaveUp, server>>

(* Command::~Command: push the header (waiting for room in the command     *)
(* ring) and move on to the next UID.                                      *)
CommandEnd ==
  /\ cpc = "open"
  /\ Len(cmds) < K
  /\ cmds' = Append(cmds, [uid |-> cUid, items |-> cSent, dataOffset |-> cPos])
  /\ cUid' = (cUid + 1) % UidRange
  /\ s_curBatchStartPos' = -1
  /\ cpc' = "idle"
  /\ UNCHANGED <<ring, shared, cPos, cSent, cItem, cServer, cExpect, cResume,
                 gaveUp, server>>

ClientNext ==
  \/ CommandBegin \/ (\E it \in Items : SendItem(it))
  \/ SyncLoad \/ SyncDoubleOverflow \/ SyncWrap \/ SyncTest
  \/ Announce \/ WaitSucceeds \/ WaitGivesUp \/ Resolve
  \/ WriteItem \/ CommandEnd

---------------------------------------------------------------------------
(* The server: ProcessDeviceCommandQueue.                                  *)

PopCommand ==
  /\ spc = "idle"
  /\ cmds # << >>
  /\ sCmd' = Head(cmds) /\ sLeft' = Head(cmds).items
  /\ cmds' = Tail(cmds)
  /\ spc' = "read"
  /\ UNCHANGED <<ring, shared, client, sPos>>

(* get_data: a position that moved back has completed the lap.             *)
PullItem ==
  /\ spc = "read"
  /\ sLeft # << >>
  /\ sPos' = PullPos(sPos, Head(sLeft))
  /\ ring' = [p \in 0 .. M - 1 |->
                IF p \in ItemWords(sPos, Head(sLeft)) THEN NoWriter ELSE ring[p]]
  /\ serverResetPosRequired' = (serverResetPosRequired /\ sPos' >= sPos)
  /\ sLeft' = Tail(sLeft)
  /\ UNCHANGED <<cmds, serverDataPos, clientDataExpectedPos, dataSemaphore,
                 client, spc, sCmd>>

PublishPos ==
  /\ spc = "read"
  /\ sLeft = << >>
  /\ serverDataPos' = sPos
  /\ spc' = "published"
  /\ UNCHANGED <<ring, cmds, clientDataExpectedPos, serverResetPosRequired,
                 dataSemaphore, client, sPos, sCmd, sLeft>>

(* Faulty: does not ask whether a client is waiting at all.                *)
CheckUnasked ==
  /\ spc = "published"
  /\ spc' = IF /\ serverDataPos > clientDataExpectedPos
               /\ ~serverResetPosRequired
            THEN "release" ELSE "idle"
  /\ UNCHANGED <<ring, cmds, shared, client, sPos, sCmd, sLeft>>

(* Has a waiting client's position been read, on this lap?                 *)
CheckExpected ==
  /\ spc = "published"
  /\ spc' = IF /\ clientDataExpectedPos # -1
               /\ serverDataPos > clientDataExpectedPos
               /\ ~serverResetPosRequired
            THEN "release" ELSE "idle"
  /\ UNCHANGED <<ring, cmds, shared, client, sPos, sCmd, sLeft>>

ReleaseData ==
  /\ spc = "release"
  /\ dataSemaphore' = 1
  /\ spc' = "clear"
  /\ UNCHANGED <<ring, cmds, serverDataPos, clientDataExpectedPos,
                 serverResetPosRequired, client, sPos, sCmd, sLeft>>

ClearExpected ==
  /\ spc = "clear"
  /\ clientDataExpectedPos' = -1
  /\ spc' = "idle"
  /\ UNCHANGED <<ring, cmds, serverDataPos, serverResetPosRequired,
                 dataSemaphore, client, sPos, sCmd, sLeft>>

ServerNext ==
  \/ PopCommand \/ PullItem \/ PublishPos
  \/ CheckExpected \/ ReleaseData \/ ClearExpected

DataNext == ClientNext \/ ServerNext

DataSpec == DataInit /\ [][DataNext]_dataVars

(* The server's loop is always scheduled, and so is a client thread inside *)
(* a Command; it is the application that decides to start one.             *)
DataFairness ==
  /\ WF_dataVars(ServerNext)
  /\ WF_dataVars(SyncLoad) /\ WF_dataVars(SyncDoubleOverflow) /\ WF_dataVars(SyncWrap)
  /\ WF_dataVars(SyncTest) /\ WF_dataVars(Announce)
  /\ WF_dataVars(WaitSucceeds \/ WaitGivesUp) /\ WF_dataVars(Resolve)
  /\ WF_dataVars(WriteItem) /\ WF_dataVars(CommandEnd)

DataFairSpec == DataSpec /\ DataFairness

---------------------------------------------------------------------------

HeaderType == [uid : 0 .. UidRange, items : Seq(Items \cup {UidWord}),
               dataOffset : 0 .. M]

(* Types; the positions of both ends stay inside the ring.                 *)
DataTypeOK ==
  /\ M \in Sizes
  /\ ring \in [0 .. M - 1 -> 0 .. UidRange]
  /\ cmds \in Seq(HeaderType) /\ Len(cmds) <= K
  /\ serverDataPos \in -1 .. M - 1 /\ clientDataExpectedPos \in -1 .. M - 2
  /\ serverResetPosRequired \in BOOLEAN /\ dataSemaphore \in 0 .. 1
  /\ cpc \in {"idle", "open", "sync", "lap", "wrap", "test", "announce",
              "wait", "resolved", "write", "exited"}
  /\ cPos \in 0 .. M - 1 /\ cUid \in 0 .. UidRange - 1
  /\ s_curBatchStartPos \in -1 .. M - 1
  /\ cSent \in Seq(Items \cup {UidWord}) /\ cItem \in Items \cup {UidWord}
  /\ cServer \in -1 .. M - 1 /\ cExpect \in 0 .. 2 * M
  /\ cResume \in {"wrap", "write"}
  /\ spc \in {"idle", "read", "published", "release", "clear"}
  /\ sPos \in 0 .. M - 1
  /\ sCmd \in HeaderType /\ sLeft \in Seq(Items \cup {UidWord})

(* The words of the largest command: its UID and its largest arguments.    *)
CommandWords == 1 + MaxItems * Max({ MemUsage(it) : it \in Items })

(* The words the server is about to read are those the client wrote for    *)
(* the command it is processing, if the ring holds the data of all the     *)
(* commands under way and what moving an object to the front leaves free.  *)
DataIntact ==
  /\ M >= (K + 2) * CommandWords + Max({ it.n : it \in Items })
  /\ spc = "read" /\ sLeft # << >>
  => \A p \in ItemWords(sPos, Head(sLeft)) : ring[p] = sCmd.uid

(* What syncDataQueue is for: once the server has published a position and *)
(* the client has looked at it, the client does not write over words the   *)
(* server has not read.                                                    *)
NoOverwrite ==
  cpc = "write" /\ cServer >= 0 =>
    \A p \in ItemWords(cPos, cItem) : ring[p] = NoWriter

(* The semaphore is raised only for a client that is waiting for it, or    *)
(* has exited and never will again: no later wait returns on an old        *)
(* signal, as long as no wait was given up.                                *)
TokenMatchesWait == dataSemaphore = 1 /\ ~gaveUp => cpc \in {"wait", "exited"}

(* Whatever the protection does, a command being sent gets sent, or the    *)
(* client exits: a missed signal costs the retries, never a hang.          *)
SendCompletes == (cpc = "sync") ~> (cpc \in {"open", "exited"})
==============================================================================
