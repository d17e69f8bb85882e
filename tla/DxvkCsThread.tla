----------------------------- MODULE DxvkCsThread -----------------------------
(***************************************************************************)
(* The command stream: application threads record commands into a chunk    *)
(* under the lock of their device, full or flushed chunks are dispatched   *)
(* to one worker thread that executes them, and a caller may wait for all  *)
(* chunks or for the last one that uses a resource.                        *)
(*                                                                         *)
(* Commands are numbers in the order in which they are recorded.  One      *)
(* resource stands for each.  A front end's call is one step up to its     *)
(* wait; a thread whose predicate is false sleeps until it is notified.    *)
(***************************************************************************)
EXTENDS Integers, Sequences, FiniteSets, Functions

CONSTANTS
  Callers,
  ChunkSize,     \* commands that fit in a chunk
  MaxCommands    \* bound on the commands recorded

ASSUME StreamAssumption ==
  /\ "worker" \notin Callers /\ "free" \notin Callers /\ Callers # {}
  /\ ChunkSize \in Nat \ {0} /\ MaxCommands \in Nat

VARIABLES
  m_csChunk,       \* the chunk being recorded
  m_csSeqNum,      \* the number of the chunk dispatched last
  deviceLock,
  commands,        \* how many commands were recorded
  seqOfResource,   \* the resource's sequence number
  uses,            \* history: the commands that use the resource
  m_chunksQueued, m_chunksDispatched, m_chunksExecuted, m_stopped,
  chunk,           \* what the worker still has to execute of its chunk
  executed,        \* history: the commands executed, in order
  sleeping, pc,
  seq,             \* the number each caller waits for
  asked,           \* history: the number it called synchronize with,
  before           \* and the commands that were recorded by then

frontEnd == <<m_csChunk, m_csSeqNum, commands, seqOfResource, uses>>
queue == <<m_chunksQueued, m_chunksDispatched>>
calls == <<seq, asked, before>>
vars == <<frontEnd, deviceLock, queue, m_chunksExecuted, m_stopped, chunk,
          executed, sleeping, pc, calls>>

Threads == Callers \cup {"worker"}
SynchronizeAll == -1
Commands == 1 .. MaxCommands

Init ==
  /\ m_csChunk = <<>> /\ m_csSeqNum = 0 /\ deviceLock = "free" /\ commands = 0
  /\ seqOfResource = 0 /\ uses = {}
  /\ m_chunksQueued = <<>> /\ m_chunksDispatched = 0 /\ m_chunksExecuted = 0
  /\ m_stopped = FALSE /\ chunk = <<>> /\ executed = <<>>
  /\ sleeping = [t \in Threads |-> "awake"]
  /\ pc = [t \in Threads |-> IF t = "worker" THEN "loop" ELSE "idle"]
  /\ seq = [c \in Callers |-> 0] /\ asked = [c \in Callers |-> 0]
  /\ before = [c \in Callers |-> 0]

---------------------------------------------------------------------------

Goto(t, where) == pc' = [pc EXCEPT ![t] = where]

(* notify_one.                                                             *)
NotifyOne(cond) ==
  LET asleep == {t \in Threads : sleeping[t] = cond}
  IN  IF asleep = {} THEN UNCHANGED sleeping
      ELSE \E t \in asleep : sleeping' = [sleeping EXCEPT ![t] = "awake"]

(* dispatchChunk, of several chunks in turn.                               *)
DispatchChunks(chunks) ==
  /\ m_chunksQueued' = m_chunksQueued \o chunks
  /\ m_chunksDispatched' = m_chunksDispatched + Len(chunks)
  /\ m_csSeqNum' = IF chunks = <<>> THEN m_csSeqNum ELSE m_chunksDispatched'
  /\ IF chunks = <<>> THEN UNCHANGED sleeping ELSE NotifyOne("m_condOnAdd")

FlushCsChunk == IF m_csChunk = <<>> THEN <<>> ELSE <<m_csChunk>>

(* push: no room for another command.                                      *)
Full == Len(m_csChunk) = ChunkSize

(* A caller has the lock of a device made for several threads for its      *)
(* whole call.                                                             *)
Calls(c) == pc[c] = "idle" /\ deviceLock = "free" /\ ~m_stopped

(* Faulty: take the number of the chunk dispatched last. *)
RecordUnderLast(c) ==
  /\ Calls(c) /\ commands < MaxCommands
  /\ commands' = commands + 1
  /\ DispatchChunks(IF Full THEN <<m_csChunk>> ELSE <<>>)
  /\ m_csChunk' = IF Full THEN <<commands'>> ELSE Append(m_csChunk, commands')
  /\ \/ uses' = uses \cup {commands'} /\ seqOfResource' = m_csSeqNum'
     \/ UNCHANGED <<uses, seqOfResource>>
  /\ UNCHANGED <<deviceLock, m_chunksExecuted, m_stopped, chunk, executed, pc,
                 calls>>

(* EmitCs: a command that may use the resource.                            *)
Record(c) ==
  /\ Calls(c) /\ commands < MaxCommands
  /\ commands' = commands + 1
  /\ DispatchChunks(IF Full THEN <<m_csChunk>> ELSE <<>>)
  /\ m_csChunk' = IF Full THEN <<commands'>> ELSE Append(m_csChunk, commands')
  /\ \/ uses' = uses \cup {commands'} /\ seqOfResource' = m_csSeqNum' + 1
     \/ UNCHANGED <<uses, seqOfResource>>
  /\ UNCHANGED <<deviceLock, m_chunksExecuted, m_stopped, chunk, executed, pc,
                 calls>>

(* Flush: a command for the submission, then the chunk goes.               *)
Flush(c) ==
  /\ Calls(c) /\ commands < MaxCommands
  /\ commands' = commands + 1
  /\ DispatchChunks(IF Full THEN <<m_csChunk, <<commands'>>>>
                            ELSE <<Append(m_csChunk, commands')>>)
  /\ m_csChunk' = <<>>
  /\ UNCHANGED <<deviceLock, seqOfResource, uses, m_chunksExecuted, m_stopped,
                 chunk, executed, pc, calls>>

(* Faulty: dispatch the list before the chunk being recorded. *)
ExecuteListAtOnce(c) ==
  /\ Calls(c) /\ commands + 2 <= MaxCommands
  /\ commands' = commands + 2
  /\ DispatchChunks(<< <<commands + 1>>, <<commands + 2>> >>)
  /\ uses' = uses \cup {commands + 1} /\ seqOfResource' = m_csSeqNum'
  /\ UNCHANGED <<m_csChunk, deviceLock, m_chunksExecuted, m_stopped, chunk,
                 executed, pc, calls>>

(* A command list recorded elsewhere, of two chunks, uses the resource.    *)
ExecuteCommandList(c) ==
  /\ Calls(c) /\ commands + 2 <= MaxCommands
  /\ commands' = commands + 2
  /\ DispatchChunks(FlushCsChunk \o << <<commands + 1>>, <<commands + 2>> >>)
  /\ m_csChunk' = <<>>
  /\ uses' = uses \cup {commands + 1} /\ seqOfResource' = m_csSeqNum'
  /\ UNCHANGED <<deviceLock, m_chunksExecuted, m_stopped, chunk, executed, pc,
                 calls>>

---------------------------------------------------------------------------
(* SynchronizeCsThread and synchronize.                                    *)

(* D3D9 waits for everything and flushes first; D3D11 waits for a resource *)
(* and flushes only when the chunk being recorded may use it.              *)
Flushes(number) == number = SynchronizeAll \/ number > m_csSeqNum

Enter(c, number, where) ==
  /\ asked' = [asked EXCEPT ![c] = number]
  /\ before' = [before EXCEPT ![c] = commands]
  /\ seq' = [seq EXCEPT ![c] = IF number = SynchronizeAll THEN m_chunksDispatched'
                                                          ELSE number]
  /\ Goto(c, where)
  /\ UNCHANGED <<commands, seqOfResource, uses, m_chunksExecuted, m_stopped,
                 chunk, executed>>

(* Faulty: two threads synchronize at a time. *)
SynchronizeUnlocked(c, number) ==
  /\ pc[c] = "idle" /\ ~m_stopped
  /\ DispatchChunks(IF Flushes(number) THEN FlushCsChunk ELSE <<>>)
  /\ m_csChunk' = IF Flushes(number) THEN <<>> ELSE m_csChunk
  /\ Enter(c, number, "synchronize")
  /\ UNCHANGED deviceLock

(* Faulty: leave the chunk being recorded where it is. *)
SynchronizeDispatched(c, number) ==
  /\ Calls(c)
  /\ deviceLock' = c
  /\ DispatchChunks(<<>>) /\ UNCHANGED m_csChunk
  /\ Enter(c, number, "synchronize")

Synchronize(c, number) ==
  /\ Calls(c)
  /\ deviceLock' = c
  /\ DispatchChunks(IF Flushes(number) THEN FlushCsChunk ELSE <<>>)
  /\ m_csChunk' = IF Flushes(number) THEN <<>> ELSE m_csChunk
  /\ Enter(c, number, "synchronize")

(* No longer than it takes the worker to get past the number.              *)
WaitOver(c) ==
  /\ pc[c] = "synchronize" /\ sleeping[c] = "awake" /\ m_chunksExecuted >= seq[c]
  /\ Goto(c, "synchronized")
  /\ UNCHANGED <<frontEnd, deviceLock, queue, m_chunksExecuted, m_stopped, chunk,
                 executed, sleeping, calls>>

WaitGoesOn(c) ==
  /\ pc[c] = "synchronize" /\ sleeping[c] = "awake" /\ m_chunksExecuted < seq[c]
  /\ sleeping' = [sleeping EXCEPT ![c] = "m_condOnSync"]
  /\ UNCHANGED <<frontEnd, deviceLock, queue, m_chunksExecuted, m_stopped, chunk,
                 executed, pc, calls>>

Returns(c) ==
  /\ pc[c] = "synchronized"
  /\ deviceLock' = "free"
  /\ Goto(c, "idle")
  /\ UNCHANGED <<frontEnd, queue, m_chunksExecuted, m_stopped, chunk, executed,
                 sleeping, calls>>

(* The destructor of the device, no call of which is under way, waits for  *)
(* everything; then that of DxvkCsThread stops the worker.                 *)
Destroy(c) ==
  /\ pc[c] = "synchronized" /\ asked[c] = SynchronizeAll
  /\ \A t \in Callers \ {c} : pc[t] = "idle"
  /\ m_stopped' = TRUE
  /\ NotifyOne("m_condOnAdd")
  /\ Goto(c, "gone")
  /\ UNCHANGED <<frontEnd, deviceLock, queue, m_chunksExecuted, chunk, executed,
                 calls>>

---------------------------------------------------------------------------
(* threadFunc.                                                             *)

(* Faulty: count a chunk when it is taken. *)
TakeAndCount ==
  /\ pc["worker"] \in {"loop", "executed", "waiting"} /\ sleeping["worker"] = "awake"
  /\ pc["worker"] = "waiting" \/ ~m_stopped
  /\ m_chunksQueued # <<>>
  /\ chunk' = Head(m_chunksQueued) /\ m_chunksQueued' = Tail(m_chunksQueued)
  /\ m_chunksExecuted' = m_chunksExecuted + 1 /\ NotifyOne("m_condOnSync")
  /\ Goto("worker", "execute")
  /\ UNCHANGED <<frontEnd, deviceLock, m_chunksDispatched, m_stopped, executed,
                 calls>>

(* The chunk executed last is counted in the critical section that takes   *)
(* the next one, or begins to wait for it.                                 *)
CountExecuted ==
  IF pc["worker"] = "executed"
    THEN m_chunksExecuted' = m_chunksExecuted + 1 /\ NotifyOne("m_condOnSync")
    ELSE UNCHANGED <<m_chunksExecuted, sleeping>>

Take ==
  /\ pc["worker"] \in {"loop", "executed", "waiting"} /\ sleeping["worker"] = "awake"
  /\ pc["worker"] = "waiting" \/ ~m_stopped
  /\ m_chunksQueued # <<>>
  /\ CountExecuted
  /\ chunk' = Head(m_chunksQueued) /\ m_chunksQueued' = Tail(m_chunksQueued)
  /\ Goto("worker", "execute")
  /\ UNCHANGED <<frontEnd, deviceLock, m_chunksDispatched, m_stopped, executed,
                 calls>>

CountAndWait ==
  /\ pc["worker"] \in {"loop", "executed"} /\ ~m_stopped /\ m_chunksQueued = <<>>
  /\ CountExecuted
  /\ Goto("worker", "waiting")
  /\ UNCHANGED <<frontEnd, deviceLock, queue, m_stopped, chunk, executed, calls>>

(* The predicate of the worker's wait, found false.                        *)
WorkerSleeps ==
  /\ pc["worker"] = "waiting" /\ sleeping["worker"] = "awake"
  /\ m_chunksQueued = <<>> /\ ~m_stopped
  /\ sleeping' = [sleeping EXCEPT !["worker"] = "m_condOnAdd"]
  /\ UNCHANGED <<frontEnd, deviceLock, queue, m_chunksExecuted, m_stopped, chunk,
                 executed, pc, calls>>

WorkerExits ==
  /\ pc["worker"] \in {"loop", "executed", "waiting"} /\ sleeping["worker"] = "awake"
  /\ m_stopped /\ (pc["worker"] = "waiting" => m_chunksQueued = <<>>)
  /\ Goto("worker", "exited")
  /\ UNCHANGED <<frontEnd, deviceLock, queue, m_chunksExecuted, m_stopped, chunk,
                 executed, sleeping, calls>>

(* executeAll, a command at a time.                                        *)
Execute ==
  /\ pc["worker"] = "execute"
  /\ executed' = Append(executed, Head(chunk)) /\ chunk' = Tail(chunk)
  /\ Goto("worker", IF Len(chunk) = 1 THEN "executed" ELSE "execute")
  /\ UNCHANGED <<frontEnd, deviceLock, queue, m_chunksExecuted, m_stopped,
                 sleeping, calls>>

---------------------------------------------------------------------------

Waiter(c) == WaitOver(c) \/ WaitGoesOn(c)
Worker == Take \/ CountAndWait \/ WorkerSleeps \/ WorkerExits \/ Execute

Next ==
  \/ \E c \in Callers :
       \/ Record(c) \/ Flush(c) \/ ExecuteCommandList(c)
       \/ \E number \in {SynchronizeAll, seqOfResource} : Synchronize(c, number)
       \/ Waiter(c) \/ Returns(c) \/ Destroy(c)
  \/ Worker

Spec == Init /\ [][Next]_vars

(* Every thread runs when it can.                                          *)
FairSpec == Spec /\ WF_vars(Worker) /\ \A c \in Callers : WF_vars(Waiter(c))

---------------------------------------------------------------------------

TypeOK ==
  /\ m_csChunk \in Seq(Commands) /\ Len(m_csChunk) <= ChunkSize
  /\ m_csSeqNum = m_chunksDispatched /\ commands \in 0 .. MaxCommands
  /\ deviceLock \in Callers \cup {"free"}
  /\ seqOfResource \in 0 .. m_csSeqNum + 1 /\ uses \subseteq Commands
  /\ m_chunksDispatched \in 0 .. MaxCommands
  /\ m_chunksExecuted \in 0 .. m_chunksDispatched
  /\ \A i \in DOMAIN m_chunksQueued : m_chunksQueued[i] \in Seq(Commands) \ {<<>>}
  /\ m_stopped \in BOOLEAN /\ chunk \in Seq(Commands) /\ executed \in Seq(Commands)
  /\ sleeping \in [Threads -> {"awake", "m_condOnAdd", "m_condOnSync"}]
  /\ pc \in [Threads -> {"idle", "synchronize", "synchronized", "gone", "loop",
                         "waiting", "execute", "executed", "exited"}]
  /\ seq \in [Callers -> 0 .. MaxCommands] /\ before \in [Callers -> 0 .. MaxCommands]
  /\ asked \in [Callers -> -1 .. MaxCommands]

Executed == Range(executed)

(* Commands are executed in the order in which they were recorded, chunks  *)
(* of the device and of command lists alike, none twice and none left out, *)
(* and all of them when the worker has ended.                              *)
ExecutedInOrder ==
  /\ \A i \in DOMAIN executed : executed[i] = i
  /\ pc["worker"] = "exited" => Len(executed) = commands

(* When SynchronizeCsThread returns, all that was recorded before the call *)
(* was executed, and, if it was called for a resource, all that uses the   *)
(* resource, wherever its last command had been recorded.                  *)
SynchronizedMeansExecuted ==
  \A c \in Callers : pc[c] = "synchronized" =>
    /\ asked[c] = SynchronizeAll => 1 .. before[c] \subseteq Executed
    /\ asked[c] # SynchronizeAll => uses \subseteq Executed

(* lastSequenceNumber tells that no command that uses the resource is      *)
(* pending: Map then writes to it without taking a new slice.              *)
LastNumberMeansExecuted == m_chunksExecuted >= seqOfResource => uses \subseteq Executed

(* synchronize returns, although a chunk notifies only one waiter; and the *)
(* destruction of the thread ends.                                         *)
SynchronizeReturns ==
  /\ \A c \in Callers : pc[c] = "synchronize" ~> pc[c] # "synchronize"
  /\ m_stopped ~> pc["worker"] = "exited"
===============================================================================
