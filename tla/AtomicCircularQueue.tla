------------------------- MODULE AtomicCircularQueue -------------------------
(***************************************************************************)
(* The lock-free command ring of the bridge                                *)
(* (bridge/src/util/util_atomiccircularqueue.h): a single producer in one  *)
(* process and a single consumer in another share a header array and two   *)
(* indices.  The source names the indices from the other end's point of    *)
(* view: m_read is where the producer publishes, m_write is where the      *)
(* consumer consumes.                                                      *)
(*                                                                         *)
(* Every access to a shared word is a step of its own.  A header is larger *)
(* than a word, so a slot the producer is writing holds Torn until the     *)
(* write ends, and the consumer copies the slot pull() returned a          *)
(* reference to only after it has already given the slot back.             *)
(***************************************************************************)
EXTENDS Integers, Sequences

CONSTANTS
  Values,      \* the headers that can be sent
  Default,     \* m_default, returned when there is nothing to hand out
  Torn,        \* a slot whose write is in progress
  N,           \* m_queueSize
  TimeoutOn    \* FALSE when timeoutMS = 0: the loops then never give up

ASSUME SizeAssumption == N \in Nat /\ N >= 2
ASSUME TimeoutAssumption == TimeoutOn \in BOOLEAN
ASSUME ValueAssumption == Torn \notin Values /\ Default # Torn

VARIABLES
  m_data,      \* the header array
  m_read,      \* the index the producer publishes at
  m_write,     \* the index the consumer consumes at
  wpc, wCur, wObj,   \* the producer: control point, currentRead, obj
  rpc, rCur, rOut,   \* the consumer: control point, currentWrite, its copy
  rRes               \* the consumer's `result'

writer == <<wpc, wCur, wObj>>
reader == <<rpc, rCur, rOut, rRes>>
vars == <<m_data, m_read, m_write, writer, reader>>

Slots == 0 .. N - 1
Results == {"Success", "Timeout", "Failure"}

queueIdxInc(idx) == IF idx + 1 < N THEN idx + 1 ELSE 0

Init ==
  /\ m_data = [s \in Slots |-> Default]
  /\ m_read = 0 /\ m_write = 0
  /\ wpc = "idle" /\ wCur = 0 /\ wObj = Default
  /\ rpc = "idle" /\ rCur = 0 /\ rOut = Default /\ rRes = "Success"

---------------------------------------------------------------------------
(* The producer: push.                                                     *)

PushStart(obj) ==
  /\ wpc = "idle"
  /\ wpc' = "check" /\ wObj' = obj
  /\ UNCHANGED <<m_data, m_read, m_write, wCur, reader>>

(* Faulty: the header is stored without looking for room.                  *)
BeginStoreUnchecked ==
  /\ wpc = "check"
  /\ wpc' = "store" /\ wCur' = m_read
  /\ m_data' = [m_data EXCEPT ![m_read] = Torn]
  /\ UNCHANGED <<m_read, m_write, wObj, reader>>

(* Faulty: without the fence the index is published before the header.     *)
BeginStorePublished ==
  /\ wpc = "check"
  /\ queueIdxInc(m_read) # m_write
  /\ wpc' = "store" /\ wCur' = m_read
  /\ m_data' = [m_data EXCEPT ![m_read] = Torn]
  /\ m_read' = queueIdxInc(m_read)
  /\ UNCHANGED <<m_write, wObj, reader>>

(* The slot is free: the load of m_write saw it given back.                *)
PushBeginStore ==
  /\ wpc = "check"
  /\ queueIdxInc(m_read) # m_write
  /\ wpc' = "store" /\ wCur' = m_read
  /\ m_data' = [m_data EXCEPT ![m_read] = Torn]
  /\ UNCHANGED <<m_read, m_write, wObj, reader>>

PushEndStore ==
  /\ wpc = "store"
  /\ m_data' = [m_data EXCEPT ![wCur] = wObj]
  /\ wpc' = "publish"
  /\ UNCHANGED <<m_read, m_write, wCur, wObj, reader>>

PushPublish ==
  /\ wpc = "publish"
  /\ m_read' = queueIdxInc(wCur)
  /\ wpc' = "idle"
  /\ UNCHANGED <<m_data, m_write, wCur, wObj, reader>>

(* The ring was full for the whole command timeout: Result::Failure.       *)
PushTimeout ==
  /\ TimeoutOn
  /\ wpc = "check"
  /\ queueIdxInc(m_read) = m_write
  /\ wpc' = "idle"
  /\ UNCHANGED <<m_data, m_read, m_write, wCur, wObj, reader>>

---------------------------------------------------------------------------
(* The consumer: peek and pull.  Both return a reference into m_data that  *)
(* the caller copies in a later step; pull gives the slot back first.      *)

PeekStart ==
  /\ rpc = "idle"
  /\ rpc' = "peek"
  /\ UNCHANGED <<m_data, m_read, m_write, writer, rCur, rOut, rRes>>

PeekCheck ==
  /\ rpc = "peek"
  /\ m_write # m_read
  /\ rpc' = "copyPeek" /\ rCur' = m_write /\ rRes' = "Success"
  /\ UNCHANGED <<m_data, m_read, m_write, writer, rOut>>

PeekTimeout ==
  /\ TimeoutOn
  /\ rpc = "peek"
  /\ m_write = m_read
  /\ rpc' = "idle" /\ rOut' = Default /\ rRes' = "Timeout"
  /\ UNCHANGED <<m_data, m_read, m_write, writer, rCur>>

PullStart ==
  /\ rpc = "idle"
  /\ rpc' = "pull"
  /\ UNCHANGED <<m_data, m_read, m_write, writer, rCur, rOut, rRes>>

PullCheck ==
  /\ rpc = "pull"
  /\ m_write # m_read
  /\ rpc' = "advance" /\ rCur' = m_write
  /\ UNCHANGED <<m_data, m_read, m_write, writer, rOut, rRes>>

(* Faulty: the slot is read but never given back.                          *)
PullKeepsSlot ==
  /\ rpc = "advance"
  /\ rpc' = "copyPull" /\ rRes' = "Success"
  /\ UNCHANGED <<m_data, m_read, m_write, writer, rCur, rOut>>

PullAdvance ==
  /\ rpc = "advance"
  /\ m_write' = queueIdxInc(rCur)
  /\ rpc' = "copyPull" /\ rRes' = "Success"
  /\ UNCHANGED <<m_data, m_read, writer, rCur, rOut>>

(* On a timeout pull returns m_default and never assigns `result', which   *)
(* pop_front() declared without a value: any result can come out.          *)
PullTimeout ==
  /\ TimeoutOn
  /\ rpc = "pull"
  /\ m_write = m_read
  /\ rpc' = "idle" /\ rOut' = Default
  /\ rRes' \in Results
  /\ UNCHANGED <<m_data, m_read, m_write, writer, rCur>>

CopyReference ==
  /\ rpc \in {"copyPeek", "copyPull"}
  /\ rOut' = m_data[rCur]
  /\ rpc' = "idle"
  /\ UNCHANGED <<m_data, m_read, m_write, writer, rCur, rRes>>

---------------------------------------------------------------------------

WriterNext ==
  \/ \E obj \in Values : PushStart(obj)
  \/ PushBeginStore \/ PushEndStore \/ PushPublish \/ PushTimeout

ReaderNext ==
  \/ PeekStart \/ PeekCheck \/ PeekTimeout
  \/ PullStart \/ PullCheck \/ PullAdvance \/ PullTimeout
  \/ CopyReference

Next == WriterNext \/ ReaderNext

Spec == Init /\ [][Next]_vars

(* Both ends are threads the OS schedules.  The consumer's loop            *)
(* (waitForCommand, then pop_front) pulls again and again; the producer    *)
(* need never push again.                                                  *)
Fairness ==
  /\ WF_vars(PushBeginStore) /\ WF_vars(PushEndStore) /\ WF_vars(PushPublish)
  /\ WF_vars(PeekCheck) /\ WF_vars(PeekTimeout)
  /\ SF_vars(PullStart) /\ WF_vars(PullCheck)
  /\ WF_vars(PullAdvance) /\ WF_vars(CopyReference)

FairSpec == Spec /\ Fairness

---------------------------------------------------------------------------
(* The refinement mapping to BoundedFifo.                                  *)

(* The k-th slot from s, going round the ring.                             *)
SlotAt(s, k) == IF s + k < N THEN s + k ELSE s + k - N

Occupied == IF m_write <= m_read THEN m_read - m_write
                                 ELSE m_read - m_write + N

Contents == [i \in 1 .. Occupied |-> m_data[SlotAt(m_write, i - 1)]]

(* A reference the consumer still has to copy stands for what it refers to.*)
Handed == IF rpc \in {"copyPeek", "copyPull"} THEN m_data[rCur] ELSE rOut

Fifo == INSTANCE BoundedFifo WITH Capacity <- N - 1,
                                  queue <- Contents, out <- Handed

---------------------------------------------------------------------------

(* Types of the shared words and of both ends' local state.                *)
TypeOK ==
  /\ m_data \in [Slots -> Values \cup {Default, Torn}]
  /\ m_read \in Slots /\ m_write \in Slots
  /\ wpc \in {"idle", "check", "store", "publish"}
  /\ wCur \in Slots /\ wObj \in Values \cup {Default}
  /\ rpc \in {"idle", "peek", "copyPeek", "pull", "advance", "copyPull"}
  /\ rCur \in Slots /\ rOut \in Values \cup {Default, Torn}
  /\ rRes \in Results

(* The producer never writes the slot whose reference the consumer still   *)
(* has to copy, although pull has given that slot back by then: the one    *)
(* slot the ring keeps empty is what protects it.                          *)
NoSlotRace ==
  (wpc = "store" /\ rpc \in {"copyPeek", "copyPull"}) => wCur # rCur

(* The ring implements the bounded FIFO: no header is lost, duplicated,    *)
(* reordered or torn, and at most m_queueSize - 1 are in flight.           *)
ImplementsFifo == Fifo!Spec

(* A push that found the ring full gets through, because the consumer's    *)
(* loop keeps pulling: it does not depend on its time-out to end.          *)
PushCompletes == (wpc = "check") ~> (wpc = "idle")
==============================================================================
