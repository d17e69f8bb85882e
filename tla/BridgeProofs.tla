-------------------------------- MODULE BridgeProofs --------------------------------
(***************************************************************************)
(* Proofs about the three protocols of the bridge's shared memory.         *)
(*                                                                         *)
(* The command ring, for every queue size and every set of headers: the    *)
(* consumer's reference is never overwritten, and the ring implements the  *)
(* bounded FIFO.  Waiting calls, for any number of threads and commands,   *)
(* and whether waits can run out or not: until a caller takes a response   *)
(* after a failed wait, the unlocked response rings are read by one thread *)
(* at a time and every call that gets a response gets its own.  The        *)
(* overwrite guard of the data queue, for every size and every argument:   *)
(* its signals do not outlive the waits they answer.  The data queue       *)
(* itself, for every size, length of the command queue and set of          *)
(* arguments: where the commands under way fit, the server pulls what the  *)
(* client wrote.                                                           *)
(***************************************************************************)
EXTENDS AtomicCircularQueue, BridgeResponse, BridgeDataQueue, SequenceTheorems,
        FiniteSetTheorems, WellFoundedInduction, TLAPS

(* While the producer is past its check it still owns the slot at m_read,  *)
(* and the slot after it is still not the consumer's.                      *)
WriterInv ==
  /\ wpc # "idle" => wObj \in Values
  /\ wpc \in {"store", "publish"} =>
       wCur = m_read /\ queueIdxInc(m_read) # m_write
  /\ wpc = "publish" => m_data[wCur] = wObj

(* What the consumer's captured index is relative to the shared ones.      *)
ReaderInv ==
  /\ rpc \in {"advance", "copyPeek"} => rCur = m_write /\ m_write # m_read
  /\ rpc = "copyPull" => m_write = queueIdxInc(rCur)

IInv == TypeOK /\ WriterInv /\ ReaderInv

LEMMA IncInSlots ==
  ASSUME NEW i \in Slots
  PROVE  /\ queueIdxInc(i) \in Slots
         /\ queueIdxInc(i) # i
         /\ \A j \in Slots : queueIdxInc(i) = queueIdxInc(j) => i = j
  BY SizeAssumption DEF Slots, queueIdxInc

LEMMA InitIInv == Init => IInv
  BY SizeAssumption DEF Init, IInv, TypeOK, WriterInv, ReaderInv, Slots, Results

LEMMA StepIInv == IInv /\ [Next]_vars => IInv'
<1> SUFFICES ASSUME IInv, [Next]_vars PROVE IInv'
  OBVIOUS
<1> USE DEF IInv, TypeOK, WriterInv, ReaderInv, Results, writer, reader
<1>1. ASSUME NEW obj \in Values, PushStart(obj) PROVE IInv'
  BY <1>1 DEF PushStart
<1>2. CASE PushBeginStore
  BY <1>2, IncInSlots DEF PushBeginStore
<1>3. CASE PushEndStore
  BY <1>3 DEF PushEndStore
<1>4. CASE PushPublish
  BY <1>4, IncInSlots DEF PushPublish
<1>5. CASE PushTimeout
  BY <1>5 DEF PushTimeout
<1>6. CASE PeekStart
  BY <1>6 DEF PeekStart
<1>7. CASE PeekCheck
  BY <1>7 DEF PeekCheck
<1>8. CASE PeekTimeout
  BY <1>8 DEF PeekTimeout
<1>9. CASE PullStart
  BY <1>9 DEF PullStart
<1>10. CASE PullCheck
  BY <1>10 DEF PullCheck
<1>11. CASE PullAdvance
  BY <1>11, IncInSlots DEF PullAdvance
<1>12. CASE PullTimeout
  BY <1>12 DEF PullTimeout
<1>13. CASE CopyReference
  BY <1>13 DEF CopyReference
<1>14. CASE UNCHANGED vars
  BY <1>14 DEF vars
<1>15. QED
  BY <1>1, <1>2, <1>3, <1>4, <1>5, <1>6, <1>7, <1>8, <1>9, <1>10, <1>11,
     <1>12, <1>13, <1>14 DEF Next, WriterNext, ReaderNext

LEMMA InvariantHolds == Spec => []IInv
  BY InitIInv, StepIInv, PTL DEF Spec

(* The indices and both ends' local state keep their types: no index ever  *)
(* leaves the ring.                                                        *)
THEOREM TypeCorrect == Spec => []TypeOK
<1>1. IInv => TypeOK
  BY DEF IInv
<1>2. QED
  BY <1>1, InvariantHolds, PTL

(* For every queue size, the producer never writes the slot the consumer   *)
(* was handed a reference to and has not copied yet.                       *)
THEOREM ReferenceSafe == Spec => []NoSlotRace
<1>1. IInv => NoSlotRace
  BY IncInSlots DEF IInv, WriterInv, ReaderInv, TypeOK, NoSlotRace
<1>2. QED
  BY <1>1, InvariantHolds, PTL

---------------------------------------------------------------------------
(* The refinement: each step is a step of BoundedFifo or leaves its        *)
(* variables alone.                                                        *)

LEMMA AppendAsFunction ==
  ASSUME NEW S, NEW s \in Seq(S), NEW e \in S
  PROVE  Append(s, e) = [i \in 1 .. Len(s) + 1 |->
                           IF i = Len(s) + 1 THEN e ELSE s[i]]
<1> DEFINE f == [i \in 1 .. Len(s) + 1 |-> IF i = Len(s) + 1 THEN e ELSE s[i]]
<1>1. Len(s) \in Nat /\ \A i \in 1 .. Len(s) : s[i] \in S
  BY LenProperties, ElementOfSeq
<1>2. f \in Seq(S) /\ Len(f) = Len(s) + 1
  BY <1>1
<1>3. /\ Append(s, e) \in Seq(S) /\ Len(Append(s, e)) = Len(s) + 1
      /\ \A i \in 1 .. Len(s) + 1 : Append(s, e)[i] = f[i]
  BY <1>1
<1>4. QED
  BY <1>2, <1>3, SeqEqual

LEMMA TailAsFunction ==
  ASSUME NEW S, NEW s \in Seq(S), s # << >>
  PROVE  Tail(s) = [i \in 1 .. Len(s) - 1 |-> s[i + 1]]
<1> DEFINE f == [i \in 1 .. Len(s) - 1 |-> s[i + 1]]
<1>1. Len(s) \in Nat \ {0} /\ \A i \in 1 .. Len(s) : s[i] \in S
  BY LenProperties, ElementOfSeq, EmptySeq
<1>2. \A i \in 1 .. Len(s) - 1 : s[i + 1] \in S
  BY <1>1
<1>3. f \in Seq(S) /\ Len(f) = Len(s) - 1
  BY <1>1, <1>2
<1>4. /\ Tail(s) \in Seq(S) /\ Len(Tail(s)) = Len(s) - 1
      /\ \A i \in 1 .. Len(s) - 1 : Tail(s)[i] = f[i]
  BY <1>1, HeadTailProperties
<1>5. QED
  BY <1>3, <1>4, SeqEqual

LEMMA OccupiedRange ==
  ASSUME TypeOK
  PROVE  /\ Occupied \in 0 .. N - 1
         /\ (Occupied = 0) <=> (m_write = m_read)
         /\ (queueIdxInc(m_read) # m_write) <=> (Occupied < N - 1)
         /\ SlotAt(m_write, Occupied) = m_read
  BY SizeAssumption DEF TypeOK, Slots, Occupied, queueIdxInc, SlotAt

LEMMA OccupiedSlots ==
  ASSUME TypeOK, NEW k \in 0 .. Occupied - 1
  PROVE  SlotAt(m_write, k) \in Slots /\ SlotAt(m_write, k) # m_read
  BY SizeAssumption DEF TypeOK, Slots, Occupied, SlotAt

LEMMA ContentsShape ==
  ASSUME TypeOK
  PROVE  /\ Contents \in Seq(Values \cup {Default, Torn})
         /\ Len(Contents) = Occupied
         /\ DOMAIN Contents = 1 .. Occupied
         /\ \A i \in 1 .. Occupied :
              Contents[i] = m_data[SlotAt(m_write, i - 1)]
<1>1. Occupied \in Nat
  BY OccupiedRange
<1>2. \A i \in 1 .. Occupied :
        m_data[SlotAt(m_write, i - 1)] \in Values \cup {Default, Torn}
  <2> TAKE i \in 1 .. Occupied
  <2>1. i - 1 \in 0 .. Occupied - 1
    BY <1>1
  <2>2. QED
    BY <2>1, OccupiedSlots DEF TypeOK
<1>3. QED
  BY <1>1, <1>2 DEF Contents

(* Writing the slot at m_read disturbs neither the queue nor a reference   *)
(* the consumer holds.                                                     *)
LEMMA WriteAtPublish ==
  ASSUME IInv, TypeOK', UNCHANGED <<m_read, m_write>>,
         queueIdxInc(m_read) # m_write,
         NEW v, m_data' = [m_data EXCEPT ![m_read] = v],
         UNCHANGED <<rpc, rCur, rOut>>
  PROVE  UNCHANGED <<Contents, Handed>>
<1>1. Occupied' = Occupied
  BY DEF Occupied
<1>2. \A k \in 0 .. Occupied - 1 :
        m_data'[SlotAt(m_write, k)] = m_data[SlotAt(m_write, k)]
  BY OccupiedSlots DEF IInv, TypeOK
<1>3. \A i \in 1 .. Occupied :
        m_data'[SlotAt(m_write, i - 1)] = m_data[SlotAt(m_write, i - 1)]
  <2> TAKE i \in 1 .. Occupied
  <2>1. i - 1 \in 0 .. Occupied - 1
    BY OccupiedRange DEF IInv
  <2>2. QED
    BY <2>1, <1>2
<1>4. Contents' = Contents
  BY <1>1, <1>3 DEF Contents, SlotAt
<1>5. rpc \in {"copyPeek", "copyPull"} => rCur # m_read
  BY IncInSlots DEF IInv, TypeOK, ReaderInv
<1>6. Handed' = Handed
  BY <1>5 DEF Handed, IInv, TypeOK
<1>7. QED
  BY <1>4, <1>6

LEMMA PublishIsPut ==
  ASSUME IInv, TypeOK', PushPublish
  PROVE  \E v \in Values : Fifo!Put(v)
<1> DEFINE n == Occupied
<1> USE DEF IInv
<1>1. wCur = m_read /\ n < N - 1 /\ wObj \in Values /\ m_data[m_read] = wObj
  BY OccupiedRange DEF PushPublish, WriterInv
<1>2. n \in Nat /\ Occupied' = n + 1
  BY <1>1, OccupiedRange, SizeAssumption
  DEF PushPublish, Occupied, queueIdxInc, TypeOK, Slots
<1>3. \A i \in 1 .. n : Contents'[i] = Contents[i]
  BY <1>2, ContentsShape DEF PushPublish, Contents
<1>4. Contents'[n + 1] = wObj
  <2>1. Contents'[n + 1] = m_data[SlotAt(m_write, n)]
    BY <1>2 DEF PushPublish, Contents, SlotAt
  <2>2. QED
    BY <2>1, <1>1, OccupiedRange
<1>5. Contents' = Append(Contents, wObj)
  <2>1. DOMAIN Contents' = 1 .. n + 1
    BY <1>2 DEF Contents
  <2>2. Append(Contents, wObj) = [i \in 1 .. n + 1 |->
          IF i = n + 1 THEN wObj ELSE Contents[i]]
    <3>1. Contents \in Seq(Values \cup {Default, Torn}) /\ Len(Contents) = n
      BY ContentsShape
    <3>2. wObj \in Values \cup {Default, Torn}
      BY <1>1
    <3>3. QED
      BY <3>1, <3>2, AppendAsFunction
  <2>3. Contents' = [i \in 1 .. n + 1 |-> Contents'[i]]
    BY <1>2 DEF Contents
  <2>4. \A i \in 1 .. n + 1 :
          Contents'[i] = IF i = n + 1 THEN wObj ELSE Contents[i]
    BY <1>2, <1>3, <1>4
  <2>5. QED
    BY <2>2, <2>3, <2>4
<1>6. Handed' = Handed
  BY DEF PushPublish, Handed, reader
<1>7. Len(Contents) < N - 1
  BY <1>1, ContentsShape
<1>8. QED
  BY <1>1, <1>5, <1>6, <1>7 DEF Fifo!Put

LEMMA AdvanceIsTake ==
  ASSUME IInv, TypeOK', PullAdvance
  PROVE  Fifo!Take
<1> DEFINE n == Occupied
<1> USE DEF IInv
<1>1. rCur = m_write /\ m_write # m_read /\ m_write' = queueIdxInc(m_write)
  BY DEF PullAdvance, ReaderInv
<1>2. n \in 1 .. N - 1 /\ Occupied' = n - 1
  BY <1>1, OccupiedRange, SizeAssumption
  DEF PullAdvance, Occupied, queueIdxInc, TypeOK, Slots
<1>3. \A i \in 1 .. n - 1 : SlotAt(m_write, i - 1)' = SlotAt(m_write, i)
  BY <1>1, <1>2, SizeAssumption DEF SlotAt, queueIdxInc, TypeOK, Slots
<1>4. Contents' = [i \in 1 .. n - 1 |-> m_data[SlotAt(m_write, i)]]
  BY <1>2, <1>3 DEF Contents, PullAdvance
<1>5. \A i \in 1 .. n - 1 : Contents[i + 1] = m_data[SlotAt(m_write, i)]
  <2> TAKE i \in 1 .. n - 1
  <2>1. i + 1 \in 1 .. n /\ (i + 1) - 1 = i
    BY <1>2
  <2>2. QED
    BY <2>1, ContentsShape
<1>6. Tail(Contents) = [i \in 1 .. n - 1 |-> Contents[i + 1]]
  <2>1. Contents # << >>
    BY ContentsShape, <1>2
  <2>2. QED
    BY <2>1, ContentsShape, <1>2, TailAsFunction
<1>7. Contents' = Tail(Contents)
  BY <1>4, <1>5, <1>6
<1>8. Contents # << >> /\ Head(Contents) = m_data[m_write]
  <2>1. 1 \in 1 .. n /\ SlotAt(m_write, 1 - 1) = m_write
    BY <1>2, SizeAssumption DEF SlotAt, TypeOK, Slots
  <2>2. QED
    BY <2>1, <1>2, ContentsShape
<1>9. Handed' = m_data[m_write]
  BY <1>1 DEF PullAdvance, Handed
<1>10. QED
  BY <1>7, <1>8, <1>9 DEF Fifo!Take

LEMMA CheckIsLook ==
  ASSUME IInv, PeekCheck
  PROVE  Fifo!Look
<1> USE DEF IInv
<1>1. Occupied \in 1 .. N - 1
  BY OccupiedRange, SizeAssumption DEF PeekCheck
<1>2. 1 \in 1 .. Occupied /\ SlotAt(m_write, 1 - 1) = m_write
  BY <1>1, SizeAssumption DEF SlotAt, TypeOK, Slots
<1>3. Contents # << >> /\ Head(Contents) = m_data[m_write]
  BY <1>1, <1>2, ContentsShape
<1>4. Handed' = m_data[m_write] /\ Contents' = Contents
  BY DEF PeekCheck, Handed, Contents, SlotAt, Occupied
<1>5. QED
  BY <1>3, <1>4 DEF Fifo!Look

LEMMA TimeoutIsMiss ==
  ASSUME IInv, PeekTimeout \/ PullTimeout
  PROVE  Fifo!Miss
<1> USE DEF IInv
<1>1. Occupied = 0
  BY OccupiedRange DEF PeekTimeout, PullTimeout
<1>2. Contents = << >> /\ Contents' = Contents
  BY <1>1, ContentsShape DEF PeekTimeout, PullTimeout, Contents, SlotAt, Occupied
<1>3. Handed' = Default
  BY DEF PeekTimeout, PullTimeout, Handed
<1>4. QED
  BY <1>2, <1>3 DEF Fifo!Miss

LEMMA InitRefines == Init => Fifo!Init
<1> SUFFICES ASSUME Init PROVE Fifo!Init
  OBVIOUS
<1>1. Occupied = 0 /\ Handed = Default
  BY DEF Init, Occupied, Handed
<1>2. Contents = << >>
  BY <1>1 DEF Contents
<1>3. QED
  BY <1>1, <1>2 DEF Fifo!Init

LEMMA StepRefines ==
  ASSUME IInv, IInv', [Next]_vars
  PROVE  [Fifo!Next]_<<Contents, Handed>>
<1> USE DEF IInv
<1>1. CASE PushBeginStore
  BY <1>1, WriteAtPublish DEF PushBeginStore, reader
<1>2. CASE PushEndStore
  <2>1. wCur = m_read /\ queueIdxInc(m_read) # m_write
    BY <1>2 DEF PushEndStore, WriterInv
  <2>2. QED
    BY <1>2, <2>1, WriteAtPublish DEF PushEndStore, reader
<1>3. CASE PushPublish
  BY <1>3, PublishIsPut DEF Fifo!Next
<1>4. CASE PullAdvance
  BY <1>4, AdvanceIsTake DEF Fifo!Next
<1>5. CASE PeekCheck
  BY <1>5, CheckIsLook DEF Fifo!Next
<1>6. CASE PeekTimeout \/ PullTimeout
  BY <1>6, TimeoutIsMiss DEF Fifo!Next
<1>7. CASE CopyReference
  BY <1>7 DEF CopyReference, Handed, Contents, SlotAt, Occupied, writer
<1>8. CASE PeekStart \/ PullStart \/ PullCheck
  BY <1>8 DEF PeekStart, PullStart, PullCheck, Handed, Contents, SlotAt,
     Occupied, writer
<1>9. CASE PushTimeout \/ (\E obj \in Values : PushStart(obj))
  BY <1>9 DEF PushTimeout, PushStart, Handed, Contents, SlotAt, Occupied, reader
<1>10. CASE UNCHANGED vars
  BY <1>10 DEF vars, reader, writer, Handed, Contents, SlotAt, Occupied
<1>11. QED
  BY <1>1, <1>2, <1>3, <1>4, <1>5, <1>6, <1>7, <1>8, <1>9, <1>10
  DEF Next, WriterNext, ReaderNext

(* For every queue size and every set of headers, the ring implements the  *)
(* bounded FIFO: nothing lost, duplicated, reordered or torn.              *)
THEOREM RingRefinesFifo == Spec => ImplementsFifo
<1>1. IInv /\ IInv' /\ [Next]_vars => [Fifo!Next]_<<Contents, Handed>>
  BY StepRefines
<1>2. QED
  BY <1>1, InitRefines, InvariantHolds, PTL DEF Spec, ImplementsFifo, Fifo!Spec

---------------------------------------------------------------------------
(* Waiting calls *)

Active(t) == pc[t] \in {"sending", "waiting", "matched", "failed", "popping"}
Reading(t) == pc[t] \in {"matched", "popping"}

CallPcs == pc \in [Threads -> {"idle", "sending", "waiting", "matched", "failed",
                              "popping", "flushed"}]

CallShapes ==
  /\ s_cmdUID \in Nat
  /\ responses \in Seq(Nat) /\ sentCmds \in Seq([uid : Nat, call : BOOLEAN])
  /\ headerPos \in 0 .. Len(responses) /\ dataPos \in Nat
  /\ uid \in [Threads -> Int] /\ got \in [Threads -> Int]
  /\ outOfTurn \in BOOLEAN

(* The thread that owns the mutex holds the next UID, all other calls in   *)
(* progress hold earlier ones, and no two hold the same.                   *)
UidInv ==
  /\ \A t \in Threads : pc[t] = "sending" => m_mutex = t /\ uid[t] = s_cmdUID
  /\ \A t \in Threads :
       pc[t] \in {"waiting", "matched", "failed", "popping"} => uid[t] \in 0 .. s_cmdUID - 1
  /\ \A t, u \in Threads : Active(t) /\ Active(u) /\ uid[t] = uid[u] => t = u

(* A thread past its peek owns the front header, and the two read          *)
(* positions only differ while it stands between them: as long as nobody   *)
(* has read out of turn.                                                   *)
ReadInv == ~outOfTurn =>
  /\ \A t \in Threads : Reading(t) => HasFront /\ Front = uid[t]
  /\ \A t \in Threads :
       pc[t] = "popping" => got[t] = uid[t] /\ dataPos = headerPos + 1
  /\ (\A t \in Threads : pc[t] # "popping") => dataPos = headerPos

CallInv == CallPcs /\ CallShapes /\ UidInv /\ ReadInv

LEMMA OneReader ==
  ASSUME CallInv, ~outOfTurn, NEW t \in Threads, NEW u \in Threads, Reading(t), Reading(u)
  PROVE  t = u
  BY DEF CallInv, UidInv, ReadInv, Reading, Active

LEMMA InitCallInv == ResponseInit => CallInv
<1> SUFFICES ASSUME ResponseInit PROVE CallInv
  OBVIOUS
<1>1. outOfTurn \in BOOLEAN
  BY DEF ResponseInit
<1>2. CallPcs /\ UidInv /\ ReadInv
  BY DEF ResponseInit, CallPcs, UidInv, ReadInv, Active, Reading, HasFront, Front
<1>3. responses = << >> /\ sentCmds = << >> /\ headerPos = 0 /\ dataPos = 0 /\ s_cmdUID = 0
  BY DEF ResponseInit
<1>4. uid \in [Threads -> Int] /\ got \in [Threads -> Int]
  BY DEF ResponseInit, NoUid
<1>5. QED
  BY <1>1, <1>2, <1>3, <1>4 DEF CallInv, CallShapes

LEMMA StepCallInv ==
  ASSUME CallInv, [ResponseNext]_responseVars
  PROVE  CallInv'
<1> USE DEF CallInv, CallPcs, CallShapes, UidInv, ReadInv, Active, Reading, HasFront,
    Front
<1>1. ASSUME NEW t \in Threads, LockChannel(t) PROVE CallInv'
  <2>1. CallPcs' /\ CallShapes' /\ m_mutex' = t /\ uid'[t] = s_cmdUID /\ pc'[t] = "sending"
    BY <1>1 DEF LockChannel
  <2>2. \A u \in Threads : u # t => pc'[u] = pc[u] /\ uid'[u] = uid[u]
    BY <1>1 DEF LockChannel
  <2>3. \A u \in Threads : pc[u] # "sending"
    BY <1>1, ResponseAssumption DEF LockChannel
  <2>4. UNCHANGED <<s_cmdUID, responses, headerPos, dataPos, got, outOfTurn>>
    BY <1>1 DEF LockChannel
  <2>5. UidInv'
    <3>1. \A u \in Threads : pc'[u] = "sending" => u = t
      BY <2>2, <2>3
    <3>2. \A u \in Threads : pc'[u] \in {"waiting", "matched", "failed", "popping"} =>
            u # t /\ uid'[u] \in 0 .. s_cmdUID - 1
      BY <2>1, <2>2
    <3>3. \A u, v \in Threads :
            u # t /\ v # t /\ Active(u)' /\ Active(v)' /\ uid'[u] = uid'[v] => u = v
      BY <2>2
    <3>4. \A u \in Threads : u # t /\ Active(u)' => uid'[u] # uid'[t]
      BY <2>1, <2>2, <2>3
    <3>5. QED
      BY <2>1, <2>4, <3>1, <3>2, <3>3, <3>4
  <2>6. pc[t] = "idle"
    BY <1>1 DEF LockChannel
  <2>7. ReadInv'
    <3>1. \A u \in Threads : (Reading(u)' <=> Reading(u)) /\ (Reading(u) => u # t)
      BY <2>1, <2>2, <2>6
    <3>2. \A u \in Threads :
            (pc'[u] = "popping" <=> pc[u] = "popping") /\ (pc[u] = "popping" => u # t)
      BY <2>1, <2>2, <2>6
    <3>3. (HasFront' <=> HasFront) /\ Front' = Front
      BY <2>4
    <3>4. QED
      BY <2>2, <2>4, <3>1, <3>2, <3>3
  <2>8. QED
    BY <2>1, <2>5, <2>7
<1>2. ASSUME NEW t \in Threads, SendCall(t) PROVE CallInv'
  BY <1>2 DEF SendCall
<1>3. ASSUME NEW t \in Threads, SendPost(t) PROVE CallInv'
  BY <1>3 DEF SendPost
<1>4. ASSUME NEW t \in Threads, PeekMatches(t) PROVE CallInv'
  <2>1. /\ pc[t] = "waiting" /\ HasFront /\ Front = uid[t]
        /\ pc' = [pc EXCEPT ![t] = "matched"]
        /\ UNCHANGED <<m_mutex, s_cmdUID, sentCmds, responses, headerPos, dataPos, uid, got,
                       outOfTurn>>
    BY <1>4 DEF PeekMatches
  <2>2. CallPcs' /\ CallShapes' /\ UidInv'
    BY <2>1
  <2>3. ReadInv'
    BY <2>1
  <2>4. QED
    BY <2>2, <2>3
<1>5. ASSUME NEW t \in Threads, WaitFails(t) PROVE CallInv'
  BY <1>5 DEF WaitFails
<1>6. ASSUME NEW t \in Threads, ReadData(t) PROVE CallInv'
  <2>1. /\ pc[t] \in {"matched", "failed"} /\ pc' = [pc EXCEPT ![t] = "popping"]
        /\ dataPos' = dataPos + 1
        /\ UNCHANGED <<m_mutex, s_cmdUID, sentCmds, responses, headerPos, uid>>
    BY <1>6 DEF ReadData
  <2>2. got' \in [Threads -> Int]
    <3>1. dataPos < Len(responses) => responses[dataPos + 1] \in Int
      OBVIOUS
    <3>2. QED
      BY <1>6, <3>1 DEF ReadData, NoUid
  <2>3. CallPcs' /\ CallShapes' /\ UidInv'
    <3>1. outOfTurn' \in BOOLEAN
      BY <1>6, Zenon DEF ReadData
    <3>2. CallPcs'
      BY <2>1
    <3>3. CallShapes'
      <4>1. /\ s_cmdUID' \in Nat /\ dataPos' \in Nat /\ uid' \in [Threads -> Int]
            /\ responses' \in Seq(Nat) /\ sentCmds' \in Seq([uid : Nat, call : BOOLEAN])
        BY <2>1
      <4>2. headerPos' \in 0 .. Len(responses')
        BY <2>1
      <4>3. QED
        BY <2>2, <3>1, <4>1, <4>2
    <3>4. UidInv'
      BY <2>1
    <3>5. QED
      BY <3>2, <3>3, <3>4
  <2>4. ASSUME ~outOfTurn' PROVE ReadInv'
    <3>1. ~outOfTurn /\ pc[t] = "matched" /\ HasFront /\ Front = uid[t]
      BY <1>6, <2>1, <2>4 DEF ReadData
    <3>2. \A u \in Threads : u # t => pc[u] \notin {"matched", "popping"}
      BY <3>1, OneReader
    <3>3. dataPos = headerPos
      BY <3>1, <3>2
    <3>4. got'[t] = uid[t]
      BY <1>6, <3>1, <3>3 DEF ReadData
    <3>5. QED
      BY <2>1, <3>1, <3>2, <3>3, <3>4
  <2>5. QED
    BY <2>3, <2>4
<1>7. ASSUME NEW t \in Threads, PopFront(t) PROVE CallInv'
  BY <1>7, OneReader DEF PopFront
<1>8. ASSUME NEW t \in Threads, PopTimeout(t) PROVE CallInv'
  BY <1>8 DEF PopTimeout
<1>9. ASSUME NEW t \in Threads, EnsureQueueEmpty(t) PROVE CallInv'
  BY <1>9 DEF EnsureQueueEmpty
<1>10. ASSUME NEW t \in Threads, FlushReturns(t) PROVE CallInv'
  BY <1>10 DEF FlushReturns
<1>11. CASE Serve
  <2>1. /\ responses' \in Seq(Nat) /\ Len(responses') >= Len(responses)
        /\ \A i \in 1 .. Len(responses) : responses'[i] = responses[i]
    <3>1. Head(sentCmds) \in [uid : Nat, call : BOOLEAN]
      BY <1>11, HeadTailProperties DEF Serve
    <3>2. Head(sentCmds).uid \in Nat
      BY <3>1
    <3>3. CASE Head(sentCmds).call
      <4>1. responses' = Append(responses, Head(sentCmds).uid)
        BY <1>11, <3>3 DEF Serve
      <4>2. QED
        BY <4>1, <3>2, AppendProperties
    <3>4. CASE ~Head(sentCmds).call
      BY <1>11, <3>4 DEF Serve
    <3>5. QED
      BY <3>3, <3>4
  <2>2. sentCmds' \in Seq([uid : Nat, call : BOOLEAN])
    BY <1>11, HeadTailProperties DEF Serve
  <2>3. UNCHANGED <<m_mutex, s_cmdUID, headerPos, dataPos, pc, uid, got, outOfTurn>>
    BY <1>11 DEF Serve, callers
  <2>4. HasFront => HasFront' /\ Front' = Front
    BY <2>1, <2>3
  <2>5. CallPcs' /\ UidInv'
    BY <2>3
  <2>6. CallShapes'
    <3>1. /\ s_cmdUID' \in Nat /\ dataPos' \in Nat /\ uid' \in [Threads -> Int]
          /\ got' \in [Threads -> Int]
      BY <2>3
    <3>2. headerPos' \in 0 .. Len(responses')
      BY <2>1, <2>3
    <3>3. QED
      BY <2>1, <2>2, <2>3, <3>1, <3>2
  <2>7. ReadInv'
    BY <2>3, <2>4
  <2>8. QED
    BY <2>5, <2>6, <2>7
<1>12. CASE UNCHANGED responseVars
  BY <1>12 DEF responseVars, callers
<1>13. QED
  BY <1>1, <1>2, <1>3, <1>4, <1>5, <1>6, <1>7, <1>8, <1>9, <1>10, <1>11, <1>12
  DEF ResponseNext, ThreadNext

(* A call takes its own response, with any number of threads and with      *)
(* waits that give up and leave their response behind, until a thread      *)
(* takes one after its wait has failed.                                    *)
THEOREM OwnResponseHolds == ResponseSpec => []OwnResponse
<1>1. CallInv => OwnResponse
  BY DEF CallInv, ReadInv, OwnResponse
<1>2. CallInv /\ [ResponseNext]_responseVars => CallInv'
  BY StepCallInv
<1>3. QED
  BY <1>1, <1>2, InitCallInv, PTL DEF ResponseSpec

(* The unlocked response rings have one reader at a time, until then.      *)
THEOREM OneReaderAtATime == ResponseSpec => []ExclusiveReader
<1>1. CallInv => ExclusiveReader
  BY OneReader DEF CallInv, CallPcs, Reading, ExclusiveReader
<1>2. CallInv /\ [ResponseNext]_responseVars => CallInv'
  BY StepCallInv
<1>3. QED
  BY <1>1, <1>2, InitCallInv, PTL DEF ResponseSpec

(* The UIDs of the calls that have been sent and whose data has not been   *)
(* read.  Each call reads at most one word, matched or not.                *)
Open == { uid[t] : t \in { t \in Threads : pc[t] \in {"waiting", "matched", "failed"} } }

CountInv ==
  /\ ResponseTypeOK
  /\ \A t \in Threads : pc[t] = "sending" => s_cmdUID < MaxCmds
  /\ dataPos + Cardinality(Open) <= s_cmdUID

LEMMA OpenIsFinite ==
  ASSUME CallInv
  PROVE  /\ IsFiniteSet(Open) /\ Cardinality(Open) \in Nat
         /\ Open \subseteq 0 .. s_cmdUID - 1
<1>1. Open \subseteq 0 .. s_cmdUID - 1
  BY DEF CallInv, UidInv, Open
<1>2. IsFiniteSet(0 .. s_cmdUID - 1)
  BY FS_Interval DEF CallInv, CallShapes
<1> QED
  BY <1>1, <1>2, FS_Subset, FS_CardinalityType

LEMMA InitCountInv == ResponseInit => CountInv
<1> SUFFICES ASSUME ResponseInit PROVE CountInv
  OBVIOUS
<1>1. Open = {}
  BY DEF ResponseInit, Open
<1>2. Cardinality(Open) = 0
  BY <1>1, FS_EmptySet
<1>3. ResponseTypeOK
  <2>1. MaxCmds \in Nat /\ -1 \in -1 .. MaxCmds - 1
    BY ResponseAssumption
  <2>2. /\ m_mutex = NoThread /\ s_cmdUID = 0 /\ sentCmds = << >> /\ responses = << >>
        /\ headerPos = 0 /\ dataPos = 0 /\ outOfTurn = FALSE
        /\ pc = [t \in Threads |-> "idle"]
    BY DEF ResponseInit
  <2>6. timeouts \in BOOLEAN
    BY DEF ResponseInit
  <2>3. uid \in [Threads -> -1 .. MaxCmds - 1] /\ got \in [Threads -> -1 .. MaxCmds - 1]
    BY <2>1 DEF ResponseInit, NoUid
  <2>4. /\ sentCmds \in Seq([uid : 0 .. MaxCmds - 1, call : BOOLEAN])
        /\ responses \in Seq(0 .. MaxCmds - 1)
        /\ headerPos \in 0 .. Len(responses) /\ dataPos \in 0 .. s_cmdUID
    BY <2>2
  <2>5. outOfTurn \in BOOLEAN
    BY <2>2
  <2> QED
    BY <2>1, <2>2, <2>3, <2>4, <2>5, <2>6 DEF ResponseTypeOK
<1> QED
  BY <1>2, <1>3 DEF ResponseInit, CountInv

LEMMA StepCountInv ==
  ASSUME CallInv, CountInv, [ResponseNext]_responseVars
  PROVE  CountInv'
<1>1. MaxCmds \in Nat /\ NoThread \notin Threads
  BY ResponseAssumption
<1>2. /\ IsFiniteSet(Open) /\ Cardinality(Open) \in Nat /\ Open \subseteq 0 .. s_cmdUID - 1
      /\ s_cmdUID \in Nat /\ dataPos \in Nat
  BY OpenIsFinite DEF CallInv, CallShapes
<1> USE DEF CountInv, ResponseTypeOK
<1>3. ASSUME NEW t \in Threads, LockChannel(t) PROVE CountInv'
  <2>1. Open' = Open
    BY <1>3 DEF LockChannel, Open
  <2> QED
    BY <1>1, <1>2, <1>3, <2>1 DEF LockChannel
<1>4. ASSUME NEW t \in Threads, SendCall(t) PROVE CountInv'
  <2>1. s_cmdUID < MaxCmds /\ uid[t] = s_cmdUID
    BY <1>4 DEF SendCall, CallInv, UidInv
  <2>2. Open' = Open \cup {s_cmdUID}
    BY <1>4, <2>1 DEF SendCall, Open
  <2>3. Cardinality(Open') <= Cardinality(Open) + 1 /\ Cardinality(Open') \in Nat
    <3>1. /\ IsFiniteSet(Open \cup {s_cmdUID})
          /\ Cardinality(Open \cup {s_cmdUID}) =
               IF s_cmdUID \in Open THEN Cardinality(Open) ELSE Cardinality(Open) + 1
      BY <1>2, FS_AddElement
    <3> QED
      BY <1>2, <2>2, <3>1
  <2>4. [uid |-> s_cmdUID, call |-> TRUE] \in [uid : 0 .. MaxCmds - 1, call : BOOLEAN]
    <3>1. s_cmdUID \in 0 .. MaxCmds - 1 /\ TRUE \in BOOLEAN
      BY <1>1, <1>2, <2>1
    <3> QED
      BY <3>1, Zenon
  <2>5. \A u \in Threads : pc[u] = "sending" => u = t
    BY <1>4 DEF SendCall, CallInv, UidInv
  <2> QED
    BY SMTT(20), <1>1, <1>2, <1>4, <2>1, <2>3, <2>4, <2>5 DEF SendCall
<1>5. ASSUME NEW t \in Threads, SendPost(t) PROVE CountInv'
  <2>1. s_cmdUID < MaxCmds
    BY <1>5 DEF SendPost
  <2>2. Open' = Open
    BY <1>5 DEF SendPost, Open
  <2>4. [uid |-> s_cmdUID, call |-> FALSE] \in [uid : 0 .. MaxCmds - 1, call : BOOLEAN]
    <3>1. s_cmdUID \in 0 .. MaxCmds - 1 /\ FALSE \in BOOLEAN
      BY <1>1, <1>2, <2>1
    <3> QED
      BY <3>1, Zenon
  <2>5. \A u \in Threads : pc[u] = "sending" => u = t
    BY <1>5 DEF SendPost, CallInv, UidInv
  <2> QED
    BY <1>1, <1>2, <1>5, <2>1, <2>2, <2>4, <2>5 DEF SendPost
<1>6. ASSUME NEW t \in Threads, PeekMatches(t) PROVE CountInv'
  <2>1. Open' = Open
    BY <1>6 DEF PeekMatches, Open
  <2> QED
    BY <1>2, <1>6, <2>1 DEF PeekMatches
<1>7. ASSUME NEW t \in Threads, WaitFails(t) PROVE CountInv'
  <2>1. Open' \subseteq Open
    BY <1>7 DEF WaitFails, Open
  <2>2. Cardinality(Open') <= Cardinality(Open) /\ Cardinality(Open') \in Nat
    BY <1>2, <2>1, FS_Subset, FS_CardinalityType
  <2> QED
    BY <1>2, <1>7, <2>2 DEF WaitFails
<1>8. ASSUME NEW t \in Threads, ReadData(t) PROVE CountInv'
  <2>1. uid[t] \in Open
    BY <1>8 DEF ReadData, Open
  <2>2. \A u \in Threads : pc[u] \in {"waiting", "matched", "failed"} /\ uid[u] = uid[t] => u = t
    BY <1>8 DEF ReadData, CallInv, UidInv, Active
  <2>3. Open' = Open \ {uid[t]}
    BY <1>8, <2>2 DEF ReadData, Open
  <2>4. Cardinality(Open') = Cardinality(Open) - 1
    BY <1>2, <2>1, <2>3, FS_RemoveElement
  <2>5. got' \in [Threads -> -1 .. MaxCmds - 1] /\ dataPos' = dataPos + 1
    <3> DEFINE word == IF dataPos < Len(responses) THEN responses[dataPos + 1] ELSE NoUid
    <3>1. got' = [got EXCEPT ![t] = word] /\ dataPos' = dataPos + 1
      BY <1>8 DEF ReadData
    <3>2. dataPos < Len(responses) => dataPos + 1 \in 1 .. Len(responses)
      BY <1>2
    <3>3. dataPos < Len(responses) => responses[dataPos + 1] \in 0 .. MaxCmds - 1
      BY <3>2, ElementOfSeq
    <3>4. word \in -1 .. MaxCmds - 1
      BY <1>1, <3>3 DEF NoUid
    <3> HIDE DEF word
    <3> QED
      BY <3>1, <3>4
  <2>6. Cardinality(Open') \in Nat
    BY <2>3, <1>2, FS_RemoveElement, FS_CardinalityType
  <2> QED
    BY SMTT(20), <1>2, <1>8, <2>4, <2>5, <2>6 DEF ReadData
<1>9. ASSUME NEW t \in Threads, PopFront(t) \/ PopTimeout(t) PROVE CountInv'
  <2>1. Open' = Open
    BY <1>9 DEF PopFront, PopTimeout, Open
  <2>2. headerPos' \in 0 .. Len(responses)
    BY <1>9 DEF PopFront, PopTimeout, HasFront
  <2> QED
    BY <1>2, <1>9, <2>1, <2>2 DEF PopFront, PopTimeout
<1>10. ASSUME NEW t \in Threads, EnsureQueueEmpty(t) \/ FlushReturns(t) PROVE CountInv'
  <2>1. Open' = Open
    BY SMTT(20), <1>10 DEF EnsureQueueEmpty, FlushReturns, Open
  <2> QED
    BY <1>2, <1>10, <2>1 DEF EnsureQueueEmpty, FlushReturns
<1>11. CASE Serve
  <2>1. Open' = Open
    BY <1>11 DEF Serve, callers, Open
  <2>2. /\ Head(sentCmds) \in [uid : 0 .. MaxCmds - 1, call : BOOLEAN]
        /\ Tail(sentCmds) \in Seq([uid : 0 .. MaxCmds - 1, call : BOOLEAN])
    BY <1>11, HeadTailProperties DEF Serve
  <2>3. responses' \in Seq(0 .. MaxCmds - 1) /\ Len(responses') >= Len(responses)
        /\ Len(responses') \in Nat
    <3>1. Head(sentCmds).uid \in 0 .. MaxCmds - 1
      BY <2>2
    <3>2. responses' = responses \/ responses' = Append(responses, Head(sentCmds).uid)
      BY <1>11 DEF Serve
    <3>3. \A u \in 0 .. MaxCmds - 1 :
            /\ Append(responses, u) \in Seq(0 .. MaxCmds - 1)
            /\ Len(Append(responses, u)) = Len(responses) + 1
      BY AppendProperties
    <3>4. Len(responses) \in Nat
      OBVIOUS
    <3>5. CASE responses' = responses
      BY <3>4, <3>5
    <3>6. CASE responses' = Append(responses, Head(sentCmds).uid)
      <4> DEFINE u == Head(sentCmds).uid
      <4>1. /\ Append(responses, u) \in Seq(0 .. MaxCmds - 1)
            /\ Len(Append(responses, u)) = Len(responses) + 1
        BY <3>1, <3>3
      <4> HIDE DEF u
      <4> QED
        BY <3>4, <3>6, <4>1 DEF u
    <3> QED
      BY <3>2, <3>5, <3>6
  <2> QED
    BY SMTT(20), <1>2, <1>11, <2>1, <2>2, <2>3 DEF Serve, callers
<1>12. CASE UNCHANGED responseVars
  BY <1>12 DEF responseVars, callers, Open
<1> QED
  BY <1>3, <1>4, <1>5, <1>6, <1>7, <1>8, <1>9, <1>10, <1>11, <1>12
  DEF ResponseNext, ThreadNext

(* However many threads call, and whether their waits succeed or run out,  *)
(* the client takes no more headers than the server sent and no more data  *)
(* words than commands were sent.                                          *)
THEOREM ResponseTypes == ResponseSpec => []ResponseTypeOK
<1>1. CountInv => ResponseTypeOK
  BY DEF CountInv
<1>2. CallInv /\ CountInv /\ [ResponseNext]_responseVars => CallInv' /\ CountInv'
  BY StepCallInv, StepCountInv
<1> QED
  BY <1>1, <1>2, InitCallInv, InitCountInv, PTL DEF ResponseSpec

---------------------------------------------------------------------------
(* The overwrite guard of the data queue *)

(* Until the server has cleared the position it answered, a position that  *)
(* is announced is that of a client that waits and has no signal yet.      *)
TokenInv == ~gaveUp /\ cpc # "exited" =>
  /\ dataSemaphore = 1 => cpc = "wait" /\ (spc = "clear" \/ clientDataExpectedPos = -1)
  /\ spc = "release" => cpc = "wait" /\ dataSemaphore # 1
  /\ cpc # "wait" => clientDataExpectedPos = -1 \/ spc = "clear"

LEMMA ClientKeepsToken ==
  ASSUME TokenInv, ClientNext
  PROVE  TokenInv'
<1> USE DEF TokenInv, server, shared
<1>1. CASE CommandBegin
  BY <1>1 DEF CommandBegin
<1>2. ASSUME NEW it \in Items, SendItem(it) PROVE TokenInv'
  BY <1>2 DEF SendItem
<1>3. CASE SyncLoad
  BY <1>3 DEF SyncLoad
<1>4. CASE SyncDoubleOverflow
  BY <1>4 DEF SyncDoubleOverflow
<1>5. CASE SyncWrap
  BY <1>5 DEF SyncWrap
<1>6. CASE SyncTest
  BY <1>6 DEF SyncTest
<1>7. CASE Announce
  BY <1>7 DEF Announce
<1>8. CASE WaitSucceeds
  BY <1>8 DEF WaitSucceeds
<1>9. CASE WaitGivesUp
  BY <1>9 DEF WaitGivesUp
<1>10. CASE Resolve
  BY <1>10 DEF Resolve
<1>11. CASE WriteItem
  BY <1>11 DEF WriteItem
<1>12. CASE CommandEnd
  BY <1>12 DEF CommandEnd
<1>13. QED
  BY <1>1, <1>2, <1>3, <1>4, <1>5, <1>6, <1>7, <1>8, <1>9, <1>10, <1>11, <1>12
  DEF ClientNext

LEMMA ServerKeepsToken ==
  ASSUME TokenInv, ServerNext
  PROVE  TokenInv'
<1> USE DEF TokenInv, client, shared
<1>1. CASE PopCommand
  BY <1>1 DEF PopCommand
<1>2. CASE PullItem
  BY <1>2 DEF PullItem
<1>3. CASE PublishPos
  BY <1>3 DEF PublishPos
<1>4. CASE CheckExpected
  BY <1>4 DEF CheckExpected
<1>5. CASE ReleaseData
  BY <1>5 DEF ReleaseData
<1>6. CASE ClearExpected
  BY <1>6 DEF ClearExpected
<1>7. QED
  BY <1>1, <1>2, <1>3, <1>4, <1>5, <1>6 DEF ServerNext

(* However the two sides interleave, a signal of the data semaphore finds  *)
(* the client that asked for it, until a wait is given up.                 *)
THEOREM TokenHolds == DataSpec => []TokenMatchesWait
<1>1. DataInit => TokenInv
  BY DEF DataInit, TokenInv
<1>2. TokenInv /\ [DataNext]_dataVars => TokenInv'
  <2>1. CASE UNCHANGED dataVars
    BY <2>1 DEF TokenInv, dataVars, shared, client, server
  <2>2. QED
    BY <2>1, ClientKeepsToken, ServerKeepsToken DEF DataNext
<1>3. TokenInv => TokenMatchesWait
  BY DEF TokenInv, TokenMatchesWait
<1>4. QED
  BY <1>1, <1>2, <1>3, PTL DEF DataSpec

---------------------------------------------------------------------------
(* The arguments in the data queue *)

Arguments == Items \cup {UidWord}

(* Whether an argument at p reaches the end of the ring.                   *)
Wraps(p, it) == p + MemUsage(it) >= M

LargestArgument == Max({ MemUsage(it) : it \in Items })
LargestObject == Max({ it.n : it \in Items })

(* Every non-empty set of naturals has a least element.                    *)
LEMMA LeastNat ==
  ASSUME NEW T \in SUBSET Nat, T # {}
  PROVE  \E x \in T : \A y \in T : x <= y
<1> DEFINE R == OpToRel(<, Nat)
<1>1. IsWellFoundedOn(R, Nat)
  BY NatLessThanWellFounded
<1>2. \A x, y \in Nat : <<x, y>> \in R <=> x < y
  BY DEF OpToRel
<1> HIDE DEF R
<1>3. \E x \in T : \A y \in T : ~ (<<y, x>> \in R)
  BY <1>1, WFMin, Zenon
<1>4. PICK x \in T : \A y \in T : ~ (<<y, x>> \in R)
  BY <1>3
<1>5. \A y \in T : x <= y
  <2> SUFFICES ASSUME NEW y \in T PROVE x <= y
    OBVIOUS
  <2>1. ~ (y < x)
    BY <1>2, <1>4, x \in Nat, y \in Nat, Zenon
  <2> QED
    BY <2>1, x \in Nat, y \in Nat
<1> QED
  BY <1>5

(* Every non-empty bounded one has the element Max chooses.                *)
LEMMA LargestNat ==
  ASSUME NEW T \in SUBSET Nat, NEW top \in Nat, T # {}, \A y \in T : y <= top
  PROVE  Max(T) \in T /\ \A y \in T : y <= Max(T)
<1> DEFINE U == {n \in Nat : \E y \in T : n = top - y}
<1>1. U \in SUBSET Nat /\ U # {}
  <2>1. PICK y \in T : TRUE
    OBVIOUS
  <2>2. top - y \in U
    BY <2>1
  <2> QED
    BY <2>2
<1>2. PICK n \in U : \A m \in U : n <= m
  BY <1>1, LeastNat
<1>3. PICK x \in T : n = top - x
  BY <1>2
<1>4. \A y \in T : top - y \in U
  OBVIOUS
<1>5. \A y \in T : x >= y
  BY <1>2, <1>3, <1>4
<1>6. Max(T) \in T /\ \A y \in T : Max(T) >= y
  BY <1>5, Zenon DEF Max
<1> QED
  BY <1>6

LEMMA ArgumentTypes ==
  ASSUME M \in Sizes
  PROVE  /\ M \in Nat /\ M >= 3
         /\ \A it \in Arguments :
              /\ it \in ItemType /\ it.n \in Nat /\ it.n < M
              /\ it.kind \in {"words", "object"}
              /\ it.kind = "words" => it.n > 0
              /\ MemUsage(it) \in Nat
              /\ MemUsage(it) = it.n + (IF it.kind = "words" THEN 0 ELSE 1)
         /\ LargestArgument \in Nat /\ LargestObject \in Nat
         /\ \A it \in Items : MemUsage(it) <= LargestArgument /\ it.n <= LargestObject
<1>1. M \in Nat /\ M >= 3
  BY DataAssumption
<1>2. \A it \in Arguments :
              /\ it \in ItemType /\ it.n \in Nat /\ it.n < M
              /\ it.kind \in {"words", "object"}
              /\ it.kind = "words" => it.n > 0
  BY <1>1, DataAssumption, ItemAssumption DEF Arguments, UidWord, ItemType
<1>3. \A it \in Arguments :
              /\ MemUsage(it) \in Nat
              /\ MemUsage(it) = it.n + (IF it.kind = "words" THEN 0 ELSE 1)
  BY <1>2 DEF MemUsage
<1>4. LargestArgument \in Nat /\ \A it \in Items : MemUsage(it) <= LargestArgument
  <2> DEFINE T == { MemUsage(it) : it \in Items }
  <2>1. T \in SUBSET Nat /\ T # {} /\ \A y \in T : y <= M
    BY <1>1, <1>2, <1>3, DataAssumption DEF Arguments
  <2> HIDE DEF T
  <2>2. Max(T) \in T /\ \A y \in T : y <= Max(T)
    BY <1>1, <2>1, LargestNat
  <2> QED
    BY <2>1, <2>2 DEF LargestArgument, T
<1>5. LargestObject \in Nat /\ \A it \in Items : it.n <= LargestObject
  <2> DEFINE T == { it.n : it \in Items }
  <2>1. T \in SUBSET Nat /\ T # {} /\ \A y \in T : y <= M
    BY <1>1, <1>2, DataAssumption DEF Arguments
  <2> HIDE DEF T
  <2>2. Max(T) \in T /\ \A y \in T : y <= Max(T)
    BY <1>1, <2>1, LargestNat
  <2> QED
    BY <2>1, <2>2 DEF LargestObject, T
<1> QED
  BY <1>1, <1>2, <1>3, <1>4, <1>5

LEMMA Rounds ==
  ASSUME NEW m \in Nat, m > 0, NEW x \in 0 .. 2 * m - 1
  PROVE  x % m = IF x < m THEN x ELSE x - m
  OBVIOUS

(* Where an argument lies, from its position to the next one.              *)
LEMMA ItemSpan ==
  ASSUME M \in Sizes, NEW p \in 0 .. M - 1, NEW it \in Arguments
  PROVE  LET q == PushPos(p, it) IN
         /\ q \in 0 .. M - 1
         /\ ItemWords(p, it) \subseteq 0 .. M - 1
         /\ ~Wraps(p, it) => /\ q = p + MemUsage(it)
                             /\ \A x \in ItemWords(p, it) : p <= x /\ x < q
         /\ Wraps(p, it) => /\ q + M >= p + MemUsage(it)
                            /\ q + M <= p + MemUsage(it) + LargestObject
                            /\ \A x \in ItemWords(p, it) : p <= x \/ x < q
<1> DEFINE q == PushPos(p, it)
<1>1. /\ M \in Nat /\ M >= 3 /\ p \in Nat /\ p < M /\ it.n \in Nat /\ it.n < M
      /\ LargestObject \in Nat
  BY ArgumentTypes
<1>2. CASE it.kind = "words"
  <2>1. MemUsage(it) = it.n
    BY <1>2, ArgumentTypes
  <2>2. \A i \in 0 .. it.n : (p + i) % M = IF p + i < M THEN p + i ELSE p + i - M
    BY <1>1, Rounds
  <2>3. q = IF p + it.n < M THEN p + it.n ELSE p + it.n - M
    BY <1>1, <1>2, <2>2 DEF PushPos
  <2>4. \A x \in ItemWords(p, it) :
          \E i \in 0 .. it.n - 1 : x = IF p + i < M THEN p + i ELSE p + i - M
    BY <1>1, <1>2, <2>2 DEF ItemWords
  <2> QED
    BY <1>1, <2>1, <2>3, <2>4 DEF Wraps
<1>3. CASE it.kind # "words"
  <2>1. MemUsage(it) = it.n + 1
    BY <1>3, ArgumentTypes
  <2>2. LargestObject >= it.n
    BY <1>3, ArgumentTypes DEF Arguments, UidWord
  <2> DEFINE s == EnsureSpace(Bump(p), it.n)
  <2>3. s = IF p + 1 < M /\ p + 1 + it.n < M THEN p + 1 ELSE 0
    BY <1>1 DEF EnsureSpace, Bump
  <2>4. q = s + it.n
    BY <1>3 DEF PushPos
  <2>5. \A x \in ItemWords(p, it) : x = p \/ \E i \in 0 .. it.n - 1 : x = s + i
    BY <1>3 DEF ItemWords
  <2> HIDE DEF s, q
  <2>6. \A x \in ItemWords(p, it) : x = p \/ (s <= x /\ x < s + it.n /\ x \in Nat)
    BY <1>1, <2>3, <2>5
  <2>7. q \in 0 .. M - 1 /\ ItemWords(p, it) \subseteq 0 .. M - 1
    BY <1>1, <2>3, <2>4, <2>6
  <2>8. ~Wraps(p, it) => /\ q = p + MemUsage(it)
                         /\ \A x \in ItemWords(p, it) : p <= x /\ x < q
    BY <1>1, <2>1, <2>3, <2>4, <2>6 DEF Wraps
  <2>9. Wraps(p, it) => /\ q + M >= p + MemUsage(it)
                        /\ q + M <= p + MemUsage(it) + LargestObject
                        /\ \A x \in ItemWords(p, it) : p <= x \/ x < q
    BY <1>1, <2>1, <2>2, <2>3, <2>4, <2>6 DEF Wraps
  <2> QED
    BY <2>7, <2>8, <2>9 DEF q
<1> QED
  BY <1>2, <1>3

(* The arguments the client ever writes are numbered, from 1 on.           *)
Numbers == [Nat -> Nat]

(* Argument i lies between points i - 1 and i of the ring; weight adds up  *)
(* the words of the arguments.  Of two points the later is ahead by just   *)
(* those words, or it is a lap ahead and an object may have left words     *)
(* unused at the end of the ring.                                          *)
Ahead(point, lap, weight, i, j) ==
  /\ weight[i] <= weight[j]
  /\ \/ lap[j] = lap[i] /\ point[j] - point[i] = weight[j] - weight[i]
     \/ /\ lap[j] = lap[i] + 1
        /\ point[j] + M - point[i] <= weight[j] - weight[i] + LargestObject

Track(item, point, lap, weight, lo, hi) ==
  /\ \A i \in lo .. hi : point[i] \in 0 .. M - 1
  /\ \A i \in lo .. hi : i # lo => point[i] = PushPos(point[i - 1], item[i])
  /\ \A i \in lo .. hi : i # lo =>
       lap[i] = lap[i - 1] + (IF Wraps(point[i - 1], item[i]) THEN 1 ELSE 0)
  /\ \A i, j \in lo .. hi : i <= j => Ahead(point, lap, weight, i, j)

(* A track stays one when an argument is added that it has room for.       *)
LEMMA TrackGrows ==
  ASSUME M \in Sizes,
         NEW item \in [Nat -> Arguments], NEW point \in Numbers, NEW lap \in Numbers,
         NEW weight \in Numbers,
         NEW lo \in Nat, NEW hi \in Nat, lo <= hi, Track(item, point, lap, weight, lo, hi),
         item[hi + 1] \in Arguments,
         point[hi + 1] = PushPos(point[hi], item[hi + 1]),
         lap[hi + 1] = lap[hi] + (IF Wraps(point[hi], item[hi + 1]) THEN 1 ELSE 0),
         weight[hi + 1] = weight[hi] + MemUsage(item[hi + 1]),
         weight[hi + 1] - weight[lo] + LargestObject <= M
  PROVE  Track(item, point, lap, weight, lo, hi + 1)
<1> DEFINE k == hi + 1
           m == MemUsage(item[k])
<1>1. /\ M \in Nat /\ m \in Nat /\ LargestObject \in Nat /\ k \in Nat
      /\ \A i \in Nat : point[i] \in Nat /\ lap[i] \in Nat /\ weight[i] \in Nat
  <2>1. M \in Nat /\ LargestObject \in Nat /\ m \in Nat
    BY ArgumentTypes
  <2> QED
    BY <2>1 DEF Numbers
<1>2. point[hi] \in 0 .. M - 1
  BY DEF Track
<1>3. /\ point[k] \in 0 .. M - 1
      /\ ~Wraps(point[hi], item[k]) => point[k] = point[hi] + m
      /\ Wraps(point[hi], item[k]) => /\ point[k] + M >= point[hi] + m
                                      /\ point[k] + M <= point[hi] + m + LargestObject
  BY <1>2, ItemSpan
<1>4. Wraps(point[hi], item[k]) <=> point[hi] + m >= M
  BY DEF Wraps
<1>5. weight[k] = weight[hi] + m /\ weight[k] - weight[lo] + LargestObject <= M
  OBVIOUS
<1>6. lap[k] = lap[hi] + (IF Wraps(point[hi], item[k]) THEN 1 ELSE 0)
  OBVIOUS
<1>7. \A i \in lo .. hi : Ahead(point, lap, weight, i, hi) /\ Ahead(point, lap, weight, lo, i)
  BY DEF Track
<1> HIDE DEF m, k
<1>8. \A i \in lo .. hi : Ahead(point, lap, weight, i, k)
  <2> SUFFICES ASSUME NEW i \in lo .. hi PROVE Ahead(point, lap, weight, i, k)
    OBVIOUS
  <2>1. /\ weight[i] <= weight[hi] /\ weight[lo] <= weight[i]
        /\ \/ lap[hi] = lap[i] /\ point[hi] - point[i] = weight[hi] - weight[i]
           \/ /\ lap[hi] = lap[i] + 1
              /\ point[hi] + M - point[i] <= weight[hi] - weight[i] + LargestObject
    BY <1>7 DEF Ahead
  <2>2. point[i] \in 0 .. M - 1 /\ i \in Nat
    BY DEF Track
  <2>3. CASE ~Wraps(point[hi], item[k])
    BY <1>1, <1>2, <1>3, <1>5, <1>6, <2>1, <2>2, <2>3 DEF Ahead
  <2>4. CASE Wraps(point[hi], item[k])
    BY <1>1, <1>2, <1>3, <1>4, <1>5, <1>6, <2>1, <2>2, <2>4 DEF Ahead
  <2> QED
    BY <2>3, <2>4
<1>9. Ahead(point, lap, weight, k, k)
  BY <1>1 DEF Ahead
<1>10. \A i \in lo .. k : i \in lo .. hi \/ i = k
  BY DEF k
<1>11. \A i, j \in lo .. k : i <= j => Ahead(point, lap, weight, i, j)
  <2> SUFFICES ASSUME NEW i \in lo .. k, NEW j \in lo .. k, i <= j
               PROVE  Ahead(point, lap, weight, i, j)
    OBVIOUS
  <2>1. CASE j \in lo .. hi
    <3>1. i \in lo .. hi
      BY <2>1
    <3> QED
      BY <2>1, <3>1 DEF Track
  <2>2. CASE j = k
    BY <1>8, <1>9, <1>10, <2>2
  <2> QED
    BY <1>10, <2>1, <2>2
<1>12. \A i \in lo .. k : point[i] \in 0 .. M - 1
  BY <1>3, <1>10 DEF Track
<1>13. \A i \in lo .. k : i # lo => point[i] = PushPos(point[i - 1], item[i])
  <2>1. point[k] = PushPos(point[k - 1], item[k])
    BY DEF k
  <2> QED
    BY <1>10, <2>1 DEF Track
<1>14. \A i \in lo .. k : i # lo =>
         lap[i] = lap[i - 1] + (IF Wraps(point[i - 1], item[i]) THEN 1 ELSE 0)
  <2>1. lap[k] = lap[k - 1] + (IF Wraps(point[k - 1], item[k]) THEN 1 ELSE 0)
    BY DEF k
  <2> QED
    BY <1>10, <2>1 DEF Track
<1> QED
  BY <1>11, <1>12, <1>13, <1>14 DEF Track, k

(* The arguments on a track that is short enough share no word.            *)
LEMMA TrackApart ==
  ASSUME M \in Sizes,
         NEW item \in [Nat -> Arguments], NEW point \in Numbers, NEW lap \in Numbers,
         NEW weight \in Numbers,
         NEW lo \in Nat, NEW hi \in Nat, Track(item, point, lap, weight, lo, hi),
         weight[hi] - weight[lo] + LargestObject <= M,
         NEW i \in lo + 1 .. hi, NEW j \in lo + 1 .. hi, i < j
  PROVE  ItemWords(point[i - 1], item[i]) \cap ItemWords(point[j - 1], item[j]) = {}
<1> SUFFICES ASSUME NEW x, x \in ItemWords(point[i - 1], item[i]),
                    x \in ItemWords(point[j - 1], item[j])
             PROVE  FALSE
  OBVIOUS
<1> DEFINE a == i - 1
           c == j - 1
<1>1. a \in lo .. hi /\ c \in lo .. hi /\ i \in lo .. hi /\ j \in lo .. hi /\ lo \in lo .. hi
      /\ a <= i /\ i <= c /\ c <= j /\ i \in Nat /\ j \in Nat
  OBVIOUS
<1>2. /\ M \in Nat /\ LargestObject \in Nat
      /\ \A n \in Nat : point[n] \in Nat /\ lap[n] \in Nat /\ weight[n] \in Nat
  BY ArgumentTypes DEF Numbers
<1>3. point[a] \in 0 .. M - 1 /\ point[c] \in 0 .. M - 1
  BY <1>1 DEF Track
<1>4. point[i] = PushPos(point[a], item[i]) /\ point[j] = PushPos(point[c], item[j])
  BY <1>1 DEF Track
<1>5. /\ lap[i] = lap[a] + (IF Wraps(point[a], item[i]) THEN 1 ELSE 0)
      /\ lap[j] = lap[c] + (IF Wraps(point[c], item[j]) THEN 1 ELSE 0)
  BY <1>1 DEF Track
<1>6. /\ x \in 0 .. M - 1 /\ point[i] \in 0 .. M - 1
      /\ ~Wraps(point[a], item[i]) => point[a] <= x /\ x < point[i]
      /\ Wraps(point[a], item[i]) => point[a] <= x \/ x < point[i]
  BY <1>1, <1>3, <1>4, ItemSpan
<1>7. /\ point[j] \in 0 .. M - 1
      /\ ~Wraps(point[c], item[j]) => point[c] <= x /\ x < point[j]
      /\ Wraps(point[c], item[j]) => point[c] <= x \/ x < point[j]
  BY <1>1, <1>3, <1>4, ItemSpan
<1>8. /\ Ahead(point, lap, weight, a, i) /\ Ahead(point, lap, weight, i, c)
      /\ Ahead(point, lap, weight, a, j) /\ Ahead(point, lap, weight, c, j)
      /\ Ahead(point, lap, weight, a, c) /\ Ahead(point, lap, weight, i, j)
      /\ Ahead(point, lap, weight, lo, a) /\ Ahead(point, lap, weight, j, hi)
  BY <1>1 DEF Track
<1>9. lo \in Nat /\ a \in Nat /\ c \in Nat /\ hi \in Nat
  OBVIOUS
<1> HIDE DEF a, c
<1>10. weight[lo] <= weight[a] /\ weight[j] <= weight[hi]
  BY <1>8 DEF Ahead
<1>11. lap[j] = lap[a] \/ (lap[j] = lap[a] + 1 /\ point[j] <= point[a])
  <2>1. weight[j] - weight[a] + LargestObject <= M
    BY <1>1, <1>2, <1>9, <1>10
  <2> QED
    BY <1>1, <1>2, <1>3, <1>7, <1>8, <1>9, <2>1 DEF Ahead
<1>12. /\ lap[i] = lap[a] => point[a] <= point[i]
       /\ lap[c] = lap[i] => point[i] <= point[c]
       /\ lap[a] <= lap[i] /\ lap[i] <= lap[c] /\ lap[c] <= lap[j]
  BY <1>1, <1>2, <1>8, <1>9 DEF Ahead
<1>13. lap[c] = lap[j] => point[c] <= point[j]
  BY <1>1, <1>2, <1>8, <1>9 DEF Ahead
<1>14. /\ point[a] \in Nat /\ point[i] \in Nat /\ point[c] \in Nat /\ point[j] \in Nat
       /\ lap[a] \in Nat /\ lap[i] \in Nat /\ lap[c] \in Nat /\ lap[j] \in Nat /\ x \in Nat
  BY <1>1, <1>2, <1>6, <1>9
<1>15. CASE Wraps(point[a], item[i])
  <2>1. lap[i] = lap[a] + 1 /\ lap[j] = lap[a] + 1 /\ lap[c] = lap[i]
    BY <1>5, <1>11, <1>12, <1>14, <1>15
  <2>2. ~Wraps(point[c], item[j])
    BY <1>5, <1>14, <2>1
  <2> QED
    BY <1>6, <1>7, <1>11, <1>12, <1>14, <1>15, <2>1, <2>2
<1>16. CASE ~Wraps(point[a], item[i])
  <2>1. point[a] <= x /\ x < point[i] /\ lap[i] = lap[a]
    BY <1>5, <1>6, <1>14, <1>16
  <2>2. lap[c] # lap[i] => lap[c] = lap[a] + 1 /\ lap[j] = lap[c] /\ point[j] <= point[a]
    BY <1>11, <1>12, <1>14, <2>1
  <2>3. CASE lap[c] = lap[i]
    BY <1>5, <1>7, <1>11, <1>12, <1>14, <2>1, <2>3
  <2>4. CASE lap[c] # lap[i]
    <3>1. ~Wraps(point[c], item[j])
      BY <1>5, <1>14, <2>2, <2>4
    <3> QED
      BY <1>7, <1>14, <2>1, <2>2, <2>4, <3>1
  <2> QED
    BY <2>3, <2>4
<1> QED
  BY <1>15, <1>16

(* The type invariant, and why a position that is announced is one of      *)
(* the ring: the client only announces what it has reduced to a lap.       *)
DataTypes ==
  /\ DataTypeOK
  /\ cpc # "idle" => s_curBatchStartPos >= 0
  /\ cpc \in {"lap", "wrap"}
       \/ (cpc \in {"announce", "wait", "resolved"} /\ cResume = "wrap") => cExpect >= M

LEMMA InitDataTypes == DataInit => DataTypes
<1> SUFFICES ASSUME DataInit PROVE DataTypes
  OBVIOUS
<1>1. M \in Sizes /\ M \in Nat /\ M >= 3
  BY DataAssumption DEF DataInit
<1>2. UidRange \in Nat /\ UidRange >= 3 /\ NoWriter \in 0 .. UidRange
  BY DataAssumption DEF UidRange, NoWriter
<1>3. UidWord \in Arguments
  BY DEF Arguments
<1>4. sCmd \in HeaderType
  <2>1. sCmd = [uid |-> NoWriter, items |-> << >>, dataOffset |-> 0]
    BY DEF DataInit
  <2>2. << >> \in Seq(Items \cup {UidWord}) /\ 0 \in 0 .. M
    BY <1>1
  <2> QED
    BY <1>2, <2>1, <2>2 DEF HeaderType
<1>5. ring \in [0 .. M - 1 -> 0 .. UidRange]
  BY <1>2 DEF DataInit
<1>6. DataTypeOK
  <2>1. /\ M \in Sizes /\ cmds \in Seq(HeaderType) /\ Len(cmds) <= K
        /\ cSent \in Seq(Items \cup {UidWord}) /\ sLeft \in Seq(Items \cup {UidWord})
    BY <1>1, DataAssumption DEF DataInit
  <2>2. /\ serverDataPos \in -1 .. M - 1 /\ clientDataExpectedPos \in -1 .. M - 2
        /\ dataSemaphore \in 0 .. 1 /\ cPos \in 0 .. M - 1 /\ cUid \in 0 .. UidRange - 1
        /\ s_curBatchStartPos \in -1 .. M - 1 /\ cServer \in -1 .. M - 1
        /\ cExpect \in 0 .. 2 * M /\ sPos \in 0 .. M - 1
    BY <1>1, <1>2 DEF DataInit
  <2>3. cItem \in Items \cup {UidWord}
    BY DEF DataInit
  <2> QED
    BY <1>4, <1>5, <2>1, <2>2, <2>3 DEF DataInit, DataTypeOK
<1> QED
  BY <1>6 DEF DataTypes, DataInit

(* The size of the ring is set once.                                       *)
LEMMA SizeStays ==
  ASSUME DataNext
  PROVE  /\ M' = M /\ HeaderType' = HeaderType
         /\ \A p, it : /\ PushPos(p, it)' = PushPos(p, it)
                       /\ ItemWords(p, it)' = ItemWords(p, it)
                       /\ Wraps(p, it)' <=> Wraps(p, it)
<1>1. M' = M
  <2>1. ClientNext => M' = M
    BY DEF ClientNext, CommandBegin, SendItem, SyncLoad, SyncDoubleOverflow, SyncWrap, SyncTest,
           Announce, WaitSucceeds, WaitGivesUp, Resolve, WriteItem, CommandEnd, server
  <2>2. ServerNext => M' = M
    BY DEF ServerNext, PopCommand, PullItem, PublishPos, CheckExpected, ReleaseData,
           ClearExpected, client
  <2> QED
    BY <2>1, <2>2 DEF DataNext
<1>2. HeaderType' = HeaderType
  BY <1>1 DEF HeaderType
<1>3. \A p, it : PushPos(p, it)' = PushPos(p, it) /\ (Wraps(p, it)' <=> Wraps(p, it))
  BY <1>1 DEF PushPos, EnsureSpace, Bump, Wraps
<1>4. \A p, it : ItemWords(p, it)' = ItemWords(p, it)
  BY <1>1 DEF ItemWords, EnsureSpace, Bump
<1> QED
  BY <1>1, <1>2, <1>3, <1>4

LEMMA ClientKeepsTypes ==
  ASSUME DataTypes, ClientNext
  PROVE  DataTypes'
<1> USE DEF DataTypes
<1>1. M' = M /\ HeaderType' = HeaderType
  BY SizeStays DEF DataNext
<1>2. /\ M \in Nat /\ M >= 3 /\ UidRange \in Nat /\ UidRange >= 3
      /\ MemUsage(cItem) \in Nat /\ MemUsage(cItem) <= M /\ cItem.n \in Nat
      /\ cItem.kind = "object" => MemUsage(cItem) >= 1
  <2>1. cItem \in Arguments /\ M \in Sizes
    BY DEF DataTypeOK, Arguments
  <2>2. M \in Nat /\ M >= 3 /\ UidRange \in Nat /\ UidRange >= 3
    BY <2>1, DataAssumption DEF UidRange
  <2>3. /\ cItem.n \in Nat /\ cItem.n < M
        /\ MemUsage(cItem) = cItem.n + (IF cItem.kind = "words" THEN 0 ELSE 1)
    BY <2>1, ArgumentTypes
  <2> QED
    BY <2>2, <2>3
<1>3. CASE CommandBegin
  BY <1>1, <1>2, <1>3 DEF CommandBegin, DataTypeOK, shared, server
<1>4. ASSUME NEW it \in Items, SendItem(it) PROVE DataTypes'
  BY <1>1, <1>2, <1>4 DEF SendItem, DataTypeOK, shared, server
<1>5. CASE SyncLoad
  <2> DEFINE words == IF MemUsage(cItem) # 0 THEN MemUsage(cItem) ELSE 1
  <2>2. words \in 1 .. M
    BY <1>2
  <2>3. cExpect' = cPos + words - 1 /\ cPos \in 0 .. M - 1
    BY <1>5 DEF SyncLoad, DataTypeOK
  <2>4. cpc' = "lap" => cExpect' >= M
    BY <1>5, Zenon DEF SyncLoad
  <2> HIDE DEF words
  <2>1. cExpect' \in 0 .. 2 * M /\ (cpc' = "lap" => cExpect' >= M)
    BY <1>2, <2>2, <2>3, <2>4
  <2> QED
    BY <1>1, <1>2, <1>5, <2>1 DEF SyncLoad, DataTypeOK, shared, server
<1>6. CASE SyncDoubleOverflow
  BY <1>1, <1>2, <1>6 DEF SyncDoubleOverflow, DataTypeOK, shared, server
<1>7. CASE SyncWrap
  <2>1. cExpect' \in 0 .. 2 * M
    BY SMTT(20), <1>2, <1>7 DEF SyncWrap, DataTypeOK
  <2> QED
    BY <1>1, <1>2, <1>7, <2>1 DEF SyncWrap, DataTypeOK, shared, server
<1>8. CASE SyncTest
  BY <1>1, <1>2, <1>8 DEF SyncTest, DataTypeOK, shared, server
<1>9. CASE Announce
  <2>1. clientDataExpectedPos' \in -1 .. M - 2
    BY <1>2, <1>9 DEF Announce, DataTypeOK
  <2> QED
    BY <1>1, <1>2, <1>9, <2>1 DEF Announce, DataTypeOK, shared, server
<1>10. CASE WaitSucceeds
  BY <1>1, <1>2, <1>10 DEF WaitSucceeds, DataTypeOK, shared, server
<1>11. CASE WaitGivesUp
  BY <1>1, <1>2, <1>11 DEF WaitGivesUp, DataTypeOK, shared, server
<1>12. CASE Resolve
  <2>1. DataTypeOK'
    <3>1. clientDataExpectedPos' \in -1 .. M - 2
      BY <1>2, <1>12 DEF Resolve
    <3>2. cpc' \in {"wrap", "write"}
      BY <1>12 DEF Resolve, DataTypeOK
    <3> QED
      BY <1>1, <1>12, <3>1, <3>2 DEF Resolve, DataTypeOK, server
  <2>2. cpc = "resolved" /\ cpc' = cResume /\ cResume \in {"wrap", "write"}
        /\ UNCHANGED <<s_curBatchStartPos, cExpect, M>>
    BY <1>1, <1>12 DEF Resolve, DataTypeOK
  <2> QED
    BY <2>1, <2>2
<1>13. CASE WriteItem
  <2>1. ring' \in [0 .. M - 1 -> 0 .. UidRange]
    BY <1>2, <1>13 DEF WriteItem, DataTypeOK
  <2>2. cPos' \in 0 .. M - 1
    BY <1>13, ItemSpan DEF WriteItem, DataTypeOK, Arguments
  <2>3. cSent' \in Seq(Items \cup {UidWord})
    BY <1>13 DEF WriteItem, DataTypeOK
  <2> QED
    BY <1>1, <1>2, <1>13, <2>1, <2>2, <2>3 DEF WriteItem, DataTypeOK, shared, server
<1>14. CASE CommandEnd
  <2>1. [uid |-> cUid, items |-> cSent, dataOffset |-> cPos] \in HeaderType
    <3>1. cUid \in 0 .. UidRange /\ cPos \in 0 .. M /\ cSent \in Seq(Items \cup {UidWord})
      BY <1>2 DEF DataTypeOK
    <3> QED
      BY <3>1 DEF HeaderType
  <2>2. cmds' \in Seq(HeaderType) /\ Len(cmds') <= K
    BY <1>14, <2>1, DataAssumption DEF CommandEnd, DataTypeOK
  <2>3. cUid' \in 0 .. UidRange - 1
    BY SMTT(20), <1>2, <1>14 DEF CommandEnd, DataTypeOK
  <2> QED
    BY SMTT(20), <1>1, <1>2, <1>14, <2>2, <2>3 DEF CommandEnd, DataTypeOK, shared, server
<1> QED
  BY <1>3, <1>4, <1>5, <1>6, <1>7, <1>8, <1>9, <1>10, <1>11, <1>12, <1>13, <1>14
  DEF ClientNext

LEMMA ServerKeepsTypes ==
  ASSUME DataTypes, ServerNext
  PROVE  DataTypes'
<1> USE DEF DataTypes
<1>1. M' = M /\ HeaderType' = HeaderType
  BY SizeStays DEF DataNext
<1>2. M \in Nat /\ M >= 3 /\ UidRange \in Nat /\ UidRange >= 3 /\ NoWriter \in 0 .. UidRange
  BY ArgumentTypes, DataAssumption DEF DataTypeOK, UidRange, NoWriter
<1>3. CASE PopCommand
  <2>1. /\ Head(cmds) \in HeaderType /\ Tail(cmds) \in Seq(HeaderType)
        /\ Len(Tail(cmds)) <= K
    BY <1>3, HeadTailProperties, DataAssumption DEF PopCommand, DataTypeOK
  <2>2. Head(cmds).items \in Seq(Items \cup {UidWord})
    BY <2>1 DEF HeaderType
  <2> QED
    BY <1>1, <1>3, <2>1, <2>2 DEF PopCommand, DataTypeOK, shared, client
<1>4. CASE PullItem
  <2>1. Head(sLeft) \in Arguments /\ Tail(sLeft) \in Seq(Items \cup {UidWord})
    BY <1>4, HeadTailProperties DEF PullItem, DataTypeOK, Arguments
  <2>2. sPos' \in 0 .. M - 1
    BY <1>4, <2>1, ItemSpan DEF PullItem, DataTypeOK, PullPos, PushPos
  <2>3. ring' \in [0 .. M - 1 -> 0 .. UidRange]
    BY <1>2, <1>4 DEF PullItem, DataTypeOK
  <2>4. serverResetPosRequired' \in BOOLEAN
    BY <1>4, Zenon DEF PullItem
  <2> QED
    BY <1>1, <1>4, <2>1, <2>2, <2>3, <2>4 DEF PullItem, DataTypeOK, client
<1>5. CASE PublishPos
  BY <1>1, <1>2, <1>5 DEF PublishPos, DataTypeOK, client
<1>6. CASE CheckExpected
  BY <1>1, <1>2, <1>6 DEF CheckExpected, DataTypeOK, client, shared
<1>7. CASE ReleaseData
  BY <1>1, <1>2, <1>7 DEF ReleaseData, DataTypeOK, client
<1>8. CASE ClearExpected
  BY <1>1, <1>2, <1>8 DEF ClearExpected, DataTypeOK, client
<1> QED
  BY <1>3, <1>4, <1>5, <1>6, <1>7, <1>8 DEF ServerNext

(* The ring holds what the arguments under way were written with.          *)
Marked(item, point, owner, lo, hi) ==
  \A i \in lo .. hi : i # lo =>
    \A x \in ItemWords(point[i - 1], item[i]) : ring[x] = owner[i]

(* The server has still to pull the arguments after lo of command s.       *)
Unread(item, owner, start, lo, s) ==
  /\ start[s + 1] = lo + Len(sLeft)
  /\ \A i \in 1 .. Len(sLeft) : sLeft[i] = item[lo + i] /\ owner[lo + i] = sCmd.uid
  /\ spc # "read" => sLeft = << >>

(* The j-th command in the ring is number s + j.                           *)
InRing(item, owner, start, s) ==
  \A j \in 1 .. Len(cmds) :
    /\ start[s + j + 1] = start[s + j] + Len(cmds[j].items)
    /\ \A i \in 1 .. Len(cmds[j].items) :
         /\ cmds[j].items[i] = item[start[s + j] + i]
         /\ owner[start[s + j] + i] = cmds[j].uid

(* The command the client writes, s being the one the server reads.        *)
Latest(s) == s + Len(cmds) + 1

(* No command has more than CommandWords words, and of the one the         *)
(* server reads no more are unread.                                        *)
Budget(weight, start, lo, s) ==
  /\ \A c, d \in s + 1 .. Latest(s) : c <= d =>
       /\ start[c] <= start[d]
       /\ weight[start[d]] <= weight[start[c]] + (d - c) * CommandWords
  /\ weight[start[s + 1]] <= weight[lo] + CommandWords

(* The client has written the arguments after the from-th of its command.  *)
Written(item, weight, owner, from, hi) ==
  /\ from <= hi /\ hi - from <= MaxItems + 1
  /\ cpc = "idle" => hi = from
  /\ cpc # "idle" =>
       /\ Len(cSent) = hi - from
       /\ \A i \in 1 .. Len(cSent) : cSent[i] = item[from + i]
  /\ cpc = "open" => hi # from
  /\ cpc \notin {"idle", "open"} =>
       IF hi = from THEN cItem = UidWord ELSE cItem \in Items /\ hi - from <= MaxItems
  /\ hi # from => weight[hi] <= weight[from] + 1 + (hi - from - 1) * LargestArgument
  /\ \A i \in from + 1 .. hi : owner[i] = cUid

(* Arguments lo + 1 to hi are under way, from the server's position to     *)
(* the client's, and command c begins after argument start[c].             *)
Flight(item, point, lap, weight, owner, start, lo, hi, s) ==
  /\ lo <= hi /\ point[lo] = sPos /\ point[hi] = cPos
  /\ Track(item, point, lap, weight, lo, hi)
  /\ Marked(item, point, owner, lo, hi)
  /\ Unread(item, owner, start, lo, s)
  /\ InRing(item, owner, start, s)
  /\ Budget(weight, start, lo, s)
  /\ Written(item, weight, owner, start[Latest(s)], hi)

(* What DataIntact asks of the ring.                                       *)
Roomy == M >= (K + 2) * CommandWords + LargestObject

InFlight ==
  \E item \in [Nat -> Arguments], point, lap, weight, owner, start \in Numbers,
     lo, hi, s \in Nat : Flight(item, point, lap, weight, owner, start, lo, hi, s)

DataInv == DataTypes /\ (Roomy => InFlight)

LEMMA Times ==
  ASSUME NEW x \in Nat, NEW n \in Nat, NEW m \in Nat
  PROVE  /\ n * x \in Nat /\ (n + 1) * x = n * x + x
         /\ n <= m => n * x <= m * x
         /\ 0 * x = 0 /\ 1 * x = x
<1>1. n * x \in Nat /\ (n + 1) * x = n * x + x
  OBVIOUS
<1>2. n <= m => n * x <= m * x
  <2> SUFFICES ASSUME n <= m PROVE n * x <= m * x
    OBVIOUS
  <2>1. m - n \in Nat /\ (m - n) * x >= 0 /\ m * x = (m - n) * x + n * x
    OBVIOUS
  <2> QED
    BY <2>1
<1> QED
  BY <1>1, <1>2

(* A command has at most CommandWords words.                               *)
LEMMA CommandSize ==
  ASSUME M \in Sizes
  PROVE  /\ CommandWords \in Nat /\ CommandWords >= 1 /\ LargestArgument \in Nat
         /\ \A n \in 0 .. MaxItems :
              n * LargestArgument \in Nat /\ 1 + n * LargestArgument <= CommandWords
         /\ \A n \in Nat : (n + 1) * LargestArgument = n * LargestArgument + LargestArgument
<1>1. LargestArgument \in Nat /\ MaxItems \in Nat
  BY ArgumentTypes, DataAssumption
<1>2. CommandWords = 1 + MaxItems * LargestArgument
  BY DEF CommandWords, LargestArgument
<1> QED
  BY <1>1, <1>2, Times

(* The commands under way leave room for what an object may leave unused.  *)
LEMMA Room ==
  ASSUME DataTypes, Roomy,
         NEW item, NEW weight \in Numbers, NEW owner, NEW start \in Numbers,
         NEW lo \in Nat, NEW hi \in Nat, NEW s \in Nat,
         Budget(weight, start, lo, s), Written(item, weight, owner, start[Latest(s)], hi)
  PROVE  /\ weight[hi] - weight[lo] + LargestObject <= M
         /\ cpc = "write" => weight[hi] + MemUsage(cItem) - weight[lo] + LargestObject <= M
         /\ weight[hi] <= weight[start[Latest(s)]] + CommandWords
         /\ cpc = "write" =>
              weight[hi] + MemUsage(cItem) <=
                weight[start[Latest(s)]] + 1 + (hi - start[Latest(s)]) * LargestArgument
<1> DEFINE e == Latest(s)
           from == start[e]
           n == hi - from
<1>1. M \in Sizes /\ Len(cmds) \in 0 .. K /\ cItem \in Arguments
  BY DEF DataTypes, DataTypeOK, Arguments
<1>2. /\ e \in Nat /\ from \in Nat /\ weight[hi] \in Nat /\ weight[lo] \in Nat
      /\ weight[from] \in Nat /\ weight[start[s + 1]] \in Nat
  <2>1. \A x \in Nat : start[x] \in Nat /\ weight[x] \in Nat
    BY DEF Numbers
  <2>2. e \in Nat /\ s + 1 \in Nat
    BY <1>1, DataAssumption DEF Latest
  <2> HIDE DEF e
  <2>3. from \in Nat /\ start[s + 1] \in Nat
    BY <2>1, <2>2
  <2> HIDE DEF from
  <2> QED
    BY <2>1, <2>2, <2>3
<1>3. M \in Nat /\ LargestObject \in Nat /\ MemUsage(cItem) \in Nat /\ K \in Nat /\ MaxItems \in Nat
  BY <1>1, ArgumentTypes, DataAssumption
<1>4. n \in 0 .. MaxItems + 1
  BY <1>2, <1>3 DEF Written
<1>5. n > 0 => weight[hi] <= weight[from] + 1 + (n - 1) * LargestArgument
  BY <1>2 DEF Written
<1>6. cpc = "write" => IF n = 0 THEN MemUsage(cItem) = 1
                       ELSE n <= MaxItems /\ MemUsage(cItem) <= LargestArgument
  <2>1. MemUsage(UidWord) = 1
    BY DEF MemUsage, UidWord
  <2>2. \A it \in Items : MemUsage(it) <= LargestArgument
    BY <1>1, ArgumentTypes
  <2>3. cpc = "write" =>
          IF hi = from THEN cItem = UidWord ELSE cItem \in Items /\ hi - from <= MaxItems
    BY DEF Written
  <2> HIDE DEF from
  <2> QED
    BY <1>2, <2>1, <2>2, <2>3
<1>7. weight[from] <= weight[start[s + 1]] + Len(cmds) * CommandWords
  <2>1. s + 1 \in s + 1 .. e /\ e \in s + 1 .. e /\ s + 1 <= e /\ e - (s + 1) = Len(cmds)
    BY <1>1 DEF Latest
  <2> QED
    BY <2>1 DEF Budget
<1>8. weight[start[s + 1]] <= weight[lo] + CommandWords
  BY DEF Budget
<1>13. n = 0 => weight[hi] = weight[from]
  BY <1>2
<1> HIDE DEF e, n, from
<1>9. weight[hi] <= weight[from] + CommandWords
  <2>1. CASE n = 0
    <3>1. CommandWords \in Nat
      BY <1>1, CommandSize
    <3> QED
      BY <1>2, <1>13, <2>1, <3>1
  <2>2. CASE n > 0
    <3>1. n - 1 \in 0 .. MaxItems
      BY <1>3, <1>4, <2>2
    <3>2. 1 + (n - 1) * LargestArgument <= CommandWords /\ (n - 1) * LargestArgument \in Nat
      BY <1>1, <3>1, CommandSize
    <3>3. CommandWords \in Nat
      BY <1>1, CommandSize
    <3> QED
      BY <1>2, <1>5, <2>2, <3>2, <3>3
  <2> QED
    BY <1>4, <2>1, <2>2
<1>10. cpc = "write" => weight[hi] + MemUsage(cItem) <= weight[from] + 1 + n * LargestArgument
  <2> SUFFICES ASSUME cpc = "write"
               PROVE  weight[hi] + MemUsage(cItem) <= weight[from] + 1 + n * LargestArgument
    OBVIOUS
  <2>1. CASE n = 0
    <3>1. n * LargestArgument = 0
      BY <1>1, <2>1, CommandSize, Times
    <3> QED
      BY <1>2, <1>6, <1>13, <2>1, <3>1
  <2>2. CASE n > 0
    <3>1. n - 1 \in Nat /\ n - 1 \in 0 .. MaxItems /\ (n - 1) + 1 = n
      BY <1>3, <1>4, <2>2
    <3>2. n * LargestArgument = (n - 1) * LargestArgument + LargestArgument
      BY <1>1, <3>1, CommandSize
    <3>3. (n - 1) * LargestArgument \in Nat /\ LargestArgument \in Nat
      BY <1>1, <3>1, CommandSize
    <3> QED
      BY <1>2, <1>3, <1>5, <1>6, <2>2, <3>2, <3>3
  <2> QED
    BY <1>4, <2>1, <2>2
<1>11. cpc = "write" => weight[hi] + MemUsage(cItem) <= weight[from] + CommandWords
  <2> SUFFICES ASSUME cpc = "write"
               PROVE  weight[hi] + MemUsage(cItem) <= weight[from] + CommandWords
    OBVIOUS
  <2>1. n \in 0 .. MaxItems
    BY <1>3, <1>4, <1>6
  <2>2. n * LargestArgument \in Nat /\ 1 + n * LargestArgument <= CommandWords
        /\ CommandWords \in Nat
    BY <1>1, <2>1, CommandSize
  <2> QED
    BY <1>2, <1>3, <1>10, <2>2
<1>12. \A w \in Nat : w <= weight[from] + CommandWords => w - weight[lo] + LargestObject <= M
  <2> DEFINE total == Len(cmds) * CommandWords
  <2>1. CommandWords \in Nat /\ total \in Nat /\ total <= K * CommandWords
    <3>1. CommandWords \in Nat
      BY <1>1, CommandSize
    <3>2. Len(cmds) \in Nat /\ Len(cmds) <= K
      BY <1>1, <1>3
    <3> QED
      BY <1>3, <3>1, <3>2, Times
  <2>2. (K + 2) * CommandWords = K * CommandWords + CommandWords + CommandWords
    BY <1>3, <2>1
  <2>3. K * CommandWords \in Nat
    BY <1>3, <2>1
  <2>4. M >= K * CommandWords + CommandWords + CommandWords + LargestObject
    BY <2>2 DEF Roomy
  <2> HIDE DEF total
  <2>5. weight[from] <= weight[start[s + 1]] + total
    BY <1>7 DEF total
  <2> DEFINE most == K * CommandWords
  <2>6. most \in Nat /\ total <= most
        /\ M >= most + CommandWords + CommandWords + LargestObject
    BY <2>1, <2>3, <2>4
  <2> HIDE DEF most
  <2> QED
    BY <1>2, <1>3, <1>8, <2>1, <2>5, <2>6
<1> QED
  BY <1>2, <1>3, <1>9, <1>10, <1>11, <1>12 DEF e, n, from

LEMMA TrackStays ==
  ASSUME DataNext, NEW item, NEW point, NEW lap, NEW weight, NEW lo, NEW hi,
         Track(item, point, lap, weight, lo, hi)
  PROVE  Track(item, point, lap, weight, lo, hi)'
<1>1. M' = M
  BY SizeStays
<1>2. \A i, j : Ahead(point, lap, weight, i, j)' <=> Ahead(point, lap, weight, i, j)
  BY <1>1 DEF Ahead
<1>3. \A p, it : PushPos(p, it)' = PushPos(p, it) /\ (Wraps(p, it)' <=> Wraps(p, it))
  BY SizeStays
<1> QED
  BY <1>1, <1>2, <1>3 DEF Track

(* A step that leaves the arguments alone.                                 *)
LEMMA FlightStays ==
  ASSUME DataNext, UNCHANGED <<ring, cmds, cPos, sPos, cUid, sCmd, sLeft>>,
         spc' # "read" => sLeft = << >>,
         NEW item, NEW point, NEW lap, NEW weight, NEW owner, NEW start,
         NEW lo, NEW hi, NEW s, Flight(item, point, lap, weight, owner, start, lo, hi, s),
         Written(item, weight, owner, start[Latest(s)], hi)'
  PROVE  Flight(item, point, lap, weight, owner, start, lo, hi, s)'
<1>1. Track(item, point, lap, weight, lo, hi)'
  BY TrackStays DEF Flight
<1>2. Marked(item, point, owner, lo, hi)'
  <2>1. \A p, it : ItemWords(p, it)' = ItemWords(p, it)
    BY SizeStays
  <2>2. Marked(item, point, owner, lo, hi)
    BY DEF Flight
  <2> QED
    BY <2>1, <2>2 DEF Marked
<1>3. Unread(item, owner, start, lo, s)' /\ InRing(item, owner, start, s)'
  BY DEF Flight, Unread, InRing
<1>4. Budget(weight, start, lo, s)'
  BY DEF Flight, Budget, Latest
<1> QED
  BY <1>1, <1>2, <1>3, <1>4 DEF Flight

LEMMA WrittenStays ==
  ASSUME DataNext, UNCHANGED <<cmds, cUid, cSent>>,
         NEW item, NEW weight, NEW owner, NEW start, NEW hi, NEW s,
         Written(item, weight, owner, start[Latest(s)], hi),
         \/ UNCHANGED <<cpc, cItem>>
         \/ cpc \notin {"idle", "open"} /\ cpc' \notin {"idle", "open"} /\ cItem' = cItem
         \/ cpc = "open" /\ cpc' \notin {"idle", "open"} /\ cItem' \in Items
              /\ hi - start[Latest(s)] <= MaxItems
  PROVE  Written(item, weight, owner, start[Latest(s)], hi)'
<1>1. Latest(s)' = Latest(s)
  BY DEF Latest
<1> DEFINE from == start[Latest(s)]
<1>2. Written(item, weight, owner, from, hi)
  OBVIOUS
<1>3. from' = from
  BY <1>1
<1> HIDE DEF from
<1>4. cpc = "open" => hi # from
  BY <1>2 DEF Written
<1>5. ASSUME NEW f, f = from PROVE Written(item, weight, owner, f, hi)'
  <2>1. Written(item, weight, owner, f, hi)
    BY <1>2, <1>5
  <2>2. CASE UNCHANGED <<cpc, cItem>>
    BY <2>1, <2>2 DEF Written
  <2>3. CASE cpc \notin {"idle", "open"} /\ cpc' \notin {"idle", "open"} /\ cItem' = cItem
    BY <2>1, <2>3 DEF Written
  <2>4. CASE cpc = "open" /\ cpc' \notin {"idle", "open"} /\ cItem' \in Items
              /\ hi - f <= MaxItems
    BY <1>4, <1>5, <2>1, <2>4 DEF Written
  <2> QED
    BY <1>5, <2>2, <2>3, <2>4 DEF from
<1> QED
  BY <1>3, <1>5 DEF from

(* The client closes its command and the next one begins.                  *)
LEMMA CommandEndKeeps ==
  ASSUME DataTypes, CommandEnd, Roomy,
         NEW item \in [Nat -> Arguments], NEW point \in Numbers, NEW lap \in Numbers,
         NEW weight \in Numbers, NEW owner \in Numbers, NEW start \in Numbers,
         NEW lo \in Nat, NEW hi \in Nat, NEW s \in Nat,
         Flight(item, point, lap, weight, owner, start, lo, hi, s)
  PROVE  InFlight'
<1>1. Len(cmds) \in Nat /\ cmds \in Seq(HeaderType) /\ cSent \in Seq(Items \cup {UidWord})
  BY DEF DataTypes, DataTypeOK
<1>2. PICK e \in Nat : e = Latest(s) /\ e = s + Len(cmds) + 1
  BY <1>1 DEF Latest
<1>3. PICK cmd : cmd = [uid |-> cUid, items |-> cSent, dataOffset |-> cPos]
  OBVIOUS
<1>4. /\ cmds' = Append(cmds, cmd) /\ cpc' = "idle" /\ cpc = "open"
      /\ UNCHANGED <<ring, cPos, sPos, sLeft, sCmd, spc, cSent>>
  BY <1>3 DEF CommandEnd, server
<1>5. /\ Len(cmds') = Len(cmds) + 1 /\ cmds'[Len(cmds) + 1] = cmd
      /\ \A j \in 1 .. Len(cmds) : cmds'[j] = cmds[j]
  BY <1>1, <1>4
<1>6. Latest(s)' = e + 1
  BY <1>1, <1>2, <1>5 DEF Latest
<1>7. PICK start2 : start2 = [start EXCEPT ![e + 1] = hi]
  OBVIOUS
<1>8. /\ start2 \in Numbers /\ start2[e + 1] = hi
      /\ \A c \in Nat : start[c] \in Nat
      /\ \A c \in Nat : c <= e => start2[c] = start[c]
  BY SMTT(20), <1>7 DEF Numbers
<1>9. /\ Len(cSent) = hi - start[e] /\ start[e] <= hi
      /\ \A i \in 1 .. Len(cSent) : cSent[i] = item[start[e] + i]
      /\ \A i \in start[e] + 1 .. hi : owner[i] = cUid
  BY <1>2, <1>4 DEF Flight, Written
<1>10. Track(item, point, lap, weight, lo, hi)'
  BY TrackStays DEF Flight, DataNext, ClientNext
<1>11. Marked(item, point, owner, lo, hi)'
  <2>1. \A p, it : ItemWords(p, it)' = ItemWords(p, it)
    BY SizeStays DEF DataNext, ClientNext
  <2> QED
    BY <1>4, <2>1 DEF Flight, Marked
<1>12. Unread(item, owner, start2, lo, s)'
  <2>1. start2[s + 1] = start[s + 1]
    BY <1>1, <1>2, <1>8
  <2> QED
    BY <1>4, <2>1 DEF Flight, Unread
<1>13. InRing(item, owner, start2, s)'
  <2> SUFFICES ASSUME NEW j \in 1 .. Len(cmds) + 1
               PROVE  /\ start2[s + j + 1] = start2[s + j] + Len(cmds'[j].items)
                      /\ \A i \in 1 .. Len(cmds'[j].items) :
                           /\ cmds'[j].items[i] = item[start2[s + j] + i]
                           /\ owner[start2[s + j] + i] = cmds'[j].uid
    BY <1>5 DEF InRing
  <2>1. CASE j \in 1 .. Len(cmds)
    <3>1. start2[s + j] = start[s + j] /\ start2[s + j + 1] = start[s + j + 1]
      BY <1>1, <1>2, <1>8, <2>1
    <3>2. cmds'[j] = cmds[j]
      BY <1>5, <2>1
    <3> QED
      BY <2>1, <3>1, <3>2 DEF Flight, InRing
  <2>2. CASE j = Len(cmds) + 1
    <3>1. start2[s + j] = start[e] /\ start2[s + j + 1] = hi
      <4>1. s + j = e /\ s + j + 1 = e + 1
        BY <1>1, <1>2, <2>2
      <4>2. start2[e] = start[e] /\ start2[e + 1] = hi
        BY <1>8
      <4> QED
        BY <4>1, <4>2
    <3>2. cmds'[j].items = cSent /\ cmds'[j].uid = cUid
      BY <1>3, <1>5, <2>2
    <3>3. \A i \in 1 .. Len(cSent) : start[e] + i \in start[e] + 1 .. hi
      BY SMTT(20), <1>1, <1>8, <1>9
    <3>4. hi = start[e] + Len(cSent)
      BY <1>8, <1>9
    <3> QED
      BY <1>9, <3>1, <3>2, <3>3, <3>4
  <2>3. j \in 1 .. Len(cmds) \/ j = Len(cmds) + 1
    BY <1>1
  <2> QED
    BY <2>1, <2>2, <2>3
<1>14. Budget(weight, start2, lo, s)'
  <2>1. weight[hi] <= weight[start[e]] + CommandWords
    BY <1>2, Room DEF Flight
  <2>2. /\ CommandWords \in Nat /\ \A x \in Nat : weight[x] \in Nat
        /\ s + 1 <= e /\ e \in s + 1 .. e
    <3>1. CommandWords \in Nat
      BY CommandSize DEF DataTypes, DataTypeOK
    <3>2. s + 1 <= e /\ e \in s + 1 .. e
      BY <1>1, <1>2
    <3> QED
      BY <3>1, <3>2 DEF Numbers
  <2>3. \A c, d \in s + 1 .. e : c <= d =>
          start[c] <= start[d] /\ weight[start[d]] <= weight[start[c]] + (d - c) * CommandWords
    BY <1>2 DEF Flight, Budget
  <2>4. \A c, d \in s + 1 .. e + 1 : c <= d =>
          start2[c] <= start2[d]
          /\ weight[start2[d]] <= weight[start2[c]] + (d - c) * CommandWords
    <3> SUFFICES ASSUME NEW c \in s + 1 .. e + 1, NEW d \in s + 1 .. e + 1, c <= d
                 PROVE  /\ start2[c] <= start2[d]
                        /\ weight[start2[d]] <= weight[start2[c]] + (d - c) * CommandWords
      OBVIOUS
    <3>1. CASE d <= e
      BY <1>8, <2>3, <3>1
    <3>2. CASE d = e + 1 /\ c <= e
      <4>1. start[c] <= start[e] /\ weight[start[e]] <= weight[start[c]] + (e - c) * CommandWords
        BY <2>2, <2>3, <3>2
      <4>2. start2[c] = start[c] /\ start2[d] = hi /\ start[c] \in Nat /\ start[e] \in Nat
        BY <1>8, <3>2
      <4>3. (d - c) * CommandWords = (e - c) * CommandWords + CommandWords
            /\ (e - c) * CommandWords \in Nat
        <5>1. e - c \in Nat /\ d - c = (e - c) + 1
          BY <3>2
        <5> QED
          BY <2>2, <5>1, Times
      <4>4. weight[hi] \in Nat /\ weight[start[e]] \in Nat /\ weight[start[c]] \in Nat
        BY <2>2, <4>2
      <4> DEFINE far == (e - c) * CommandWords
      <4>5. weight[hi] <= weight[start[c]] + (far + CommandWords)
        <5>1. far \in Nat /\ weight[start[e]] <= weight[start[c]] + far
          BY <4>1, <4>3
        <5> HIDE DEF far
        <5> QED
          BY <2>1, <2>2, <4>4, <5>1
      <4> QED
        BY <1>9, <4>1, <4>2, <4>3, <4>5
    <3>3. CASE d = e + 1 /\ c = e + 1
      <4>1. (d - c) * CommandWords = 0
        BY <2>2, <3>3, Times
      <4>2. start2[c] = hi /\ start2[d] = hi /\ weight[hi] \in Nat
        BY <1>8, <2>2, <3>3
      <4> QED
        BY <4>1, <4>2
    <3> QED
      BY <3>1, <3>2, <3>3
  <2>5. weight[start2[s + 1]] <= weight[lo] + CommandWords
    BY <1>8, <2>2 DEF Flight, Budget
  <2> QED
    BY <1>6, <2>4, <2>5 DEF Budget
<1>15. Written(item, weight, owner, start2[Latest(s)], hi)'
  <2>1. start2[Latest(s)]' = hi
    BY <1>6, <1>8
  <2>2. 0 <= MaxItems + 1
    BY DataAssumption
  <2> QED
    BY <1>4, <2>1, <2>2 DEF Written
<1>16. Flight(item, point, lap, weight, owner, start2, lo, hi, s)'
  BY <1>4, <1>10, <1>11, <1>12, <1>13, <1>14, <1>15 DEF Flight
<1> QED
  BY <1>8, <1>16 DEF InFlight

(* The server turns to the next command: all its arguments are unread.     *)
LEMMA PopCommandKeeps ==
  ASSUME DataTypes, PopCommand,
         NEW item \in [Nat -> Arguments], NEW point \in Numbers, NEW lap \in Numbers,
         NEW weight \in Numbers, NEW owner \in Numbers, NEW start \in Numbers,
         NEW lo \in Nat, NEW hi \in Nat, NEW s \in Nat,
         Flight(item, point, lap, weight, owner, start, lo, hi, s)
  PROVE  InFlight'
<1>1. Len(cmds) \in Nat /\ cmds \in Seq(HeaderType) /\ cmds # << >>
  BY DEF DataTypes, DataTypeOK, PopCommand
<1>2. /\ Len(cmds) > 0 /\ Head(cmds) = cmds[1] /\ Len(Tail(cmds)) = Len(cmds) - 1
      /\ \A j \in 1 .. Len(cmds) - 1 : Tail(cmds)[j] = cmds[j + 1]
  BY <1>1
<1>3. /\ cmds' = Tail(cmds) /\ sCmd' = cmds[1] /\ sLeft' = cmds[1].items
      /\ spc' = "read" /\ spc = "idle"
      /\ UNCHANGED <<ring, cPos, sPos, cSent, cpc, cItem, cUid>>
  BY <1>2 DEF PopCommand, client
<1>4. Latest(s + 1)' = Latest(s) /\ Latest(s) = s + Len(cmds) + 1
  BY <1>1, <1>2, <1>3 DEF Latest
<1>5. lo = start[s + 1]
  BY <1>3 DEF Flight, Unread, Numbers
<1>6. Track(item, point, lap, weight, lo, hi)'
  BY TrackStays DEF Flight, DataNext, ServerNext
<1>7. Marked(item, point, owner, lo, hi)'
  <2>1. \A p, it : ItemWords(p, it)' = ItemWords(p, it)
    BY SizeStays DEF DataNext, ServerNext
  <2> QED
    BY <1>3, <2>1 DEF Flight, Marked
<1>8. \A j \in 1 .. Len(cmds) :
        /\ start[s + j + 1] = start[s + j] + Len(cmds[j].items)
        /\ \A i \in 1 .. Len(cmds[j].items) :
             /\ cmds[j].items[i] = item[start[s + j] + i]
             /\ owner[start[s + j] + i] = cmds[j].uid
  BY DEF Flight, InRing
<1>9. Unread(item, owner, start, lo, s + 1)'
  <2>1. 1 \in 1 .. Len(cmds)
    BY <1>1, <1>2
  <2> QED
    BY <1>3, <1>5, <1>8, <2>1 DEF Unread
<1>10. InRing(item, owner, start, s + 1)'
  <2> SUFFICES ASSUME NEW j \in 1 .. Len(cmds')
               PROVE  /\ start[s + 1 + j + 1] = start[s + 1 + j] + Len(cmds'[j].items)
                      /\ \A i \in 1 .. Len(cmds'[j].items) :
                           /\ cmds'[j].items[i] = item[start[s + 1 + j] + i]
                           /\ owner[start[s + 1 + j] + i] = cmds'[j].uid
    BY DEF InRing
  <2>1. j + 1 \in 1 .. Len(cmds) /\ cmds'[j] = cmds[j + 1]
    BY <1>1, <1>2, <1>3
  <2>2. s + 1 + j = s + (j + 1) /\ s + 1 + j + 1 = s + (j + 1) + 1
    OBVIOUS
  <2> QED
    BY <1>8, <2>1, <2>2
<1>11. Budget(weight, start, lo, s + 1)'
  <2>1. \A c, d \in s + 1 .. Latest(s) : c <= d =>
          start[c] <= start[d] /\ weight[start[d]] <= weight[start[c]] + (d - c) * CommandWords
    BY DEF Flight, Budget
  <2>2. s + 2 \in s + 1 .. Latest(s) /\ s + 1 \in s + 1 .. Latest(s) /\ (s + 2) - (s + 1) = 1
    BY <1>1, <1>2, <1>4
  <2>3. 1 * CommandWords = CommandWords
    BY CommandSize, Times DEF DataTypes, DataTypeOK
  <2>4. weight[start[s + 2]] <= weight[start[s + 1]] + CommandWords
    BY <2>1, <2>2, <2>3
  <2>5. s + 1 + 1 = s + 2 /\ \A c \in s + 1 + 1 .. Latest(s) : c \in s + 1 .. Latest(s)
    BY <1>1, <1>4
  <2> QED
    BY <1>4, <1>5, <2>1, <2>4, <2>5 DEF Budget
<1>12. Written(item, weight, owner, start[Latest(s + 1)], hi)'
  <2>1. start[Latest(s + 1)]' = start[Latest(s)]
    BY <1>4
  <2> QED
    BY <1>3, <2>1 DEF Flight, Written
<1>13. Flight(item, point, lap, weight, owner, start, lo, hi, s + 1)'
  BY <1>3, <1>6, <1>7, <1>9, <1>10, <1>11, <1>12 DEF Flight
<1>14. s + 1 \in Nat
  OBVIOUS
<1> QED
  BY <1>13, <1>14 DEF InFlight

(* What the server has still to pull lies before the client's position.    *)
LEMMA UnreadAhead ==
  ASSUME Len(cmds) \in Nat, Len(sLeft) \in Nat, Len(sLeft) >= 1,
         NEW item, NEW point, NEW lap, NEW weight, NEW owner, NEW start \in Numbers,
         NEW lo \in Nat, NEW hi \in Nat, NEW s \in Nat,
         Flight(item, point, lap, weight, owner, start, lo, hi, s)
  PROVE  lo + 1 <= hi
<1> DEFINE e == Latest(s)
<1>1. e = s + Len(cmds) + 1
  BY DEF Latest
<1>2. s + 1 \in s + 1 .. e /\ e \in s + 1 .. e /\ s + 1 <= e
  BY <1>1
<1>3. start[s + 1] <= start[e] /\ start[e] <= hi /\ start[s + 1] = lo + Len(sLeft)
  BY <1>2 DEF Flight, Budget, Written, Unread
<1>4. start[e] \in Nat
  BY <1>1 DEF Numbers
<1> HIDE DEF e
<1> QED
  BY <1>3, <1>4

(* The server leaves an argument behind.                                   *)
LEMMA PullItemKeeps ==
  ASSUME DataTypes, PullItem, Roomy,
         NEW item \in [Nat -> Arguments], NEW point \in Numbers, NEW lap \in Numbers,
         NEW weight \in Numbers, NEW owner \in Numbers, NEW start \in Numbers,
         NEW lo \in Nat, NEW hi \in Nat, NEW s \in Nat,
         Flight(item, point, lap, weight, owner, start, lo, hi, s)
  PROVE  InFlight'
<1>1. /\ Len(cmds) \in Nat /\ sLeft \in Seq(Items \cup {UidWord}) /\ sLeft # << >>
      /\ M \in Sizes /\ M \in Nat
  BY DataAssumption DEF DataTypes, DataTypeOK, PullItem
<1>2. /\ Len(sLeft) \in Nat /\ Len(sLeft) > 0 /\ Head(sLeft) = sLeft[1]
      /\ Len(Tail(sLeft)) = Len(sLeft) - 1
      /\ \A i \in 1 .. Len(sLeft) - 1 : Tail(sLeft)[i] = sLeft[i + 1]
  BY <1>1
<1>3. /\ start[s + 1] = lo + Len(sLeft)
      /\ \A i \in 1 .. Len(sLeft) : sLeft[i] = item[lo + i] /\ owner[lo + i] = sCmd.uid
  BY DEF Flight, Unread
<1>4. Head(sLeft) = item[lo + 1] /\ item[lo + 1] \in Arguments
  <2>1. 1 \in 1 .. Len(sLeft) /\ lo + 1 \in Nat
    BY <1>2
  <2> QED
    BY <1>2, <1>3, <2>1
<1>5. lo + 1 <= hi
  BY <1>1, <1>2, UnreadAhead
<1>6. lo + 1 \in lo .. hi /\ lo + 1 # lo /\ lo \in lo .. hi /\ lo + 1 - 1 = lo /\ lo + 1 \in Nat
  BY <1>5
<1>7. Track(item, point, lap, weight, lo, hi)
  BY DEF Flight
<1>8. sPos = point[lo] /\ point[lo + 1] = PushPos(sPos, item[lo + 1])
  BY <1>6, <1>7 DEF Flight, Track
<1>9. /\ sPos' = point[lo + 1] /\ spc = "read" /\ spc' = "read" /\ sLeft' = Tail(sLeft)
      /\ ring' = [x \in 0 .. M - 1 |->
                    IF x \in ItemWords(point[lo], item[lo + 1]) THEN NoWriter ELSE ring[x]]
      /\ UNCHANGED <<cmds, cPos, sCmd, cSent, cpc, cItem, cUid>>
  BY <1>4, <1>8 DEF PullItem, client, PullPos, PushPos
<1>10. weight[hi] - weight[lo] + LargestObject <= M
  BY Room DEF Flight
<1>11. Track(item, point, lap, weight, lo + 1, hi)'
  <2>1. \A i \in lo + 1 .. hi : i \in lo .. hi /\ i # lo
    OBVIOUS
  <2>2. Track(item, point, lap, weight, lo + 1, hi)
    BY <1>7, <2>1 DEF Track
  <2> QED
    BY <2>2, TrackStays DEF DataNext, ServerNext
<1>12. Marked(item, point, owner, lo + 1, hi)'
  <2>1. \A p, it : ItemWords(p, it)' = ItemWords(p, it)
    BY SizeStays DEF DataNext, ServerNext
  <2> SUFFICES ASSUME NEW i \in lo + 1 .. hi, i # lo + 1,
                      NEW x, x \in ItemWords(point[i - 1], item[i])
               PROVE  ring'[x] = owner[i]
    BY <2>1 DEF Marked
  <2>2. i \in lo .. hi /\ i # lo /\ i - 1 \in lo .. hi /\ lo + 1 < i /\ i \in Nat
        /\ lo + 1 \in lo + 1 .. hi
    BY <1>6
  <2>3. ring[x] = owner[i]
    BY <2>2 DEF Flight, Marked
  <2>4. x \in 0 .. M - 1
    <3>1. point[i - 1] \in 0 .. M - 1 /\ item[i] \in Arguments
      BY <1>7, <2>2 DEF Track
    <3> QED
      BY <1>1, <3>1, ItemSpan
  <2>5. PICK n : n = lo + 1
    OBVIOUS
  <2>7. M \in Sizes /\ n \in lo + 1 .. hi /\ i \in lo + 1 .. hi /\ n < i /\ n - 1 = lo
    BY <1>1, <1>6, <2>2, <2>5
  <2>8. ItemWords(point[n - 1], item[n]) \cap ItemWords(point[i - 1], item[i]) = {}
    BY <1>7, <1>10, <2>7, TrackApart
  <2>6. x \notin ItemWords(point[lo], item[lo + 1])
    BY <2>5, <2>7, <2>8
  <2> QED
    BY <1>9, <2>3, <2>4, <2>6
<1>13. Unread(item, owner, start, lo + 1, s)'
  <2>1. start[s + 1] = lo + 1 + Len(sLeft')
    <3>1. Len(sLeft') = Len(sLeft) - 1
      BY <1>2, <1>9
    <3> QED
      BY <1>2, <1>3, <3>1
  <2>2. \A i \in 1 .. Len(sLeft') :
          sLeft'[i] = item[lo + 1 + i] /\ owner[lo + 1 + i] = sCmd'.uid
    <3> SUFFICES ASSUME NEW i \in 1 .. Len(sLeft) - 1
                 PROVE  sLeft[i + 1] = item[lo + 1 + i] /\ owner[lo + 1 + i] = sCmd.uid
      BY <1>2, <1>9
    <3>1. i + 1 \in 1 .. Len(sLeft) /\ lo + (i + 1) = lo + 1 + i
      BY <1>2
    <3> QED
      BY <1>3, <3>1
  <2> QED
    BY <1>9, <2>1, <2>2 DEF Unread
<1>14. InRing(item, owner, start, s)'
  BY <1>9 DEF Flight, InRing
<1>15. Latest(s)' = Latest(s)
  BY <1>9 DEF Latest
<1>16. Budget(weight, start, lo + 1, s)'
  <2>1. weight[lo] <= weight[lo + 1]
    BY <1>5, <1>6, <1>7 DEF Track, Ahead
  <2>2. weight[start[s + 1]] <= weight[lo] + CommandWords
    BY DEF Flight, Budget
  <2>3. CommandWords \in Nat /\ weight[lo] \in Nat /\ weight[lo + 1] \in Nat
        /\ weight[start[s + 1]] \in Nat
    <3>1. CommandWords \in Nat
      BY <1>1, CommandSize
    <3>2. s + 1 \in Nat /\ lo + 1 \in Nat
      OBVIOUS
    <3>3. start[s + 1] \in Nat /\ weight[lo] \in Nat /\ weight[lo + 1] \in Nat
      BY <3>2 DEF Numbers
    <3> QED
      BY <3>1, <3>3 DEF Numbers
  <2>4. weight[start[s + 1]] <= weight[lo + 1] + CommandWords
    BY <2>1, <2>2, <2>3
  <2> QED
    BY <1>15, <2>4 DEF Flight, Budget
<1>17. Written(item, weight, owner, start[Latest(s)], hi)'
  BY <1>9, <1>15 DEF Flight, Written
<1>18. Flight(item, point, lap, weight, owner, start, lo + 1, hi, s)'
  BY <1>5, <1>9, <1>11, <1>12, <1>13, <1>14, <1>16, <1>17 DEF Flight
<1> QED
  BY <1>6, <1>18 DEF InFlight

(* The client writes where no argument under way lies.                     *)
LEMMA WriteItemKeeps ==
  ASSUME DataTypes, WriteItem, Roomy,
         NEW item \in [Nat -> Arguments], NEW point \in Numbers, NEW lap \in Numbers,
         NEW weight \in Numbers, NEW owner \in Numbers, NEW start \in Numbers,
         NEW lo \in Nat, NEW hi \in Nat, NEW s \in Nat,
         Flight(item, point, lap, weight, owner, start, lo, hi, s)
  PROVE  InFlight'
<1>1. /\ Len(cmds) \in Nat /\ cSent \in Seq(Items \cup {UidWord}) /\ cItem \in Arguments
      /\ M \in Sizes /\ M \in Nat /\ cPos \in 0 .. M - 1 /\ cUid \in Nat
  BY DataAssumption DEF DataTypes, DataTypeOK, Arguments, UidRange
<1>2. /\ cpc = "write" /\ cpc' = "open" /\ cSent' = Append(cSent, cItem)
      /\ cPos' = PushPos(cPos, cItem)
      /\ ring' = [x \in 0 .. M - 1 |-> IF x \in ItemWords(cPos, cItem) THEN cUid ELSE ring[x]]
      /\ UNCHANGED <<cmds, cUid, sPos, sLeft, sCmd, spc>>
  BY DEF WriteItem, server
<1>3. PICK e \in Nat : e = Latest(s) /\ e = s + Len(cmds) + 1 /\ Latest(s)' = Latest(s)
  BY <1>1, <1>2 DEF Latest
<1>4. PICK k \in Nat : k = hi + 1
  OBVIOUS
<1>5. MemUsage(cItem) \in Nat /\ PushPos(cPos, cItem) \in 0 .. M - 1
  BY <1>1, ArgumentTypes, ItemSpan
<1>6. PICK item2 : item2 = [item EXCEPT ![k] = cItem]
  OBVIOUS
<1>7. PICK point2 : point2 = [point EXCEPT ![k] = PushPos(cPos, cItem)]
  OBVIOUS
<1>8. PICK lap2 : lap2 = [lap EXCEPT ![k] = lap[hi] + (IF Wraps(cPos, cItem) THEN 1 ELSE 0)]
  OBVIOUS
<1>9. PICK weight2 : weight2 = [weight EXCEPT ![k] = weight[hi] + MemUsage(cItem)]
  OBVIOUS
<1>10. PICK owner2 : owner2 = [owner EXCEPT ![k] = cUid]
  OBVIOUS
<1>11. /\ item2 \in [Nat -> Arguments] /\ point2 \in Numbers /\ lap2 \in Numbers
       /\ weight2 \in Numbers /\ owner2 \in Numbers
  <2>1. PushPos(cPos, cItem) \in Nat
    BY <1>1, <1>5
  <2>2. lap[hi] + (IF Wraps(cPos, cItem) THEN 1 ELSE 0) \in Nat /\ weight[hi] + MemUsage(cItem) \in Nat
    BY SMTT(20), <1>5 DEF Numbers
  <2> QED
    BY <1>1, <1>6, <1>7, <1>8, <1>9, <1>10, <2>1, <2>2 DEF Numbers
<1>12. /\ item2[k] = cItem /\ point2[k] = PushPos(cPos, cItem) /\ owner2[k] = cUid
       /\ lap2[k] = lap[hi] + (IF Wraps(cPos, cItem) THEN 1 ELSE 0)
       /\ weight2[k] = weight[hi] + MemUsage(cItem)
  BY <1>6, <1>7, <1>8, <1>9, <1>10 DEF Numbers
<1>13. \A i \in Nat : i # k =>
         /\ item2[i] = item[i] /\ point2[i] = point[i] /\ lap2[i] = lap[i]
         /\ weight2[i] = weight[i] /\ owner2[i] = owner[i]
  BY <1>6, <1>7, <1>8, <1>9, <1>10 DEF Numbers
<1>14. /\ lo <= hi /\ point[hi] = cPos /\ point[lo] = sPos /\ hi # k /\ lo # k
       /\ Track(item, point, lap, weight, lo, hi)
  BY <1>4 DEF Flight
<1>15. /\ start[e] \in Nat /\ start[s + 1] \in Nat /\ start[e] <= hi /\ start[s + 1] <= start[e]
       /\ \A c \in s + 1 .. e : start[c] \in Nat /\ start[c] <= start[e]
       /\ Written(item, weight, owner, start[e], hi)
  <2>1. Written(item, weight, owner, start[e], hi)
    BY <1>3 DEF Flight
  <2>2. s + 1 \in s + 1 .. e /\ e \in s + 1 .. e /\ \A c \in s + 1 .. e : c \in Nat /\ c <= e
    BY <1>1, <1>3
  <2>3. \A c \in s + 1 .. e : start[c] <= start[e]
    BY <1>3, <2>2 DEF Flight, Budget
  <2> QED
    BY <2>1, <2>2, <2>3 DEF Written, Numbers
<1>16. /\ weight[hi] + MemUsage(cItem) - weight[lo] + LargestObject <= M
       /\ weight[hi] + MemUsage(cItem) <= weight[start[e]] + 1 + (hi - start[e]) * LargestArgument
  BY <1>2, <1>3, Room DEF Flight
<1>25. weight2[k] - weight2[lo] + LargestObject <= M
  <2>1. weight2[k] = weight[hi] + MemUsage(cItem) /\ weight2[lo] = weight[lo]
    BY <1>12, <1>13, <1>14
  <2> QED
    <3>1. weight[hi] \in Nat /\ weight[lo] \in Nat /\ LargestObject \in Nat
      BY <1>1, ArgumentTypes DEF Numbers
    <3> QED
      BY SMTT(20), <1>1, <1>5, <1>16, <2>1, <3>1
<1>17. Track(item2, point2, lap2, weight2, lo, k)
  <2>1. \A i \in lo .. hi : i \in Nat /\ i # k /\ (i # lo => i - 1 \in Nat /\ i - 1 # k)
    BY <1>4
  <2>2. Track(item2, point2, lap2, weight2, lo, hi)
    BY SMTT(20), <1>13, <1>14, <2>1 DEF Track, Ahead
  <2>3. /\ item2[hi + 1] \in Arguments /\ point2[hi + 1] = PushPos(point2[hi], item2[hi + 1])
        /\ lap2[hi + 1] = lap2[hi] + (IF Wraps(point2[hi], item2[hi + 1]) THEN 1 ELSE 0)
        /\ weight2[hi + 1] = weight2[hi] + MemUsage(item2[hi + 1])
    BY <1>1, <1>4, <1>12, <1>13, <1>14
  <2>4. weight2[hi + 1] - weight2[lo] + LargestObject <= M
    BY <1>4, <1>25
  <2> QED
    BY <1>1, <1>4, <1>11, <1>14, <2>2, <2>3, <2>4, TrackGrows
<1>18. Track(item2, point2, lap2, weight2, lo, k)'
  BY <1>17, TrackStays DEF DataNext, ClientNext
<1>19. Marked(item2, point2, owner2, lo, k)'
  <2>1. \A p, it : ItemWords(p, it)' = ItemWords(p, it)
    BY SizeStays DEF DataNext, ClientNext
  <2> SUFFICES ASSUME NEW i \in lo .. k, i # lo,
                      NEW x, x \in ItemWords(point2[i - 1], item2[i])
               PROVE  ring'[x] = owner2[i]
    BY <2>1 DEF Marked
  <2>2. i \in Nat /\ i - 1 \in Nat /\ i - 1 \in lo .. k /\ k \in lo .. k /\ i - 1 # k
    BY <1>4, <1>14
  <2>3. x \in 0 .. M - 1
    <3>1. point2[i - 1] \in 0 .. M - 1 /\ item2[i] \in Arguments
      BY <1>11, <1>17, <2>2 DEF Track
    <3> QED
      BY <1>1, <3>1, ItemSpan
  <2>4. CASE i = k
    <3>1. x \in ItemWords(cPos, cItem)
      BY <1>4, <1>12, <1>13, <1>14, <2>4
    <3> QED
      BY <1>2, <1>12, <2>3, <2>4, <3>1
  <2>5. CASE i # k
    <3>1. /\ i \in lo .. hi /\ i - 1 \in lo .. hi /\ i < k
          /\ i \in lo + 1 .. k /\ k \in lo + 1 .. k
      BY <1>4, <2>2, <2>5
    <3>2. item2[i] = item[i] /\ point2[i - 1] = point[i - 1] /\ owner2[i] = owner[i]
      BY <1>13, <2>2, <2>5
    <3>3. ring[x] = owner[i]
      BY <3>1, <3>2 DEF Flight, Marked
    <3>4. weight2[k] - weight2[lo] + LargestObject <= M
      BY <1>25
    <3>5. ItemWords(point2[i - 1], item2[i]) \cap ItemWords(point2[k - 1], item2[k]) = {}
      BY <1>1, <1>11, <1>17, <3>1, <3>4, TrackApart
    <3>6. k - 1 = hi /\ point2[k - 1] = cPos
      BY <1>4, <1>13, <1>14
    <3>7. x \notin ItemWords(cPos, cItem)
      BY <1>12, <3>5, <3>6
    <3> QED
      BY <1>2, <2>3, <3>2, <3>3, <3>7
  <2> QED
    BY <2>4, <2>5
<1>20. Unread(item2, owner2, start, lo, s)'
  <2>1. Unread(item, owner, start, lo, s) /\ Len(sLeft) \in Nat
    BY DEF Flight, DataTypes, DataTypeOK
  <2>2. \A i \in 1 .. Len(sLeft) : lo + i \in Nat /\ lo + i # k
    BY <1>4, <1>15, <2>1 DEF Unread
  <2> QED
    BY <1>2, <1>13, <2>1, <2>2 DEF Unread
<1>21. InRing(item2, owner2, start, s)'
  <2> SUFFICES ASSUME NEW j \in 1 .. Len(cmds)
               PROVE  /\ start[s + j + 1] = start[s + j] + Len(cmds[j].items)
                      /\ \A i \in 1 .. Len(cmds[j].items) :
                           /\ cmds[j].items[i] = item2[start[s + j] + i]
                           /\ owner2[start[s + j] + i] = cmds[j].uid
    BY <1>2 DEF InRing
  <2>1. /\ start[s + j + 1] = start[s + j] + Len(cmds[j].items)
        /\ \A i \in 1 .. Len(cmds[j].items) :
             /\ cmds[j].items[i] = item[start[s + j] + i]
             /\ owner[start[s + j] + i] = cmds[j].uid
    BY DEF Flight, InRing
  <2>2. s + j \in s + 1 .. e /\ s + j + 1 \in s + 1 .. e
    BY <1>1, <1>3
  <2>3. Len(cmds[j].items) \in Nat
    <3>1. cmds[j] \in HeaderType
      BY SMTT(20) DEF DataTypes, DataTypeOK
    <3> QED
      BY <3>1 DEF HeaderType
  <2>4. \A i \in 1 .. Len(cmds[j].items) : start[s + j] + i \in Nat /\ start[s + j] + i # k
    <3>1. /\ start[s + j] \in Nat /\ start[s + j + 1] <= hi /\ start[s + j + 1] \in Nat
      BY <1>15, <2>2
    <3> QED
      BY SMTT(20), <1>4, <2>1, <2>3, <3>1
  <2> QED
    BY <1>13, <2>1, <2>4
<1>22. Budget(weight2, start, lo, s)'
  <2>1. \A c \in s + 1 .. e : weight2[start[c]] = weight[start[c]]
    BY <1>4, <1>13, <1>15
  <2>2. s + 1 \in s + 1 .. e
    BY <1>1, <1>3
  <2>3. weight2[lo] = weight[lo]
    BY <1>13, <1>14
  <2> QED
    BY <1>3, <2>1, <2>2, <2>3 DEF Flight, Budget
<1>23. Written(item2, weight2, owner2, start[Latest(s)], k)'
  <2>1. start[Latest(s)]' = start[e]
    BY <1>3
  <2> DEFINE from == start[e]
  <2>2. /\ from \in Nat /\ from <= hi /\ Len(cSent) = hi - from
        /\ \A i \in 1 .. Len(cSent) : cSent[i] = item[from + i]
        /\ IF hi = from THEN cItem = UidWord ELSE hi - from <= MaxItems
        /\ \A i \in from + 1 .. hi : owner[i] = cUid
    BY <1>2, <1>15 DEF Written
  <2> HIDE DEF from
  <2>3. k - from <= MaxItems + 1 /\ from <= k /\ k # from /\ MaxItems \in Nat
    BY <1>4, <2>2, DataAssumption
  <2>4. Len(cSent') = k - from
    <3>1. Len(cSent') = Len(cSent) + 1
      BY <1>1, <1>2
    <3> QED
      BY <1>4, <2>2, <3>1
  <2>5. \A i \in 1 .. Len(cSent') : cSent'[i] = item2[from + i]
    <3> SUFFICES ASSUME NEW i \in 1 .. k - from PROVE cSent'[i] = item2[from + i]
      BY <2>4
    <3>1. CASE from + i = k
      <4>1. i = Len(cSent) + 1
        BY <1>4, <2>2, <3>1
      <4>2. cSent'[Len(cSent) + 1] = cItem
        BY <1>1, <1>2
      <4> QED
        BY <1>12, <3>1, <4>1, <4>2
    <3>2. CASE from + i # k
      <4>1. i \in 1 .. Len(cSent) /\ from + i \in Nat
        BY <1>4, <2>2, <3>2
      <4>2. cSent'[i] = cSent[i]
        BY <1>1, <1>2, <4>1
      <4> QED
        BY <1>13, <2>2, <3>2, <4>1, <4>2
    <3> QED
      BY <3>1, <3>2
  <2>6. weight2[k] <= weight2[from] + 1 + (k - from - 1) * LargestArgument
    <3>1. weight2[from] = weight[from] /\ k - from - 1 = hi - from
      BY <1>4, <1>13, <2>2
    <3> QED
      BY <1>12, <1>16, <3>1 DEF from
  <2>7. \A i \in from + 1 .. k : owner2[i] = cUid
    <3> SUFFICES ASSUME NEW i \in from + 1 .. k PROVE owner2[i] = cUid
      OBVIOUS
    <3>1. i \in Nat /\ (i # k => i \in from + 1 .. hi)
      BY <1>4, <2>2
    <3> QED
      BY <1>12, <1>13, <2>2, <3>1
  <2>8. Written(item2, weight2, owner2, from, k)'
    <3>1. from' = from
      BY <1>3 DEF from
    <3> QED
      BY <1>2, <2>3, <2>4, <2>5, <2>6, <2>7, <3>1 DEF Written
  <2> QED
    BY <1>3, <2>8 DEF from
<1>24. Flight(item2, point2, lap2, weight2, owner2, start, lo, k, s)'
  <2>1. lo <= k /\ point2[lo] = sPos' /\ point2[k] = cPos'
    BY <1>2, <1>4, <1>12, <1>13, <1>14
  <2> QED
    BY <1>18, <1>19, <1>20, <1>21, <1>22, <1>23, <2>1 DEF Flight
<1> QED
  BY <1>11, <1>24 DEF InFlight

LEMMA InitInFlight == DataInit => InFlight
<1> SUFFICES ASSUME DataInit PROVE InFlight
  OBVIOUS
<1>1. M \in Sizes
  BY DEF DataInit
<1>2. CommandWords \in Nat /\ M \in Nat /\ M >= 3 /\ LargestObject \in Nat
  BY <1>1, ArgumentTypes, CommandSize
<1>3. PICK item : item = [n \in Nat |-> UidWord]
  OBVIOUS
<1>4. PICK zero : zero = [n \in Nat |-> 0]
  OBVIOUS
<1>5. item \in [Nat -> Arguments] /\ zero \in Numbers /\ \A n \in Nat : zero[n] = 0
  BY <1>3, <1>4 DEF Arguments, Numbers
<1>6. /\ sPos = 0 /\ cPos = 0 /\ cmds = << >> /\ sLeft = << >> /\ cpc = "idle"
  BY DEF DataInit
<1>7. Track(item, zero, zero, zero, 0, 0) /\ Marked(item, zero, zero, 0, 0)
  <2>1. \A i \in 0 .. 0 : i = 0
    OBVIOUS
  <2>2. Ahead(zero, zero, zero, 0, 0)
    BY <1>2, <1>5 DEF Ahead
  <2> QED
    BY <1>2, <1>5, <2>1, <2>2 DEF Track, Marked
<1>8. Unread(item, zero, zero, 0, 0) /\ InRing(item, zero, zero, 0)
  BY <1>5, <1>6 DEF Unread, InRing
<1>9. Latest(0) = 1
  BY <1>6 DEF Latest
<1>10. Budget(zero, zero, 0, 0)
  <2>1. \A c \in 0 + 1 .. 1 : c = 1
    OBVIOUS
  <2>2. (1 - 1) * CommandWords = 0
    BY <1>2, Times
  <2> QED
    BY <1>2, <1>5, <1>9, <2>1, <2>2 DEF Budget
<1>11. Written(item, zero, zero, zero[Latest(0)], 0)
  <2>1. zero[Latest(0)] = 0 /\ MaxItems \in Nat
    BY <1>5, <1>9, DataAssumption
  <2> QED
    BY <1>6, <2>1 DEF Written
<1>12. Flight(item, zero, zero, zero, zero, zero, 0, 0, 0)
  BY <1>5, <1>6, <1>7, <1>8, <1>10, <1>11 DEF Flight
<1> QED
  BY <1>5, <1>12 DEF InFlight

LEMMA ClientKeepsFlight ==
  ASSUME DataTypes, ClientNext, Roomy,
         NEW item \in [Nat -> Arguments], NEW point \in Numbers, NEW lap \in Numbers,
         NEW weight \in Numbers, NEW owner \in Numbers, NEW start \in Numbers,
         NEW lo \in Nat, NEW hi \in Nat, NEW s \in Nat,
         Flight(item, point, lap, weight, owner, start, lo, hi, s)
  PROVE  InFlight'
<1> DEFINE w == Written(item, weight, owner, start[Latest(s)], hi)
<1>1. w /\ (spc # "read" => sLeft = << >>) /\ DataNext
  BY DEF Flight, Unread, DataNext
<1>2. ASSUME UNCHANGED <<ring, cmds, cPos, cUid, server>>, w' PROVE InFlight'
  <2>1. UNCHANGED <<ring, cmds, cPos, sPos, cUid, sCmd, sLeft, spc>>
    BY <1>2 DEF server
  <2>2. Flight(item, point, lap, weight, owner, start, lo, hi, s)'
    BY <1>1, <1>2, <2>1, FlightStays
  <2> QED
    BY <2>2 DEF InFlight
<1>3. ASSUME UNCHANGED <<ring, cmds, cPos, cUid, server, cSent, cItem>>,
             cpc \notin {"idle", "open"}, cpc' \notin {"idle", "open"}
      PROVE  InFlight'
  <2>1. w'
    BY <1>1, <1>3, WrittenStays
  <2> HIDE DEF w
  <2> QED
    BY <1>2, <1>3, <2>1
<1>4. CASE CommandBegin
  <2>1. /\ UNCHANGED <<ring, cmds, cPos, cUid, server>> /\ cpc = "idle" /\ cpc' = "sync"
        /\ cSent' = << >> /\ cItem' = UidWord
    BY <1>4 DEF CommandBegin
  <2>2. start[Latest(s)]' = start[Latest(s)]
    BY <2>1 DEF Latest
  <2>3. start[Latest(s)] = hi
    BY <1>1, <2>1 DEF Written
  <2>4. Written(item, weight, owner, hi, hi)'
    BY <2>1, DataAssumption DEF Written
  <2>5. w'
    BY <2>2, <2>3, <2>4
  <2> HIDE DEF w
  <2> QED
    BY <1>2, <2>1, <2>5
<1>5. ASSUME NEW it \in Items, SendItem(it) PROVE InFlight'
  <2>1. /\ UNCHANGED <<ring, cmds, cPos, cUid, server, cSent>> /\ cpc = "open" /\ cpc' = "sync"
        /\ cItem' \in Items /\ Len(cSent) <= MaxItems
    BY <1>5 DEF SendItem
  <2>2. hi - start[Latest(s)] <= MaxItems
    BY <1>1, <2>1 DEF Written
  <2>3. w'
    BY <1>1, <2>1, <2>2, WrittenStays
  <2> HIDE DEF w
  <2> QED
    BY <1>2, <2>1, <2>3
<1> HIDE DEF w
<1>6. CASE SyncLoad
  BY <1>3, <1>6 DEF SyncLoad
<1>7. CASE SyncDoubleOverflow
  BY <1>3, <1>7 DEF SyncDoubleOverflow
<1>8. CASE SyncWrap
  BY <1>3, <1>8 DEF SyncWrap
<1>9. CASE SyncTest
  BY <1>3, <1>9 DEF SyncTest
<1>10. CASE Announce
  BY <1>3, <1>10 DEF Announce
<1>11. CASE WaitSucceeds
  BY <1>3, <1>11 DEF WaitSucceeds
<1>12. CASE WaitGivesUp
  BY <1>3, <1>12 DEF WaitGivesUp
<1>13. CASE Resolve
  <2>1. cResume \in {"wrap", "write"}
    BY DEF DataTypes, DataTypeOK
  <2> QED
    BY <1>3, <1>13, <2>1 DEF Resolve
<1>14. CASE WriteItem
  BY <1>14, WriteItemKeeps
<1>15. CASE CommandEnd
  BY <1>15, CommandEndKeeps
<1> QED
  BY <1>4, <1>5, <1>6, <1>7, <1>8, <1>9, <1>10, <1>11, <1>12, <1>13, <1>14, <1>15 DEF ClientNext

LEMMA ServerKeepsFlight ==
  ASSUME DataTypes, ServerNext, Roomy,
         NEW item \in [Nat -> Arguments], NEW point \in Numbers, NEW lap \in Numbers,
         NEW weight \in Numbers, NEW owner \in Numbers, NEW start \in Numbers,
         NEW lo \in Nat, NEW hi \in Nat, NEW s \in Nat,
         Flight(item, point, lap, weight, owner, start, lo, hi, s)
  PROVE  InFlight'
<1>1. /\ Written(item, weight, owner, start[Latest(s)], hi)
      /\ spc # "read" => sLeft = << >>
      /\ DataNext
  BY DEF Flight, Unread, DataNext
<1>2. ASSUME UNCHANGED <<ring, cmds, client, sPos, sCmd, sLeft>>, spc' # "read" => sLeft = << >>
      PROVE  InFlight'
  <2>1. UNCHANGED <<cmds, cUid, cSent, cpc, cItem, cPos>>
    BY <1>2 DEF client
  <2>2. Written(item, weight, owner, start[Latest(s)], hi)'
    BY <1>1, <2>1, WrittenStays
  <2>3. Flight(item, point, lap, weight, owner, start, lo, hi, s)'
    BY <1>1, <1>2, <2>1, <2>2, FlightStays
  <2> QED
    BY <2>3 DEF InFlight
<1>3. CASE PopCommand
  BY <1>3, PopCommandKeeps
<1>4. CASE PullItem
  BY <1>4, PullItemKeeps
<1>5. CASE PublishPos
  BY <1>2, <1>5 DEF PublishPos
<1>6. CASE CheckExpected
  BY <1>1, <1>2, <1>6 DEF CheckExpected
<1>7. CASE ReleaseData
  BY <1>1, <1>2, <1>7 DEF ReleaseData
<1>8. CASE ClearExpected
  BY <1>1, <1>2, <1>8 DEF ClearExpected
<1> QED
  BY <1>3, <1>4, <1>5, <1>6, <1>7, <1>8 DEF ServerNext

LEMMA StepDataInv == DataInv /\ [DataNext]_dataVars => DataInv'
<1> SUFFICES ASSUME DataInv, [DataNext]_dataVars PROVE DataInv'
  OBVIOUS
<1>1. CASE UNCHANGED dataVars
  <2>1. DataTypes'
    BY <1>1 DEF DataInv, DataTypes, DataTypeOK, HeaderType, dataVars, shared, client, server
  <2>2. /\ M' = M /\ ring' = ring /\ cmds' = cmds /\ cpc' = cpc /\ cPos' = cPos /\ cUid' = cUid
        /\ cSent' = cSent /\ cItem' = cItem /\ spc' = spc /\ sPos' = sPos /\ sCmd' = sCmd
        /\ sLeft' = sLeft
    BY <1>1 DEF dataVars, client, server
  <2>3. (Roomy' <=> Roomy) /\ (InFlight' <=> InFlight)
    BY <2>2 DEF Roomy, InFlight, Flight, Track, Ahead, Wraps, PushPos, EnsureSpace, Bump,
                Marked, ItemWords, Unread, InRing, Budget, Latest, Written
  <2> QED
    BY <2>1, <2>3 DEF DataInv
<1>2. CASE DataNext
  <2>1. DataTypes'
    BY <1>2, ClientKeepsTypes, ServerKeepsTypes DEF DataInv, DataNext
  <2>2. Roomy' <=> Roomy
    BY <1>2, SizeStays DEF Roomy
  <2>3. ASSUME Roomy PROVE InFlight'
    <3>1. InFlight
      BY <2>3 DEF DataInv
    <3>2. PICK item \in [Nat -> Arguments], point \in Numbers, lap \in Numbers,
               weight \in Numbers, owner \in Numbers, start \in Numbers,
               lo \in Nat, hi \in Nat, s \in Nat :
                 Flight(item, point, lap, weight, owner, start, lo, hi, s)
      BY <3>1 DEF InFlight
    <3> QED
      BY <1>2, <2>3, <3>2, ClientKeepsFlight, ServerKeepsFlight DEF DataInv, DataNext
  <2> QED
    BY <2>1, <2>2, <2>3 DEF DataInv
<1> QED
  BY <1>1, <1>2

(* Both positions stay in the ring, what is announced stays below its      *)
(* last position and the semaphore below two.                              *)
THEOREM DataQueueTypes == DataSpec => []DataTypeOK
<1>1. DataInit => DataTypes
  BY InitDataTypes
<1>2. DataTypes /\ [DataNext]_dataVars => DataTypes'
  <2>1. CASE UNCHANGED dataVars
    BY <2>1 DEF DataTypes, DataTypeOK, HeaderType, dataVars, shared, client, server
  <2> QED
    BY <2>1, ClientKeepsTypes, ServerKeepsTypes DEF DataNext
<1>3. DataTypes => DataTypeOK
  BY DEF DataTypes
<1> QED
  BY <1>1, <1>2, <1>3, PTL DEF DataSpec

(* For every size of the ring, length of the command queue and set of      *)
(* arguments: where the commands that can be under way fit, with the       *)
(* largest object to spare, the server pulls just the arguments that the   *)
(* client wrote, whatever the overwrite guard decides.                     *)
THEOREM DataArrives == DataSpec => []DataIntact
<1>1. DataInit => DataInv
  BY InitDataTypes, InitInFlight DEF DataInv
<1>2. DataInv => DataIntact
  <2> SUFFICES ASSUME DataInv, Roomy, spc = "read", sLeft # << >>,
                      NEW x \in ItemWords(sPos, Head(sLeft))
               PROVE  ring[x] = sCmd.uid
    BY DEF DataIntact, Roomy, LargestObject
  <2>1. InFlight
    BY DEF DataInv
  <2>2. PICK item \in [Nat -> Arguments], point \in Numbers, lap \in Numbers,
             weight \in Numbers, owner \in Numbers, start \in Numbers,
             lo \in Nat, hi \in Nat, s \in Nat :
               Flight(item, point, lap, weight, owner, start, lo, hi, s)
    BY <2>1 DEF InFlight
  <2>3. sLeft \in Seq(Items \cup {UidWord}) /\ Len(cmds) \in Nat
    BY DEF DataInv, DataTypes, DataTypeOK
  <2>4. Head(sLeft) = sLeft[1] /\ 1 \in 1 .. Len(sLeft) /\ Len(sLeft) \in Nat /\ Len(sLeft) >= 1
    BY <2>3
  <2>5. Head(sLeft) = item[lo + 1] /\ owner[lo + 1] = sCmd.uid
    BY <2>2, <2>4 DEF Flight, Unread
  <2>6. lo + 1 <= hi
    BY <2>2, <2>3, <2>4, UnreadAhead
  <2>7. lo + 1 \in lo .. hi /\ lo + 1 # lo /\ lo + 1 - 1 = lo
    BY <2>6
  <2>8. \A y \in ItemWords(point[lo], item[lo + 1]) : ring[y] = owner[lo + 1]
    BY <2>2, <2>7 DEF Flight, Marked
  <2> QED
    BY <2>2, <2>5, <2>8 DEF Flight
<1> QED
  BY <1>1, <1>2, StepDataInv, PTL DEF DataSpec

==============================================================================
