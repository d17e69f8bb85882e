---------------------- MODULE DxvkSubmissionQueueProofs -----------------------
(***************************************************************************)
(* Proofs about the submission queue, for any limit, any number of command *)
(* lists, failing submissions and a device that may be lost.               *)
(*                                                                         *)
(* Lists are numbered as they are submitted, so the two queues hold an     *)
(* interval of numbers: the lists up to Retired were finished and popped,  *)
(* those up to Handed are in m_finishQueue, the rest is in m_submitQueue.  *)
(***************************************************************************)
EXTENDS DxvkSubmissionQueue, FiniteSetTheorems, SequenceTheorems, TLAPS

Retired == lists - m_pending
Handed == Retired + Len(m_finishQueue)

Numbered ==
  /\ Len(m_finishQueue) <= m_pending /\ m_pending <= lists
  /\ \A i \in 1 .. Len(m_finishQueue) : m_finishQueue[i] = Retired + i
  /\ \A i \in 1 .. Len(m_submitQueue) :
       m_submitQueue[i] # Present => m_submitQueue[i] \in Handed + 1 .. lists
  /\ \A id \in Handed + 1 .. lists : \E i \in 1 .. Len(m_submitQueue) : m_submitQueue[i] = id
  /\ \A i, j \in 1 .. Len(m_submitQueue) :
       i < j /\ m_submitQueue[i] # Present /\ m_submitQueue[j] # Present =>
         m_submitQueue[i] < m_submitQueue[j]

(* A thread works on the front of its queue until it pops it.              *)
Submitting == {"lost", "lockQueue", "execute", "waitForIdle"} \cup Statuses
Finishing == {"fence", "notify", "pop"} \cup Waits

Fronts ==
  /\ pc["submit"] \in Submitting =>
       m_submitQueue # <<>> /\ work["submit"] = Head(m_submitQueue)
  /\ pc["finish"] \in Finishing =>
       m_finishQueue # <<>> /\ work["finish"] = Head(m_finishQueue)
  /\ m_mutexHeld => pc["submit"] = "waitForIdle"

(* The GPU has lists that were handed over, and the one that is about to   *)
(* be; it is done with the one the finish thread releases.                 *)
OnDevice ==
  \A id \in gpu :
    /\ id \in Retired + 1 .. Handed \/ (pc["submit"] = "success" /\ id = work["submit"])
    /\ pc["finish"] \in {"notify", "pop"} => id # work["finish"]

Released ==
  \A id \in released : id <= Retired \/ (pc["finish"] = "pop" /\ id = work["finish"])

(* What the application's wait has found out so far.                       *)
Synced == {"lockQueue", "lockQueueLast", "deviceIdle", "deviceIdleLast", "waited", "waitedLast"}

Waiting ==
  /\ before \subseteq 1 .. lists
  /\ pc["app"] \in Synced => before \cap Range(m_submitQueue) = {}
  /\ pc["app"] \in {"waited", "waitedLast"} => before \cap gpu = {}

(* A list that is to be submitted is within the bound.                     *)
Bounded == Started <= MaxLists /\ pc = [t \in Threads |-> pc[t]]

IInv == TypeOK /\ Bounded /\ Numbered /\ Fronts /\ OnDevice /\ Released /\ Waiting

-----------------------------------------------------------------------------
(* Who may still submit a list *)

Starting == {"submit", "submitFrame", "waitPresent"}
One(p, t) == IF p[t] \in Starting THEN 1 ELSE 0

LEMMA CountCallers ==
  ASSUME NEW p
  PROVE  Cardinality({t \in Callers : p[t] \in Starting}) = One(p, "cs") + One(p, "app")
<1> DEFINE S == {t \in Callers : p[t] \in Starting}
<1>1. CASE p["cs"] \in Starting /\ p["app"] \in Starting
  <2>1. S = {"cs"} \cup {"app"}
    BY <1>1 DEF Callers
  <2>2. IsFiniteSet({"cs"}) /\ Cardinality({"cs"}) = 1
    BY FS_Singleton
  <2>3. Cardinality({"cs"} \cup {"app"}) = 2
    BY <2>2, FS_AddElement, "app" \notin {"cs"}
  <2>4. QED
    BY <1>1, <2>1, <2>3 DEF One
<1>2. CASE p["cs"] \in Starting /\ p["app"] \notin Starting
  <2>1. S = {"cs"}
    BY <1>2 DEF Callers
  <2>2. QED
    BY <1>2, <2>1, FS_Singleton DEF One
<1>3. CASE p["cs"] \notin Starting /\ p["app"] \in Starting
  <2>1. S = {"app"}
    BY <1>3 DEF Callers
  <2>2. QED
    BY <1>3, <2>1, FS_Singleton DEF One
<1>4. CASE p["cs"] \notin Starting /\ p["app"] \notin Starting
  <2>1. S = {}
    BY <1>4 DEF Callers
  <2>2. QED
    BY <1>4, <2>1, FS_EmptySet DEF One
<1>5. QED
  BY <1>1, <1>2, <1>3, <1>4

LEMMA StartedCount ==
  ASSUME lists \in Int, lists' \in Int
  PROVE  /\ Started = lists + One(pc, "cs") + One(pc, "app") + IF frame THEN 1 ELSE 0
         /\ Started' = lists' + One(pc', "cs") + One(pc', "app") + IF frame' THEN 1 ELSE 0
<1>1. One(pc, "cs") \in Int /\ One(pc, "app") \in Int /\ One(pc', "cs") \in Int /\ One(pc', "app") \in Int
  BY DEF One
<1>2. Cardinality({t \in Callers : pc[t] \in Starting}) = One(pc, "cs") + One(pc, "app")
  BY CountCallers
<1>3. Cardinality({t \in Callers : pc'[t] \in Starting}) = One(pc', "cs") + One(pc', "app")
  BY CountCallers
<1>4. QED
  BY <1>1, <1>2, <1>3 DEF Started, Starting

-----------------------------------------------------------------------------
(* The type invariant *)

Places(t) ==
  CASE t = "cs" -> {"idle", "submit", "submitFrame", "present"}
    [] t = "app" -> {"idle", "submit", "waitPresent", "waitResource", "waited"} \cup Waits
                      \cup Leaving
    [] t = "submit" -> {"loop", "lost", "lockQueue", "execute", "waitForIdle", "exited"}
                         \cup Statuses
    [] t = "finish" -> {"loop", "fence", "notify", "pop", "exited"} \cup Waits

PcOK == pc = [t \in Threads |-> pc[t]] /\ \A t \in Threads : pc[t] \in Places(t)

Asleep == sleeping \in [Threads -> Conditions \cup {"awake"}]

Bits ==
  /\ m_lastError \in {"success", "failed", "lost"}
  /\ m_stopped \in BOOLEAN /\ m_mutexHeld \in BOOLEAN
  /\ m_mutexQueue \in {"free"} \cup Threads
  /\ presentStatus \in Statuses \cup {"not ready"} /\ frame \in BOOLEAN
  /\ lost \in BOOLEAN

FlagsOK == Bits /\ Asleep

QueuesOK ==
  /\ m_submitQueue \in Seq(Lists \cup {Present}) /\ m_finishQueue \in Seq(Lists)
  /\ m_pending \in 0 .. MaxLists /\ lists \in 0 .. MaxLists
  /\ work \in [Threads -> Lists \cup {Present}]
  /\ gpu \subseteq Lists /\ released \subseteq Lists /\ before \subseteq Lists

LEMMA TypeParts ==
  /\ TypeOK /\ Bounded <=> PcOK /\ FlagsOK /\ QueuesOK /\ Started <= MaxLists
  /\ TypeOK' /\ Bounded' <=> PcOK' /\ FlagsOK' /\ QueuesOK' /\ Started' <= MaxLists
<1>1. PcOK <=>
        /\ pc = [t \in Threads |-> pc[t]]
        /\ pc["cs"] \in Places("cs") /\ pc["app"] \in Places("app")
        /\ pc["submit"] \in Places("submit") /\ pc["finish"] \in Places("finish")
  BY DEF PcOK, Threads, Callers
<1>2. PcOK' <=>
        /\ pc' = [t \in Threads |-> pc'[t]]
        /\ pc'["cs"] \in Places("cs") /\ pc'["app"] \in Places("app")
        /\ pc'["submit"] \in Places("submit") /\ pc'["finish"] \in Places("finish")
  BY DEF PcOK, Threads, Callers
<1>3. TypeOK /\ Bounded <=> PcOK /\ FlagsOK /\ QueuesOK /\ Started <= MaxLists
  BY <1>1 DEF TypeOK, Bounded, FlagsOK, Bits, Asleep, QueuesOK, Places
<1>4. TypeOK' /\ Bounded' <=> PcOK' /\ FlagsOK' /\ QueuesOK' /\ Started' <= MaxLists
  BY <1>2 DEF TypeOK, Bounded, FlagsOK, Bits, Asleep, QueuesOK, Places
<1>5. QED
  BY <1>3, <1>4

LEMMA GotoStep ==
  ASSUME PcOK, NEW t \in Threads, NEW where, Goto(t, where)
  PROVE  /\ where \in Places(t) => PcOK'
         /\ pc'[t] = where /\ \A u \in Threads \ {t} : pc'[u] = pc[u]
<1>1. pc' = [u \in Threads |-> IF u = t THEN where ELSE pc[u]]
  BY DEF PcOK, Goto
<1>2. pc' = [u \in Threads |-> pc'[u]]
  BY <1>1
<1>3. pc'[t] = where /\ \A u \in Threads \ {t} : pc'[u] = pc[u]
  BY <1>1
<1>4. QED
  BY <1>2, <1>3 DEF PcOK

LEMMA PcStep == PcOK /\ [Next]_vars => PcOK'
<1> SUFFICES ASSUME PcOK, [Next]_vars PROVE PcOK'
  OBVIOUS
<1> USE DEF Threads, Callers, Places, threads
<1>1. ASSUME NEW t \in Callers, StartSubmit(t) \/ CallerRuns(t) PROVE PcOK'
  <2>1. CASE StartSubmit(t)
    BY <2>1, GotoStep DEF StartSubmit
  <2>2. CASE SubmitWaits(t)
    BY <2>2 DEF SubmitWaits, Sleep, PcOK
  <2>3. CASE SubmitQueues(t)
    BY <2>3, GotoStep DEF SubmitQueues, PcOK, Waits, Leaving
  <2>4. QED
    BY <1>1, <2>1, <2>2, <2>3 DEF CallerRuns
<1>2. CASE StartFrame \/ QueuePresent
  BY <1>2, GotoStep DEF StartFrame, QueuePresent
<1>3. CASE StartPresent \/ StartWaitForIdle \/ StartWaitForResource
  BY <1>3, GotoStep DEF StartPresent, StartWaitForIdle, StartWaitForResource, Begins, Waits, Leaving
<1>4. CASE AppWaits
  <2>1. CASE AppSleeps
    BY <2>1 DEF AppSleeps, Sleep, PcOK
  <2>2. CASE EmitPresent \/ ResourceFree
    BY <2>2, GotoStep DEF EmitPresent, ResourceFree
  <2>3. QED
    BY <1>4, <2>1, <2>2 DEF AppWaits
<1>5. CASE AppLeaves
  BY <1>5, GotoStep DEF AppLeaves, WaitForIdleReturns, Stop, Joined, Leaving
<1>6. ASSUME NEW t \in {"app", "finish"}, IdleWait(t) PROVE PcOK'
  <2>1. CASE SynchronizeWaits(t)
    BY <2>1 DEF SynchronizeWaits, Sleep, PcOK
  <2>2. CASE Synchronized(t)
    BY <2>2, GotoStep DEF Synchronized, Draining, Locked, Waits, Leaving, PcOK
  <2>3. CASE LockDeviceQueue(t)
    BY <2>3, GotoStep DEF LockDeviceQueue, Waits, Leaving, PcOK
  <2>4. CASE DeviceIdle(t)
    <3>1. CASE t = "app"
      BY <2>4, <3>1, GotoStep DEF DeviceIdle, Leaving
    <3>2. CASE t = "finish"
      BY <2>4, <3>2, GotoStep DEF DeviceIdle
    <3>3. QED
      BY <3>1, <3>2
  <2>5. QED
    BY <1>6, <2>1, <2>2, <2>3, <2>4 DEF IdleWait
<1>7. CASE SubmitThread
  <2>1. CASE SubmitThreadSleeps
    BY <2>1 DEF SubmitThreadSleeps, Sleep, PcOK
  <2>2. CASE TakeEntry \/ LockForSubmit \/ HandOver \/ SubmissionFails
    BY <2>2, GotoStep DEF TakeEntry, LockForSubmit, HandOver, SubmissionFails
  <2>3. CASE SkipAfterLoss \/ HandToDevice
    BY <2>3, GotoStep DEF SkipAfterLoss, HandToDevice, Result, Statuses
  <2>4. CASE WorkerExits("submit")
    BY <2>4, GotoStep DEF WorkerExits
  <2>5. QED
    BY <1>7, <2>1, <2>2, <2>3, <2>4 DEF SubmitThread
<1>8. CASE FinishThread
  <2>1. CASE FinishThreadSleeps
    BY <2>1 DEF FinishThreadSleeps, Sleep, PcOK
  <2>2. CASE TakeFinished \/ FenceSignalled \/ FenceLost \/ NotifyObjects \/ PopFinished
    BY <2>2, GotoStep DEF TakeFinished, FenceSignalled, FenceLost, NotifyObjects, PopFinished, Waits
  <2>3. CASE WorkerExits("finish")
    BY <2>3, GotoStep DEF WorkerExits
  <2>4. QED
    BY <1>8, <2>1, <2>2, <2>3 DEF FinishThread
<1>9. CASE GpuDone \/ DeviceLost \/ UNCHANGED vars
  BY <1>9 DEF GpuDone, DeviceLost, vars, PcOK
<1>10. QED
  BY <1>1, <1>2, <1>3, <1>4, <1>5, <1>6, <1>7, <1>8, <1>9 DEF Next
\* A thread sleeps on a condition variable or is awake
LEMMA AsleepStep == Asleep /\ [Next]_vars => Asleep'
<1> SUFFICES ASSUME Asleep, [Next]_vars PROVE Asleep'
  OBVIOUS
<1> USE DEF threads
<1>1. ASSUME NEW t, NEW cond \in Conditions, Sleep(t, cond) PROVE Asleep'
  BY <1>1 DEF Asleep, Sleep
<1>2. ASSUME NEW conds, NotifyAll(conds) PROVE Asleep'
  BY <1>2 DEF Asleep, NotifyAll
<1>3. ASSUME UNCHANGED sleeping PROVE Asleep'
  BY <1>3 DEF Asleep
<1>4. ASSUME NEW t \in Callers, StartSubmit(t) \/ CallerRuns(t) PROVE Asleep'
  BY <1>1, <1>2, <1>3, <1>4 DEF StartSubmit, CallerRuns, SubmitWaits, SubmitQueues, Conditions
<1>5. CASE StartFrame \/ QueuePresent \/ StartPresent \/ StartWaitForIdle \/ StartWaitForResource
  BY <1>2, <1>3, <1>5 DEF StartFrame, QueuePresent, StartPresent, StartWaitForIdle,
    StartWaitForResource, Begins
<1>6. CASE AppWaits \/ AppLeaves
  BY <1>1, <1>2, <1>3, <1>6 DEF AppWaits, AppLeaves, AppSleeps, EmitPresent, ResourceFree,
    WaitForIdleReturns, Stop, Joined, Conditions
<1>7. ASSUME NEW t \in {"app", "finish"}, IdleWait(t) PROVE Asleep'
  BY <1>1, <1>3, <1>7 DEF IdleWait, SynchronizeWaits, Synchronized, LockDeviceQueue, DeviceIdle,
    Conditions
<1>8. CASE SubmitThread
  BY <1>1, <1>2, <1>3, <1>8 DEF SubmitThread, SubmitThreadSleeps, TakeEntry, SkipAfterLoss,
    LockForSubmit, HandToDevice, HandOver, SubmissionFails, WorkerExits, Conditions
<1>9. CASE FinishThread
  BY <1>1, <1>2, <1>3, <1>9 DEF FinishThread, FinishThreadSleeps, TakeFinished, FenceSignalled,
    FenceLost, NotifyObjects, PopFinished, WorkerExits, Conditions
<1>10. CASE GpuDone \/ DeviceLost \/ UNCHANGED vars
  BY <1>3, <1>10 DEF GpuDone, DeviceLost, vars
<1>11. QED
  BY <1>4, <1>5, <1>6, <1>7, <1>8, <1>9, <1>10 DEF Next

LEMMA BitsStep == Bits /\ [Next]_vars => Bits'
<1> SUFFICES ASSUME Bits, [Next]_vars PROVE Bits'
  OBVIOUS
<1> DEFINE bits == <<m_lastError, m_stopped, m_mutexHeld, m_mutexQueue, presentStatus, frame, lost>>
<1> USE DEF locks, presents, device
<1>1. ASSUME UNCHANGED bits PROVE Bits'
  BY <1>1 DEF Bits
<1>2. ASSUME NEW t \in Callers, StartSubmit(t) \/ CallerRuns(t) PROVE Bits'
  BY <1>1, <1>2 DEF StartSubmit, CallerRuns, SubmitWaits, SubmitQueues
<1>3. CASE StartFrame \/ QueuePresent \/ EmitPresent
  BY <1>3 DEF StartFrame, QueuePresent, EmitPresent, Bits
<1>4. CASE StartPresent \/ StartWaitForIdle \/ StartWaitForResource
  BY <1>1, <1>4 DEF StartPresent, StartWaitForIdle, StartWaitForResource, Begins
<1>5. CASE AppSleeps \/ ResourceFree \/ WaitForIdleReturns \/ Joined
  BY <1>1, <1>5 DEF AppSleeps, ResourceFree, WaitForIdleReturns, Joined
<1>6. CASE Stop
  BY <1>6 DEF Stop, Bits
<1>7. ASSUME NEW t \in {"app", "finish"}, IdleWait(t) PROVE Bits'
  <2>1. CASE SynchronizeWaits(t) \/ Synchronized(t)
    BY <1>1, <2>1 DEF SynchronizeWaits, Synchronized
  <2>2. CASE LockDeviceQueue(t) \/ DeviceIdle(t)
    BY <2>2 DEF LockDeviceQueue, DeviceIdle, Bits, Threads, Callers
  <2>3. QED
    BY <1>7, <2>1, <2>2 DEF IdleWait
<1>8. CASE SubmitThread
  <2>1. CASE SubmitThreadSleeps \/ TakeEntry \/ HandOver \/ WorkerExits("submit")
    BY <1>1, <2>1 DEF SubmitThreadSleeps, TakeEntry, HandOver, WorkerExits
  <2>2. CASE SkipAfterLoss
    BY <2>2 DEF SkipAfterLoss, Result, Bits, Statuses
  <2>3. CASE LockForSubmit
    BY <2>3 DEF LockForSubmit, Bits, Threads
  <2>4. CASE HandToDevice
    BY <2>4 DEF HandToDevice, Result, Bits, Statuses
  <2>5. CASE SubmissionFails
    BY <2>5 DEF SubmissionFails, Bits
  <2>6. QED
    BY <1>8, <2>1, <2>2, <2>3, <2>4, <2>5 DEF SubmitThread
<1>9. CASE FinishThread
  <2>1. CASE FenceLost
    BY <2>1 DEF FenceLost, Bits
  <2>2. CASE FinishThread /\ ~FenceLost
    BY <1>1, <2>2 DEF FinishThread, FinishThreadSleeps, TakeFinished, FenceSignalled,
      NotifyObjects, PopFinished, WorkerExits
  <2>3. QED
    BY <1>9, <2>1, <2>2
<1>10. CASE GpuDone \/ DeviceLost \/ UNCHANGED vars
  BY <1>10 DEF GpuDone, DeviceLost, vars, Bits
<1>11. QED
  BY <1>2, <1>3, <1>4, <1>5, <1>6, <1>7, <1>8, <1>9, <1>10 DEF Next, AppWaits, AppLeaves

LEMMA FlagsStep == FlagsOK /\ [Next]_vars => FlagsOK'
  BY AsleepStep, BitsStep DEF FlagsOK
-----------------------------------------------------------------------------
(* The numbers of the lists in the queues *)

LEMMA InRange ==
  ASSUME NEW S, NEW s \in Seq(S), NEW x
  PROVE  x \in Range(s) <=> \E i \in 1 .. Len(s) : s[i] = x
  BY DEF Range

LEMMA Numbers ==
  ASSUME QueuesOK
  PROVE  /\ m_submitQueue \in Seq(Nat) /\ m_finishQueue \in Seq(Nat)
         /\ lists \in Nat /\ m_pending \in Nat
         /\ Retired \in Int /\ Handed \in Int /\ Len(m_finishQueue) \in Nat
<1>1. m_submitQueue \in Seq(Nat) /\ m_finishQueue \in Seq(Nat)
  <2>1. Lists \cup {Present} \subseteq Nat /\ Lists \subseteq Nat
    BY DEF Lists, Present
  <2>2. QED
    BY <2>1, SeqMonotonic DEF QueuesOK
<1>2. lists \in Nat /\ m_pending \in Nat
  BY DEF QueuesOK
<1>3. QED
  BY <1>1, <1>2 DEF Handed, Retired

\* A list is submitted
LEMMA AppendList ==
  ASSUME QueuesOK, Numbered, lists' = lists + 1, m_pending' = m_pending + 1,
         m_submitQueue' = Append(m_submitQueue, lists'), UNCHANGED m_finishQueue
  PROVE  Numbered'
<1>1. m_submitQueue \in Seq(Nat) /\ lists \in Nat /\ m_pending \in Nat
  BY Numbers
<1>2. Len(m_finishQueue) \in Nat /\ Retired' = Retired /\ Handed' = Handed
  BY <1>1 DEF QueuesOK, Retired, Handed
<1>3. /\ Len(m_submitQueue') = Len(m_submitQueue) + 1
      /\ m_submitQueue'[Len(m_submitQueue) + 1] = lists + 1
      /\ \A i \in 1 .. Len(m_submitQueue) : m_submitQueue'[i] = m_submitQueue[i]
  BY <1>1
<1>4. Len(m_submitQueue) \in Nat /\ Handed \in Int
  BY <1>1, <1>2 DEF Handed, Retired
<1>5. \A id \in Handed + 1 .. lists + 1 :
        \E i \in 1 .. Len(m_submitQueue) + 1 : m_submitQueue'[i] = id
  <2>1. SUFFICES ASSUME NEW id \in Handed + 1 .. lists + 1
                 PROVE  \E i \in 1 .. Len(m_submitQueue) + 1 : m_submitQueue'[i] = id
    OBVIOUS
  <2>2. CASE id = lists + 1
    BY <1>3, <1>4, <2>2
  <2>3. CASE id # lists + 1
    <3>1. id \in Handed + 1 .. lists
      BY <1>1, <1>4, <2>3
    <3>2. PICK i \in 1 .. Len(m_submitQueue) : m_submitQueue[i] = id
      BY <3>1 DEF Numbered
    <3>3. QED
      BY <1>3, <1>4, <3>2
  <2>4. QED
    BY <2>2, <2>3
<1>6. \A i \in 1 .. Len(m_submitQueue) :
        m_submitQueue[i] # Present => m_submitQueue[i] \in Handed + 1 .. lists
  BY DEF Numbered
<1>7. \A i \in 1 .. Len(m_submitQueue) + 1 :
        m_submitQueue'[i] # Present => m_submitQueue'[i] \in Handed + 1 .. lists + 1
  BY <1>1, <1>2, <1>3, <1>4, <1>6 DEF Numbered, Handed, Retired
<1>8. \A i, j \in 1 .. Len(m_submitQueue) + 1 :
        i < j /\ m_submitQueue'[i] # Present /\ m_submitQueue'[j] # Present =>
          m_submitQueue'[i] < m_submitQueue'[j]
  <2>1. SUFFICES ASSUME NEW i \in 1 .. Len(m_submitQueue) + 1, NEW j \in 1 .. Len(m_submitQueue) + 1,
                        i < j, m_submitQueue'[i] # Present, m_submitQueue'[j] # Present
                 PROVE  m_submitQueue'[i] < m_submitQueue'[j]
    OBVIOUS
  <2>2. i \in 1 .. Len(m_submitQueue) /\ m_submitQueue'[i] = m_submitQueue[i]
    BY <1>3, <1>4, <2>1
  <2>3. CASE j = Len(m_submitQueue) + 1
    BY <1>1, <1>3, <1>4, <1>6, <2>1, <2>2, <2>3
  <2>4. CASE j \in 1 .. Len(m_submitQueue)
    BY <1>3, <2>1, <2>2, <2>4 DEF Numbered
  <2>5. QED
    BY <1>4, <2>3, <2>4
<1>9. /\ Len(m_finishQueue') <= m_pending' /\ m_pending' <= lists'
      /\ \A i \in 1 .. Len(m_finishQueue') : m_finishQueue'[i] = Retired' + i
  BY <1>1, <1>2 DEF Numbered
<1>10. Len(m_submitQueue') = Len(m_submitQueue) + 1
  BY <1>3
<1>11. QED
  BY <1>1, <1>2, <1>5, <1>7, <1>8, <1>9, <1>10 DEF Numbered

\* A present is submitted
LEMMA AppendPresent ==
  ASSUME QueuesOK, Numbered, UNCHANGED <<lists, m_pending, m_finishQueue>>,
         m_submitQueue' = Append(m_submitQueue, Present)
  PROVE  Numbered'
<1>1. m_submitQueue \in Seq(Nat)
  BY Numbers
<1>2. /\ Len(m_submitQueue') = Len(m_submitQueue) + 1
      /\ m_submitQueue'[Len(m_submitQueue) + 1] = Present
      /\ \A i \in 1 .. Len(m_submitQueue) : m_submitQueue'[i] = m_submitQueue[i]
      /\ Len(m_submitQueue) \in Nat
  BY <1>1 DEF Present
<1>3. QED
  BY <1>2 DEF Numbered, Handed, Retired

\* What is at the front of the submission queue is a present or the next list
LEMMA FrontIsNext ==
  ASSUME QueuesOK, Numbered, m_submitQueue # <<>>, Head(m_submitQueue) # Present
  PROVE  Head(m_submitQueue) = Handed + 1 /\ Handed + 1 <= lists
<1>1. m_submitQueue \in Seq(Nat) /\ lists \in Nat /\ m_pending \in Nat /\ Handed \in Int
  BY Numbers
<1>2. Head(m_submitQueue) = m_submitQueue[1] /\ 1 \in 1 .. Len(m_submitQueue)
  BY <1>1
<1>3. m_submitQueue[1] \in Handed + 1 .. lists
  BY <1>2 DEF Numbered
<1>4. PICK i \in 1 .. Len(m_submitQueue) : m_submitQueue[i] = Handed + 1
  <2>1. Handed + 1 \in Handed + 1 .. lists
    BY <1>1, <1>3
  <2>2. \A id \in Handed + 1 .. lists : \E k \in 1 .. Len(m_submitQueue) : m_submitQueue[k] = id
    BY DEF Numbered
  <2>3. QED
    BY <2>1, <2>2
<1>5. i = 1
  <2>1. SUFFICES ASSUME 1 < i PROVE FALSE
    BY <1>1
  <2>2. m_submitQueue[i] # Present
    BY <1>4 DEF Numbered, Handed, Retired, QueuesOK, Present
  <2>3. m_submitQueue[1] < m_submitQueue[i]
    BY <1>2, <2>1, <2>2 DEF Numbered
  <2>4. QED
    BY <1>1, <1>3, <1>4, <2>3
<1>6. QED
  BY <1>1, <1>2, <1>3, <1>4, <1>5
\* The front of the submission queue is popped, and a list is handed over
LEMMA PopFront ==
  ASSUME QueuesOK, Numbered, m_submitQueue # <<>>, UNCHANGED <<lists, m_pending>>,
         m_submitQueue' = Tail(m_submitQueue),
         m_finishQueue' = IF Head(m_submitQueue) # Present
                            THEN Append(m_finishQueue, Head(m_submitQueue)) ELSE m_finishQueue
  PROVE  Numbered'
<1> DEFINE n == Len(m_submitQueue)
<1>1. /\ m_submitQueue \in Seq(Nat) /\ m_finishQueue \in Seq(Nat)
      /\ lists \in Nat /\ m_pending \in Nat /\ Handed \in Int /\ Retired \in Int
  BY Numbers
<1>2. /\ n \in Nat \ {0} /\ Len(m_submitQueue') = n - 1
      /\ \A i \in 1 .. n - 1 : m_submitQueue'[i] = m_submitQueue[i + 1]
      /\ Head(m_submitQueue) = m_submitQueue[1]
  BY <1>1
<1>3. \A i, j \in 1 .. n - 1 :
        i < j /\ m_submitQueue'[i] # Present /\ m_submitQueue'[j] # Present =>
          m_submitQueue'[i] < m_submitQueue'[j]
  BY <1>1, <1>2 DEF Numbered
<1>4. CASE m_submitQueue[1] = Present
  <2>1. UNCHANGED <<Handed, Retired, m_finishQueue>>
    BY <1>2, <1>4 DEF Handed, Retired
  <2>2. \A id \in Handed + 1 .. lists : \E i \in 1 .. n - 1 : m_submitQueue'[i] = id
    <3>1. SUFFICES ASSUME NEW id \in Handed + 1 .. lists
                   PROVE  \E i \in 1 .. n - 1 : m_submitQueue'[i] = id
      OBVIOUS
    <3>2. PICK i \in 1 .. n : m_submitQueue[i] = id
      BY DEF Numbered
    <3>3. i # 1
      BY <1>1, <1>4, <3>2 DEF Numbered, Present, Handed, Retired
    <3>4. i - 1 \in 1 .. n - 1 /\ m_submitQueue'[i - 1] = id
      BY <1>2, <3>2, <3>3
    <3>5. QED
      BY <3>4
  <2>3. \A i \in 1 .. n - 1 :
          m_submitQueue'[i] # Present => m_submitQueue'[i] \in Handed + 1 .. lists
    BY <1>2 DEF Numbered
  <2>4. QED
    BY <1>2, <1>3, <2>1, <2>2, <2>3 DEF Numbered
<1>5. CASE m_submitQueue[1] # Present
  <2>1. m_submitQueue[1] = Handed + 1 /\ Handed + 1 <= lists
    BY <1>2, <1>5, FrontIsNext
  <2>2. /\ m_finishQueue' = Append(m_finishQueue, Handed + 1)
        /\ Len(m_finishQueue) \in Nat /\ Len(m_finishQueue') = Len(m_finishQueue) + 1
        /\ m_finishQueue'[Len(m_finishQueue) + 1] = Handed + 1
        /\ \A i \in 1 .. Len(m_finishQueue) : m_finishQueue'[i] = m_finishQueue[i]
    BY <1>1, <1>2, <1>5, <2>1
  <2>3. Retired' = Retired /\ Handed' = Handed + 1
    BY <1>1, <2>2 DEF Retired, Handed
  <2>4. \A i \in 1 .. Len(m_finishQueue) + 1 : m_finishQueue'[i] = Retired + i
    <3>1. \A i \in 1 .. Len(m_finishQueue) : m_finishQueue'[i] = Retired + i
      BY <2>2 DEF Numbered
    <3>2. m_finishQueue'[Len(m_finishQueue) + 1] = Retired + (Len(m_finishQueue) + 1)
      BY <1>1, <2>2 DEF Handed
    <3>3. QED
      BY <2>2, <3>1, <3>2
  <2>5. Len(m_finishQueue) + 1 <= m_pending
    BY <1>1, <2>1, <2>2 DEF Handed, Retired
  <2>6. \A id \in Handed + 2 .. lists : \E i \in 1 .. n - 1 : m_submitQueue'[i] = id
    <3>1. SUFFICES ASSUME NEW id \in Handed + 2 .. lists
                   PROVE  \E i \in 1 .. n - 1 : m_submitQueue'[i] = id
      OBVIOUS
    <3>2. id \in Handed + 1 .. lists /\ id # Handed + 1
      BY <1>1
    <3>3. PICK i \in 1 .. n : m_submitQueue[i] = id
      BY <3>2 DEF Numbered
    <3>4. i # 1
      BY <2>1, <3>2, <3>3
    <3>5. i - 1 \in 1 .. n - 1 /\ m_submitQueue'[i - 1] = id
      BY <1>2, <3>3, <3>4
    <3>6. QED
      BY <3>5
  <2>7. \A i \in 1 .. n - 1 :
          m_submitQueue'[i] # Present => m_submitQueue'[i] \in Handed + 2 .. lists
    <3>1. SUFFICES ASSUME NEW i \in 1 .. n - 1, m_submitQueue'[i] # Present
                   PROVE  m_submitQueue'[i] \in Handed + 2 .. lists
      OBVIOUS
    <3>2. i + 1 \in 1 .. n /\ 1 \in 1 .. n /\ 1 < i + 1 /\ m_submitQueue[i + 1] # Present
      BY <1>2, <3>1
    <3>3. m_submitQueue[i + 1] \in Handed + 1 .. lists /\ m_submitQueue[1] < m_submitQueue[i + 1]
      BY <1>5, <3>2 DEF Numbered
    <3>4. QED
      BY <1>1, <1>2, <2>1, <3>3
  <2>8. Handed' + 1 = Handed + 2
    BY <1>1, <2>3
  <2>9. QED
    BY <1>2, <1>3, <2>2, <2>3, <2>4, <2>5, <2>6, <2>7, <2>8 DEF Numbered
<1>6. QED
  BY <1>4, <1>5

\* A finished list is popped
LEMMA PopDone ==
  ASSUME QueuesOK, Numbered, m_finishQueue # <<>>, UNCHANGED <<lists, m_submitQueue>>,
         m_pending' = m_pending - 1, m_finishQueue' = Tail(m_finishQueue)
  PROVE  Numbered' /\ m_pending' \in Nat /\ Retired' = Retired + 1 /\ Handed' = Handed
<1>1. m_finishQueue \in Seq(Nat) /\ lists \in Nat /\ m_pending \in Nat
  BY Numbers
<1>2. /\ Len(m_finishQueue) \in Nat \ {0} /\ Len(m_finishQueue') = Len(m_finishQueue) - 1
      /\ \A i \in 1 .. Len(m_finishQueue) - 1 : m_finishQueue'[i] = m_finishQueue[i + 1]
  BY <1>1
<1>3. Retired' = Retired + 1 /\ Handed' = Handed
  BY <1>1, <1>2 DEF Retired, Handed
<1>4. \A i \in 1 .. Len(m_finishQueue) - 1 : m_finishQueue'[i] = Retired' + i
  BY <1>1, <1>2, <1>3 DEF Numbered, Retired
<1>5. m_pending' \in Nat /\ Len(m_finishQueue') <= m_pending' /\ m_pending' <= lists
  BY <1>1, <1>2 DEF Numbered
<1>6. QED
  BY <1>2, <1>3, <1>4, <1>5 DEF Numbered
-----------------------------------------------------------------------------
(* Where every list is: what a step of the callers does to it *)

Order == QueuesOK /\ Numbered /\ Fronts /\ OnDevice /\ Released

LEMMA QuietOrder ==
  ASSUME Order, UNCHANGED <<queues, lists, gpu, released, m_mutexHeld>>,
         work' \in [Threads -> Lists \cup {Present}], before' \subseteq Lists,
         \A t \in {"submit", "finish"} : work'[t] = work[t] /\ pc'[t] = pc[t]
  PROVE  Order'
<1>1. QueuesOK'
  BY DEF Order, QueuesOK, queues
<1>2. Numbered'
  BY DEF Order, Numbered, Handed, Retired, queues
<1>3. Fronts'
  BY DEF Order, Fronts, queues
<1>4. OnDevice' /\ Released'
  BY DEF Order, OnDevice, Released, Handed, Retired, queues
<1>5. QED
  BY <1>1, <1>2, <1>3, <1>4 DEF Order

LEMMA SubmitOrder ==
  ASSUME Order, PcOK, Started <= MaxLists, NEW t \in Callers, SubmitQueues(t)
  PROVE  Order'
<1>1. /\ lists' = lists + 1 /\ m_pending' = m_pending + 1
      /\ m_submitQueue' = Append(m_submitQueue, lists')
      /\ UNCHANGED <<m_finishQueue, gpu, released, work, before, m_mutexHeld>>
      /\ pc[t] \in Starting
  BY DEF SubmitQueues, Locked, Starting, device, locks
<1>2. /\ m_submitQueue \in Seq(Nat) /\ lists \in Nat /\ m_pending \in Nat
      /\ Retired \in Int /\ Handed \in Int /\ MaxLists \in Nat
  BY Numbers, SubmissionAssumption DEF Order
<1>3. lists' \in Lists /\ m_pending' \in 0 .. MaxLists
  <2>1. One(pc, t) = 1 /\ One(pc, "cs") \in {0, 1} /\ One(pc, "app") \in {0, 1}
    BY <1>1 DEF One
  <2>2. lists + 1 <= Started
    BY <1>1, <1>2, <2>1, StartedCount DEF Callers
  <2>3. m_pending <= lists
    BY DEF Order, Numbered
  <2>4. Started \in Int
    BY <1>1, <1>2, <2>1, StartedCount
  <2>5. QED
    BY <1>1, <1>2, <2>2, <2>3, <2>4 DEF Lists
<1>4. QueuesOK'
  <2>1. m_submitQueue' \in Seq(Lists \cup {Present})
    BY <1>1, <1>3 DEF Order, QueuesOK
  <2>2. QED
    BY <1>1, <1>3, <2>1 DEF Order, QueuesOK, Lists
<1>5. Numbered'
  BY <1>1, AppendList DEF Order
<1>6. Retired' = Retired /\ Handed' = Handed
  BY <1>1, <1>2 DEF Retired, Handed
<1>7. \A w \in {"submit", "finish"} : pc'[w] = pc[w]
  BY GotoStep DEF SubmitQueues, Threads, Callers
<1>8. Fronts'
  <2>1. m_submitQueue # <<>> => m_submitQueue' # <<>> /\ Head(m_submitQueue') = Head(m_submitQueue)
    BY <1>1, <1>2
  <2>2. QED
    BY <1>1, <1>7, <2>1 DEF Order, Fronts
<1>9. OnDevice' /\ Released'
  BY <1>1, <1>6, <1>7 DEF Order, OnDevice, Released
<1>10. QED
  BY <1>4, <1>5, <1>8, <1>9 DEF Order

LEMMA QueuePresentOrder == ASSUME Order, PcOK, QueuePresent PROVE Order'
<1>1. /\ m_submitQueue' = Append(m_submitQueue, Present)
      /\ UNCHANGED <<lists, m_pending, m_finishQueue, gpu, released, work, before, m_mutexHeld>>
  BY DEF QueuePresent, device, locks, history
<1>2. m_submitQueue \in Seq(Nat)
  BY Numbers DEF Order
<1>3. QueuesOK'
  BY <1>1 DEF Order, QueuesOK
<1>4. Numbered'
  BY <1>1, AppendPresent DEF Order
<1>5. \A w \in {"submit", "finish"} : pc'[w] = pc[w]
  BY GotoStep DEF QueuePresent, Threads, Callers
<1>6. Fronts'
  <2>1. m_submitQueue # <<>> => m_submitQueue' # <<>> /\ Head(m_submitQueue') = Head(m_submitQueue)
    BY <1>1, <1>2 DEF Present
  <2>2. QED
    BY <1>1, <1>5, <2>1 DEF Order, Fronts
<1>7. OnDevice' /\ Released'
  BY <1>1, <1>5 DEF Order, OnDevice, Released, Handed, Retired
<1>8. QED
  BY <1>3, <1>4, <1>6, <1>7 DEF Order

\* All other steps of the callers leave the queues alone
LEMMA CallersOrder ==
  ASSUME Order, PcOK, Started <= MaxLists,
         \/ \E t \in Callers : StartSubmit(t) \/ CallerRuns(t)
         \/ StartFrame \/ QueuePresent
         \/ StartPresent \/ StartWaitForIdle \/ StartWaitForResource
         \/ AppWaits \/ AppLeaves \/ IdleWait("app")
  PROVE  Order'
<1> USE DEF queues, locks, presents, device, history
<1>1. ASSUME UNCHANGED <<queues, lists, gpu, released, work, before, m_mutexHeld>>,
             NEW t \in Callers, NEW where, Goto(t, where)
      PROVE  Order'
  <2>1. \A w \in {"submit", "finish"} : pc'[w] = pc[w]
    BY <1>1, GotoStep DEF Threads, Callers
  <2>2. QED
    BY <1>1, <2>1, QuietOrder DEF Order, QueuesOK
<1>2. ASSUME UNCHANGED <<queues, lists, gpu, released, work, before, m_mutexHeld, pc>>
      PROVE  Order'
  BY <1>2, QuietOrder DEF Order, QueuesOK
<1>3. ASSUME NEW t \in Callers, StartSubmit(t) \/ CallerRuns(t) PROVE Order'
  BY <1>1, <1>2, <1>3, SubmitOrder DEF StartSubmit, CallerRuns, SubmitWaits, Sleep
<1>4. CASE StartFrame \/ QueuePresent
  BY <1>1, <1>4, QueuePresentOrder DEF StartFrame, Callers
<1>5. CASE StartPresent \/ StartWaitForIdle \/ StartWaitForResource
  <2>1. UNCHANGED <<queues, lists, gpu, released, m_mutexHeld>>
    BY <1>5 DEF StartPresent, StartWaitForIdle, StartWaitForResource, Begins
  <2>2. \A w \in {"submit", "finish"} : pc'[w] = pc[w]
    BY <1>5, GotoStep DEF StartPresent, StartWaitForIdle, StartWaitForResource, Begins, Threads,
      Callers
  <2>3. 1 .. lists \subseteq Lists
    BY SubmissionAssumption DEF Order, QueuesOK, Lists
  <2>4. before' \subseteq Lists
    BY <1>5, <2>3 DEF StartPresent, StartWaitForIdle, StartWaitForResource, Order, QueuesOK
  <2>5. /\ work' \in [Threads -> Lists \cup {Present}]
        /\ \A w \in {"submit", "finish"} : work'[w] = work[w]
    BY <1>5, <2>3 DEF StartPresent, StartWaitForIdle, StartWaitForResource, Order, QueuesOK,
      Threads, Callers
  <2>6. QED
    BY <2>1, <2>2, <2>4, <2>5, QuietOrder
<1>6. CASE AppWaits
  BY <1>1, <1>2, <1>6 DEF AppWaits, AppSleeps, EmitPresent, ResourceFree, Sleep, Callers
<1>7. CASE AppLeaves
  BY <1>1, <1>7 DEF AppLeaves, WaitForIdleReturns, Stop, Joined, Callers
<1>8. CASE IdleWait("app")
  BY <1>1, <1>2, <1>8 DEF IdleWait, SynchronizeWaits, Synchronized, LockDeviceQueue, DeviceIdle,
    Sleep, Callers
<1>9. QED
  BY <1>3, <1>4, <1>5, <1>6, <1>7, <1>8
-----------------------------------------------------------------------------
(* What the two threads and the GPU do to a list *)

\* A thread takes the front of its queue to work on it
LEMMA TakeOrder ==
  ASSUME Order, PcOK, TakeEntry \/ TakeFinished
  PROVE  Order'
<1> USE DEF queues, locks, presents, device, history
<1>1. UNCHANGED <<queues, lists, gpu, released, before, m_mutexHeld>>
  BY DEF TakeEntry, TakeFinished
<1>2. Numbered' /\ Handed' = Handed /\ Retired' = Retired
  BY <1>1 DEF Order, Numbered, Handed, Retired
<1>3. CASE TakeEntry
  <2>1. /\ m_submitQueue # <<>> /\ work' = [work EXCEPT !["submit"] = Head(m_submitQueue)]
        /\ pc["submit"] = "loop" /\ pc'["submit"] \in {"lost", "lockQueue"}
        /\ pc'["finish"] = pc["finish"]
    BY <1>3, GotoStep DEF TakeEntry, Locked, Threads, Callers
  <2>2. QueuesOK' /\ work'["submit"] = Head(m_submitQueue) /\ work'["finish"] = work["finish"]
    BY <1>1, <2>1 DEF Order, QueuesOK, Threads
  <2>3. Fronts'
    BY <1>1, <2>1, <2>2 DEF Order, Fronts
  <2>4. OnDevice' /\ Released'
    BY <1>1, <1>2, <2>1, <2>2 DEF Order, OnDevice, Released
  <2>5. QED
    BY <1>2, <2>2, <2>3, <2>4 DEF Order
<1>4. CASE TakeFinished
  <2>1. /\ m_finishQueue # <<>> /\ work' = [work EXCEPT !["finish"] = Head(m_finishQueue)]
        /\ pc["finish"] = "loop" /\ pc'["finish"] \in {"drain", "fence"}
        /\ pc'["submit"] = pc["submit"]
    BY <1>4, GotoStep DEF TakeFinished, Locked, Threads, Callers
  <2>2. QueuesOK' /\ work'["finish"] = Head(m_finishQueue) /\ work'["submit"] = work["submit"]
    BY <1>1, <2>1 DEF Order, QueuesOK, Threads
  <2>3. Fronts'
    BY <1>1, <2>1, <2>2 DEF Order, Fronts
  <2>4. OnDevice' /\ Released'
    BY <1>1, <1>2, <2>1, <2>2 DEF Order, OnDevice, Released
  <2>5. QED
    BY <1>2, <2>2, <2>3, <2>4 DEF Order
<1>5. QED
  BY <1>3, <1>4

\* A thread goes on with what it works on; the submit thread does not reach
\* "success" this way, nor the finish thread "notify" or "pop"
LEMMA WorkOrder ==
  ASSUME Order, PcOK, UNCHANGED <<queues, lists, gpu, released, before, work>>,
         NEW t \in {"submit", "finish"}, NEW where, Goto(t, where),
         t = "submit" => /\ pc[t] # "success" /\ where # "success"
                         /\ where \in Submitting => pc[t] \in Submitting
                         /\ m_mutexHeld' => m_mutexHeld \/ where = "waitForIdle"
                         /\ pc[t] # "waitForIdle",
         t = "finish" => /\ where \in {"notify", "pop"} => work["finish"] \notin gpu
                         /\ where \in Finishing => pc[t] \in Finishing
                         /\ pc[t] # "pop" /\ m_mutexHeld' = m_mutexHeld
  PROVE  Order'
<1> USE DEF queues
<1>1. pc'[t] = where /\ \A u \in {"submit", "finish"} \ {t} : pc'[u] = pc[u]
  BY GotoStep DEF Threads
<1>2. QueuesOK' /\ Numbered' /\ Handed' = Handed /\ Retired' = Retired
  BY DEF Order, QueuesOK, Numbered, Handed, Retired
<1>3. Fronts'
  BY <1>1 DEF Order, Fronts
<1>4. OnDevice' /\ Released'
  BY <1>1, <1>2 DEF Order, OnDevice, Released
<1>5. QED
  BY <1>2, <1>3, <1>4 DEF Order

\* A list that is handed to the GPU is the next one after those handed over
LEMMA HandToDeviceOrder == ASSUME Order, PcOK, HandToDevice PROVE Order'
<1> USE DEF queues, locks, presents, device, history
<1>1. /\ UNCHANGED <<queues, lists, released, before, work, m_mutexHeld>>
      /\ pc["submit"] = "execute" /\ pc'["finish"] = pc["finish"]
      /\ pc'["submit"] \in Statuses
      /\ \/ gpu' = gpu
         \/ /\ pc'["submit"] = "success" /\ work["submit"] # Present
            /\ gpu' = gpu \cup {work["submit"]}
  BY GotoStep DEF HandToDevice, Result, Threads, Statuses
<1>2. m_submitQueue # <<>> /\ work["submit"] = Head(m_submitQueue)
  BY <1>1 DEF Order, Fronts, Submitting
<1>3. Numbered' /\ Handed' = Handed /\ Retired' = Retired
  BY <1>1 DEF Order, Numbered, Handed, Retired
<1>4. QueuesOK'
  BY <1>1 DEF Order, QueuesOK, Threads
<1>5. Fronts'
  BY <1>1, <1>2 DEF Order, Fronts, Submitting
<1>6. OnDevice'
  <2>1. SUFFICES ASSUME NEW id \in gpu'
                 PROVE  /\ \/ id \in Retired + 1 .. Handed
                           \/ pc'["submit"] = "success" /\ id = work["submit"]
                        /\ pc'["finish"] \in {"notify", "pop"} => id # work["finish"]
    BY <1>1, <1>3 DEF OnDevice
  <2>2. CASE id \in gpu
    BY <1>1, <2>2 DEF Order, OnDevice
  <2>3. CASE id \notin gpu
    <3>1. pc'["submit"] = "success" /\ id = work["submit"] /\ id = Handed + 1
      BY <1>1, <1>2, <2>1, <2>3, FrontIsNext DEF Order
    <3>2. pc["finish"] \in {"notify", "pop"} => work["finish"] <= Handed
      <4>1. SUFFICES ASSUME pc["finish"] \in {"notify", "pop"} PROVE work["finish"] <= Handed
        OBVIOUS
      <4>2. m_finishQueue # <<>> /\ work["finish"] = Head(m_finishQueue)
        BY <4>1 DEF Order, Fronts, Finishing
      <4>3. 1 \in 1 .. Len(m_finishQueue) /\ Head(m_finishQueue) = m_finishQueue[1]
        BY <4>2, Numbers DEF Order
      <4>4. m_finishQueue[1] = Retired + 1
        BY <4>3 DEF Order, Numbered
      <4>5. QED
        BY <4>2, <4>3, <4>4, Numbers DEF Order, Handed
    <3>3. QED
      BY <1>1, <3>1, <3>2, Numbers DEF Order
  <2>4. QED
    BY <2>2, <2>3
<1>7. Released'
  BY <1>1, <1>3 DEF Order, Released
<1>8. QED
  BY <1>3, <1>4, <1>5, <1>6, <1>7 DEF Order
\* What the submit thread pops was handed to the GPU, or is a present
LEMMA HandOverOrder == ASSUME Order, PcOK, HandOver PROVE Order'
<1> USE DEF queues, locks, presents, device, history
<1>1. /\ UNCHANGED <<m_pending, lists, gpu, released, before, work, m_mutexHeld>>
      /\ pc["submit"] \in {"success", "failed"} /\ pc'["finish"] = pc["finish"]
      /\ pc'["submit"] = "loop"
  BY GotoStep DEF HandOver, PresentFailed, Locked, Threads, Callers
<1>2. m_submitQueue # <<>> /\ work["submit"] = Head(m_submitQueue)
  BY <1>1 DEF Order, Fronts, Submitting, Statuses
<1>3. /\ m_submitQueue' = Tail(m_submitQueue)
      /\ m_finishQueue' = IF Head(m_submitQueue) # Present
                            THEN Append(m_finishQueue, Head(m_submitQueue)) ELSE m_finishQueue
  BY <1>2 DEF HandOver, PresentFailed, Locked
<1>4. Numbered'
  BY <1>1, <1>2, <1>3, PopFront DEF Order
<1>5. QueuesOK'
  <2>1. m_submitQueue' \in Seq(Lists \cup {Present}) /\ Head(m_submitQueue) \in Lists \cup {Present}
    BY <1>2, <1>3 DEF Order, QueuesOK
  <2>2. m_finishQueue' \in Seq(Lists)
    BY <1>3, <2>1 DEF Order, QueuesOK
  <2>3. QED
    BY <1>1, <2>1, <2>2 DEF Order, QueuesOK
<1>6. Fronts'
  <2>1. m_finishQueue # <<>> => m_finishQueue' # <<>> /\ Head(m_finishQueue') = Head(m_finishQueue)
    <3>1. m_finishQueue \in Seq(Nat) /\ Head(m_submitQueue) \in Nat
      BY <1>2, Numbers DEF Order
    <3>2. QED
      BY <1>3, <3>1
  <2>2. QED
    BY <1>1, <2>1 DEF Order, Fronts, Submitting, Statuses
<1>7. Retired' = Retired /\ Handed' = IF Head(m_submitQueue) # Present THEN Handed + 1 ELSE Handed
  <2>1. m_finishQueue \in Seq(Nat) /\ Head(m_submitQueue) \in Nat /\ lists \in Nat /\ m_pending \in Nat
    BY <1>2, Numbers DEF Order
  <2>2. QED
    BY <1>1, <1>3, <2>1 DEF Retired, Handed
<1>8. OnDevice'
  <2>1. SUFFICES ASSUME NEW id \in gpu PROVE id \in Retired + 1 .. Handed'
    BY <1>1, <1>7 DEF Order, OnDevice
  <2>2. CASE id \in Retired + 1 .. Handed
    BY <1>7, <2>2, Numbers DEF Order
  <2>3. CASE id = work["submit"]
    <3>1. id # Present
      BY DEF Order, QueuesOK, Lists, Present
    <3>2. id = Handed + 1
      BY <1>2, <2>3, <3>1, FrontIsNext DEF Order
    <3>3. Retired <= Handed
      BY Numbers DEF Order, Handed
    <3>4. QED
      BY <1>2, <1>7, <2>3, <3>1, <3>2, <3>3, Numbers DEF Order
  <2>4. QED
    BY <2>2, <2>3 DEF Order, OnDevice
<1>9. Released'
  BY <1>1, <1>7 DEF Order, Released
<1>10. QED
  BY <1>4, <1>5, <1>6, <1>8, <1>9 DEF Order

\* What the finish thread releases and pops is the oldest list, which the GPU
\* has executed
LEMMA ReleaseOrder == ASSUME Order, PcOK, NotifyObjects \/ PopFinished PROVE Order'
<1> USE DEF queues, locks, presents, device, history
<1>1. /\ pc["finish"] \in {"notify", "pop"} /\ pc'["submit"] = pc["submit"]
      /\ UNCHANGED <<m_submitQueue, lists, gpu, before, work, m_mutexHeld>>
  BY GotoStep DEF NotifyObjects, PopFinished, Locked, Threads, Callers
<1>2. m_finishQueue # <<>> /\ work["finish"] = Head(m_finishQueue)
  BY <1>1 DEF Order, Fronts, Finishing
<1>3. work["finish"] = Retired + 1 /\ work["finish"] \in Lists
  <2>1. 1 \in 1 .. Len(m_finishQueue) /\ Head(m_finishQueue) = m_finishQueue[1]
    BY <1>2, Numbers DEF Order
  <2>2. QED
    BY <1>2, <2>1 DEF Order, Numbered, QueuesOK
<1>4. CASE NotifyObjects
  <2>1. /\ UNCHANGED <<m_pending, m_finishQueue>> /\ pc'["finish"] = "pop"
        /\ released' = released \cup {work["finish"]}
    BY <1>4, GotoStep DEF NotifyObjects, Threads
  <2>2. Numbered' /\ Handed' = Handed /\ Retired' = Retired
    BY <1>1, <2>1 DEF Order, Numbered, Handed, Retired
  <2>3. QueuesOK' /\ Fronts'
    BY <1>1, <1>2, <1>3, <2>1 DEF Order, QueuesOK, Fronts, Finishing
  <2>4. OnDevice' /\ Released'
    BY <1>1, <2>1, <2>2 DEF Order, OnDevice, Released
  <2>5. QED
    BY <2>2, <2>3, <2>4 DEF Order
<1>5. CASE PopFinished
  <2>1. /\ m_pending' = m_pending - 1 /\ m_finishQueue' = Tail(m_finishQueue)
        /\ UNCHANGED released /\ pc["finish"] = "pop" /\ pc'["finish"] = "loop"
    BY <1>5, GotoStep DEF PopFinished, Locked, Threads
  <2>2. Numbered' /\ m_pending' \in Nat /\ Retired' = Retired + 1 /\ Handed' = Handed
    BY <1>1, <1>2, <2>1, PopDone DEF Order
  <2>3. QueuesOK' /\ Fronts'
    <3>1. m_finishQueue' \in Seq(Lists)
      BY <1>2, <2>1 DEF Order, QueuesOK
    <3>2. m_pending' \in 0 .. MaxLists
      BY <2>1, <2>2, SubmissionAssumption DEF Order, QueuesOK
    <3>3. QED
      BY <1>1, <2>1, <3>1, <3>2 DEF Order, QueuesOK, Fronts, Finishing, Waits
  <2>4. Retired \in Int /\ Handed \in Int
    BY Numbers DEF Order
  <2>5. OnDevice'
    BY <1>1, <1>3, <2>1, <2>2, <2>4 DEF Order, OnDevice
  <2>6. Released'
    <3>1. \A id \in released : id \in Int
      BY DEF Order, QueuesOK, Lists
    <3>2. QED
      BY <1>3, <2>1, <2>2, <2>4, <3>1 DEF Order, Released
  <2>7. QED
    BY <2>2, <2>3, <2>5, <2>6 DEF Order
<1>6. QED
  BY <1>4, <1>5

\* The GPU executes a list, or loses them all
LEMMA GpuOrder == ASSUME Order, GpuDone \/ DeviceLost PROVE Order'
<1> USE DEF queues, locks, threads, presents, history
<1>1. /\ UNCHANGED <<queues, lists, released, before, work, pc, m_mutexHeld>> /\ gpu' \subseteq gpu
  BY DEF GpuDone, DeviceLost
<1>2. Numbered' /\ Handed' = Handed /\ Retired' = Retired
  BY <1>1 DEF Order, Numbered, Handed, Retired
<1>3. QED
  BY <1>1, <1>2 DEF Order, QueuesOK, Fronts, OnDevice, Released

LEMMA ThreadsOrder ==
  ASSUME Order, PcOK, FlagsOK, SubmitThread \/ FinishThread \/ IdleWait("finish")
  PROVE  Order'
<1> USE DEF queues, locks, presents, device, history
<1>1. ASSUME UNCHANGED <<queues, lists, gpu, released, work, before, m_mutexHeld, pc>>
      PROVE  Order'
  BY <1>1, QuietOrder DEF Order, QueuesOK
<1>2. CASE SubmitThread
  <2>1. CASE SubmitThreadSleeps
    BY <1>1, <2>1 DEF SubmitThreadSleeps, Sleep
  <2>2. CASE SkipAfterLoss \/ LockForSubmit
    <3>1. CASE SkipAfterLoss
      BY <3>1, WorkOrder DEF SkipAfterLoss, Result, Submitting
    <3>2. CASE LockForSubmit
      BY <3>2, WorkOrder DEF LockForSubmit, Submitting
    <3>3. QED
      BY <2>2, <3>1, <3>2
  <2>3. CASE SubmissionFails
    BY <2>3, WorkOrder DEF SubmissionFails, ListFailed, Locked, Submitting, Statuses
  <2>4. CASE WorkerExits("submit")
    BY <2>4, WorkOrder DEF WorkerExits, Locked, Submitting, Statuses
  <2>5. QED
    BY <1>2, <2>1, <2>2, <2>3, <2>4, TakeOrder, HandToDeviceOrder, HandOverOrder DEF SubmitThread
<1>3. CASE FinishThread
  <2>1. CASE FinishThreadSleeps
    BY <1>1, <2>1 DEF FinishThreadSleeps, Sleep
  <2>2. CASE FenceSignalled
    BY <2>2, WorkOrder DEF FenceSignalled, Finishing
  <2>3. CASE FenceLost
    BY <2>3, WorkOrder DEF FenceLost, Finishing
  <2>4. CASE WorkerExits("finish")
    BY <2>4, WorkOrder DEF WorkerExits, Locked, Finishing, Waits
  <2>5. QED
    BY <1>3, <2>1, <2>2, <2>3, <2>4, TakeOrder, ReleaseOrder DEF FinishThread
<1>4. CASE IdleWait("finish")
  <2>1. CASE SynchronizeWaits("finish")
    BY <1>1, <2>1 DEF SynchronizeWaits, Sleep
  <2>2. pc["finish"] \notin {"drainLast", "lockQueueLast", "deviceIdleLast"}
    BY DEF PcOK, Places, Threads, Waits
  <2>3. CASE Synchronized("finish")
    BY <2>2, <2>3, WorkOrder DEF Synchronized, Draining, Locked, Finishing, Waits
  <2>4. CASE LockDeviceQueue("finish")
    BY <2>2, <2>4, WorkOrder DEF LockDeviceQueue, Finishing, Waits
  <2>5. CASE DeviceIdle("finish")
    BY <2>2, <2>5, WorkOrder DEF DeviceIdle, Finishing, Waits
  <2>6. QED
    BY <1>4, <2>1, <2>3, <2>4, <2>5 DEF IdleWait
<1>5. QED
  BY <1>2, <1>3, <1>4
-----------------------------------------------------------------------------
(* What the application's wait has found out *)

Waited == {"waited", "waitedLast"}

LEMMA QuietWaiting ==
  ASSUME Waiting, QueuesOK, UNCHANGED before, lists' \in Nat, lists <= lists',
         pc'["app"] \in Synced => pc["app"] \in Synced,
         pc'["app"] \in Waited => pc["app"] \in Waited,
         \A id \in before : id \in Range(m_submitQueue') => id \in Range(m_submitQueue),
         \A id \in before : id \in gpu' => id \in gpu \cup Range(m_submitQueue)
  PROVE  Waiting'
<1>1. before' \subseteq 1 .. lists'
  BY Numbers DEF Waiting
<1>2. pc["app"] \in Waited => pc["app"] \in Synced
  BY DEF Waited, Synced
<1>3. QED
  BY <1>1, <1>2 DEF Waiting, Waited

LEMMA AppendRange ==
  ASSUME NEW S, NEW s \in Seq(S), NEW e \in S, NEW x, x \in Range(Append(s, e))
  PROVE  x \in Range(s) \/ x = e
<1>1. Append(s, e) \in Seq(S)
  OBVIOUS
<1>2. PICK i \in 1 .. Len(Append(s, e)) : Append(s, e)[i] = x
  BY <1>1, InRange
<1>3. QED
  BY <1>2, InRange

LEMMA TailRange ==
  ASSUME NEW S, NEW s \in Seq(S), s # <<>>, NEW x, x \in Range(Tail(s))
  PROVE  x \in Range(s)
<1>1. Tail(s) \in Seq(S)
  OBVIOUS
<1>2. PICK i \in 1 .. Len(Tail(s)) : Tail(s)[i] = x
  BY <1>1, InRange
<1>3. i + 1 \in 1 .. Len(s) /\ s[i + 1] = x
  BY <1>2
<1>4. QED
  BY <1>3, InRange

LEMMA CallersWaiting ==
  ASSUME Waiting, QueuesOK, PcOK,
         \/ \E t \in Callers : StartSubmit(t) \/ CallerRuns(t)
         \/ StartFrame \/ QueuePresent
         \/ StartPresent \/ StartWaitForIdle \/ StartWaitForResource
         \/ AppWaits \/ AppLeaves \/ IdleWait("app")
  PROVE  Waiting'
<1> USE DEF queues, locks, presents, device, history
<1> /\ m_submitQueue \in Seq(Nat) /\ lists \in Nat
  BY Numbers
<1>1. ASSUME UNCHANGED <<m_submitQueue, gpu, lists, before>>,
             NEW t \in Callers, NEW where, Goto(t, where),
             t = "app" => where \notin Synced
      PROVE  Waiting'
  <2>1. pc'["app"] \in Synced => pc["app"] = pc'["app"]
    BY <1>1, GotoStep DEF Threads, Callers
  <2>2. QED
    BY <1>1, <2>1, QuietWaiting DEF Waited, Synced
<1>2. ASSUME UNCHANGED <<m_submitQueue, gpu, lists, before, pc>> PROVE Waiting'
  BY <1>2, QuietWaiting
<1>3. ASSUME NEW t \in Callers, StartSubmit(t) \/ CallerRuns(t) PROVE Waiting'
  <2>1. CASE StartSubmit(t)
    BY <1>1, <2>1 DEF StartSubmit, Synced
  <2>2. CASE SubmitWaits(t)
    BY <1>2, <2>2 DEF SubmitWaits, Sleep
  <2>3. CASE SubmitQueues(t)
    <3>1. /\ lists' = lists + 1 /\ m_submitQueue' = Append(m_submitQueue, lists + 1)
          /\ UNCHANGED <<gpu, before>>
      BY <2>3 DEF SubmitQueues
    <3>2. pc'["app"] \in Synced => pc["app"] = pc'["app"]
      BY <2>3, GotoStep DEF SubmitQueues, Threads, Callers, Synced
    <3>3. \A id \in before : id \in Range(m_submitQueue') => id \in Range(m_submitQueue)
      BY <3>1, AppendRange DEF Waiting
    <3>4. QED
      BY <3>1, <3>2, <3>3, QuietWaiting DEF Waited, Synced
  <2>4. QED
    BY <1>3, <2>1, <2>2, <2>3 DEF CallerRuns
<1>4. CASE StartFrame
  BY <1>1, <1>4 DEF StartFrame, Callers
<1>5. CASE QueuePresent
  <2>1. m_submitQueue' = Append(m_submitQueue, Present) /\ UNCHANGED <<gpu, lists, before>>
    BY <1>5 DEF QueuePresent
  <2>2. pc'["app"] = pc["app"]
    BY <1>5, GotoStep DEF QueuePresent, Threads, Callers
  <2>3. \A id \in before : id \in Range(m_submitQueue') => id \in Range(m_submitQueue)
    <3>1. Present \notin before
      BY DEF Waiting, Present
    <3>2. QED
      BY <2>1, <3>1, AppendRange DEF Present
  <2>4. QED
    BY <2>1, <2>2, <2>3, QuietWaiting
<1>6. CASE StartPresent \/ StartWaitForResource
  BY <1>1, <1>6 DEF StartPresent, StartWaitForResource, Begins, Callers, Synced
<1>7. CASE StartWaitForIdle
  <2>1. before' = 1 .. lists /\ lists' = lists
    BY <1>7 DEF StartWaitForIdle, Begins
  <2>2. pc'["app"] \notin Synced
    BY <1>7, GotoStep DEF StartWaitForIdle, Begins, Threads, Callers, Synced
  <2>3. QED
    BY <2>1, <2>2 DEF Waiting, Synced
<1>8. CASE AppWaits
  BY <1>1, <1>2, <1>8 DEF AppWaits, AppSleeps, EmitPresent, ResourceFree, Sleep, Callers, Synced
<1>9. CASE AppLeaves
  BY <1>1, <1>9 DEF AppLeaves, WaitForIdleReturns, Stop, Joined, Callers, Synced
<1>10. CASE IdleWait("app")
  <2>1. CASE SynchronizeWaits("app")
    BY <1>2, <2>1 DEF SynchronizeWaits, Sleep
  <2>2. CASE Synchronized("app")
    <3>1. /\ m_submitQueue = <<>> /\ UNCHANGED <<m_submitQueue, lists, before>>
          /\ pc'["app"] \in {"lockQueue", "lockQueueLast"}
      BY <2>2, GotoStep DEF Synchronized, Threads, Callers
    <3>2. Range(m_submitQueue') = {}
      BY <3>1 DEF Range
    <3>3. QED
      BY <3>1, <3>2 DEF Waiting
  <2>3. CASE LockDeviceQueue("app")
    <3>1. /\ UNCHANGED <<m_submitQueue, gpu, lists, before>>
          /\ pc["app"] \in Synced /\ pc'["app"] \in {"deviceIdle", "deviceIdleLast"}
      BY <2>3, GotoStep DEF LockDeviceQueue, Threads, Callers, Synced
    <3>2. QED
      BY <3>1, QuietWaiting DEF Waited
  <2>4. CASE DeviceIdle("app")
    <3>1. /\ UNCHANGED <<m_submitQueue, gpu, lists, before>> /\ gpu = {} /\ pc["app"] \in Synced
      BY <2>4 DEF DeviceIdle, Synced
    <3>2. QED
      BY <3>1 DEF Waiting
  <2>5. QED
    BY <1>10, <2>1, <2>2, <2>3, <2>4 DEF IdleWait
<1>11. QED
  BY <1>3, <1>4, <1>5, <1>6, <1>7, <1>8, <1>9, <1>10

\* The two threads and the GPU leave the callers alone
LEMMA ThreadsFrame ==
  ASSUME PcOK, SubmitThread \/ FinishThread \/ IdleWait("finish") \/ GpuDone \/ DeviceLost
  PROVE  UNCHANGED <<lists, before, frame>> /\ \A u \in Callers : pc'[u] = pc[u]
<1> USE DEF queues, locks, threads, presents, history
<1>1. UNCHANGED <<lists, before, frame>>
  <2>1. CASE SubmitThread
    BY <2>1 DEF SubmitThread, SubmitThreadSleeps, TakeEntry, SkipAfterLoss, LockForSubmit,
      HandToDevice, HandOver, SubmissionFails, WorkerExits
  <2>2. CASE FinishThread
    BY <2>2 DEF FinishThread, FinishThreadSleeps, TakeFinished, FenceSignalled, FenceLost,
      NotifyObjects, PopFinished, WorkerExits
  <2>3. CASE IdleWait("finish") \/ GpuDone \/ DeviceLost
    BY <2>3 DEF IdleWait, SynchronizeWaits, Synchronized, LockDeviceQueue, DeviceIdle, GpuDone,
      DeviceLost
  <2>4. QED
    BY <2>1, <2>2, <2>3
<1>2. \A u \in Callers : pc'[u] = pc[u]
  <2>1. ASSUME NEW t \in {"submit", "finish"}, NEW where, Goto(t, where)
        PROVE  \A u \in Callers : pc'[u] = pc[u]
    BY <2>1, GotoStep DEF Threads, Callers
  <2>2. CASE SubmitThread
    BY <2>1, <2>2 DEF SubmitThread, SubmitThreadSleeps, Sleep, TakeEntry, SkipAfterLoss,
      LockForSubmit, HandToDevice, Result, HandOver, SubmissionFails, WorkerExits
  <2>3. CASE FinishThread
    BY <2>1, <2>3 DEF FinishThread, FinishThreadSleeps, Sleep, TakeFinished, FenceSignalled,
      FenceLost, NotifyObjects, PopFinished, WorkerExits
  <2>4. CASE IdleWait("finish") \/ GpuDone \/ DeviceLost
    BY <2>1, <2>4 DEF IdleWait, SynchronizeWaits, Sleep, Synchronized, LockDeviceQueue,
      DeviceIdle, GpuDone, DeviceLost
  <2>5. QED
    BY <2>2, <2>3, <2>4
<1>3. QED
  BY <1>1, <1>2

LEMMA ThreadsWaiting ==
  ASSUME Waiting, Order, PcOK,
         SubmitThread \/ FinishThread \/ IdleWait("finish") \/ GpuDone \/ DeviceLost
  PROVE  Waiting'
<1> USE DEF queues, locks, threads, presents, history
<1> m_submitQueue \in Seq(Nat) /\ lists \in Nat /\ QueuesOK
  BY Numbers DEF Order
<1>1. UNCHANGED <<lists, before>> /\ pc'["app"] = pc["app"]
  BY ThreadsFrame DEF Callers
<1>2. CASE HandOver
  <2>1. m_submitQueue # <<>> /\ m_submitQueue' = Tail(m_submitQueue) /\ UNCHANGED gpu
    BY <1>2 DEF HandOver, PresentFailed, Locked, Order, Fronts, Submitting, Statuses, device
  <2>2. \A id \in before : id \in Range(m_submitQueue') => id \in Range(m_submitQueue)
    BY <2>1, TailRange
  <2>3. QED
    BY <1>1, <2>1, <2>2, QuietWaiting DEF Order
<1>3. CASE HandToDevice
  <2>1. /\ UNCHANGED m_submitQueue /\ gpu' \subseteq gpu \cup {work["submit"]}
        /\ m_submitQueue # <<>> /\ work["submit"] = Head(m_submitQueue)
    BY <1>3 DEF HandToDevice, Order, Fronts, Submitting
  <2>2. work["submit"] \in Range(m_submitQueue)
    BY <2>1, InRange
  <2>3. QED
    BY <1>1, <2>1, <2>2, QuietWaiting DEF Order
<1>4. CASE ~HandOver /\ ~HandToDevice
  <2>1. UNCHANGED m_submitQueue /\ gpu' \subseteq gpu
    <3>1. CASE SubmitThread
      BY <1>4, <3>1 DEF SubmitThread, SubmitThreadSleeps, TakeEntry, SkipAfterLoss, LockForSubmit,
        SubmissionFails, WorkerExits, device
    <3>2. CASE FinishThread
      BY <3>2 DEF FinishThread, FinishThreadSleeps, TakeFinished, FenceSignalled, FenceLost,
        NotifyObjects, PopFinished, WorkerExits, device
    <3>3. CASE IdleWait("finish") \/ GpuDone \/ DeviceLost
      BY <3>3 DEF IdleWait, SynchronizeWaits, Synchronized, LockDeviceQueue, DeviceIdle, GpuDone,
        DeviceLost, device
    <3>4. QED
      BY <3>1, <3>2, <3>3
  <2>2. QED
    BY <1>1, <2>1, QuietWaiting DEF Order
<1>5. QED
  BY <1>2, <1>3, <1>4
-----------------------------------------------------------------------------
(* No more lists are begun than the bound allows *)

LEMMA BoundStep ==
  ASSUME PcOK, Started <= MaxLists, lists \in Nat, Next PROVE Started' <= MaxLists
<1> USE DEF queues, locks, presents, device, history
<1> DEFINE Cost(f) == IF f THEN 1 ELSE 0
<1> MaxLists \in Nat
  BY SubmissionAssumption
<1>1. \A t : One(pc, t) \in {0, 1} /\ One(pc', t) \in {0, 1}
  BY DEF One
<1>2. ASSUME lists' \in Nat,
             lists' + One(pc', "cs") + One(pc', "app") + Cost(frame') <=
               lists + One(pc, "cs") + One(pc, "app") + Cost(frame)
             \/ /\ Started < MaxLists
                /\ lists' + One(pc', "cs") + One(pc', "app") + Cost(frame') <=
                     lists + One(pc, "cs") + One(pc, "app") + Cost(frame) + 1
      PROVE  Started' <= MaxLists
  <2>1. /\ Started = lists + One(pc, "cs") + One(pc, "app") + Cost(frame)
        /\ Started' = lists' + One(pc', "cs") + One(pc', "app") + Cost(frame')
    BY <1>2, StartedCount
  <2>2. QED
    BY <1>1, <1>2, <2>1
<1>3. ASSUME NEW t \in Callers, NEW where, Goto(t, where)
      PROVE  /\ One(pc', t) = (IF where \in Starting THEN 1 ELSE 0)
             /\ \A u \in Callers \ {t} : One(pc', u) = One(pc, u)
  BY <1>3, GotoStep DEF One, Threads
<1>4. ASSUME UNCHANGED <<lists, frame>>, \A u \in Callers : pc'[u] = pc[u]
      PROVE  Started' <= MaxLists
  BY <1>1, <1>2, <1>4 DEF One, Callers
<1>5. ASSUME UNCHANGED <<lists, frame>>, NEW t \in Callers, NEW where, Goto(t, where),
             where \in Starting => pc[t] \in Starting \/ Started < MaxLists
      PROVE  Started' <= MaxLists
  <2>1. One(pc', t) <= One(pc, t) \/ (Started < MaxLists /\ One(pc', t) <= One(pc, t) + 1)
    BY <1>1, <1>3, <1>5 DEF One
  <2>2. CASE t = "cs"
    BY <1>1, <1>2, <1>3, <1>5, <2>1, <2>2 DEF Callers
  <2>3. CASE t = "app"
    BY <1>1, <1>2, <1>3, <1>5, <2>1, <2>3 DEF Callers
  <2>4. QED
    BY <2>2, <2>3 DEF Callers
<1>6. ASSUME NEW t \in Callers, StartSubmit(t) \/ CallerRuns(t) PROVE Started' <= MaxLists
  <2>1. CASE StartSubmit(t)
    BY <1>5, <2>1 DEF StartSubmit
  <2>2. CASE SubmitWaits(t)
    BY <1>4, <2>2 DEF SubmitWaits, Sleep
  <2>3. CASE SubmitQueues(t)
    <3>1. /\ lists' = lists + 1 /\ UNCHANGED frame
          /\ One(pc', t) = 0 /\ One(pc, t) = 1 /\ \A u \in Callers \ {t} : One(pc', u) = One(pc, u)
      BY <1>3, <2>3 DEF SubmitQueues, Locked, One, Starting
    <3>2. QED
      BY <1>1, <1>2, <3>1 DEF Callers
  <2>4. QED
    BY <1>6, <2>1, <2>2, <2>3 DEF CallerRuns
<1>7. CASE StartFrame
  <2>1. /\ UNCHANGED lists /\ Cost(frame) = 1 /\ Cost(frame') = 0 /\ lists' \in Nat
        /\ One(pc', "app") = One(pc, "app") /\ One(pc, "cs") = 0 /\ One(pc', "cs") = 1
    BY <1>3, <1>7 DEF StartFrame, Callers, One, Starting
  <2>2. QED
    BY <1>1, <1>2, <2>1
<1>8. CASE QueuePresent
  BY <1>5, <1>8 DEF QueuePresent, Callers, Starting
<1>9. CASE StartPresent \/ StartWaitForIdle \/ StartWaitForResource
  BY <1>5, <1>9 DEF StartPresent, StartWaitForIdle, StartWaitForResource, Begins, Callers, Starting
<1>10. CASE AppWaits
  <2>1. CASE AppSleeps
    BY <1>4, <2>1 DEF AppSleeps, Sleep
  <2>2. CASE EmitPresent
    <3>1. UNCHANGED lists /\ lists' \in Nat /\ Cost(frame') = 1 /\ Cost(frame) \in {0, 1}
      BY <2>2 DEF EmitPresent
    <3>2. Goto("app", "idle") /\ pc["app"] = "waitPresent"
      BY <2>2 DEF EmitPresent
    <3>3. One(pc', "cs") = One(pc, "cs") /\ One(pc', "app") = 0
      BY <1>3, <3>2 DEF Callers, Starting
    <3>4. One(pc, "app") = 1
      BY <3>2 DEF One, Starting
    <3>5. QED
      BY <1>1, <1>2, <3>1, <3>3, <3>4
  <2>3. CASE ResourceFree
    BY <1>5, <2>3 DEF ResourceFree, Callers, Starting
  <2>4. QED
    BY <1>10, <2>1, <2>2, <2>3 DEF AppWaits
<1>11. CASE AppLeaves
  BY <1>5, <1>11 DEF AppLeaves, WaitForIdleReturns, Stop, Joined, Callers, Starting
<1>12. CASE IdleWait("app")
  <2>1. CASE SynchronizeWaits("app")
    BY <1>4, <2>1 DEF SynchronizeWaits, Sleep
  <2>2. CASE Synchronized("app") \/ LockDeviceQueue("app")
    BY <1>5, <2>2 DEF Synchronized, LockDeviceQueue, Callers, Starting
  <2>3. CASE DeviceIdle("app")
    BY <1>5, <2>3 DEF DeviceIdle, Callers, Starting
  <2>4. QED
    BY <1>12, <2>1, <2>2, <2>3 DEF IdleWait
<1>13. CASE SubmitThread \/ FinishThread \/ IdleWait("finish") \/ GpuDone \/ DeviceLost
  BY <1>4, <1>13, ThreadsFrame
<1>14. QED
  BY <1>6, <1>7, <1>8, <1>9, <1>10, <1>11, <1>12, <1>13 DEF Next

-----------------------------------------------------------------------------
(* The inductive invariant *)

LEMMA InitIInv == Init => IInv
<1> SUFFICES ASSUME Init PROVE IInv
  OBVIOUS
<1> USE DEF Init
<1>1. PcOK /\ FlagsOK /\ QueuesOK
  <2>1. PcOK
    BY DEF PcOK, Places, Threads, Callers
  <2>2. FlagsOK
    BY DEF FlagsOK, Bits, Asleep, Threads, Conditions, Statuses
  <2>3. QueuesOK
    BY SubmissionAssumption DEF QueuesOK, Lists, Present, Threads
  <2>4. QED
    BY <2>1, <2>2, <2>3
<1>2. Started <= MaxLists
  <2>1. {t \in Callers : pc[t] \in Starting} = {}
    BY DEF Callers, Threads, Starting
  <2>2. Cardinality({t \in Callers : pc[t] \in Starting}) = 0
    BY <2>1, FS_EmptySet
  <2>3. QED
    BY <2>2, SubmissionAssumption DEF Started, Starting
<1>3. Numbered
  BY DEF Numbered, Handed, Retired
<1>4. Fronts /\ OnDevice /\ Released /\ Waiting
  BY DEF Fronts, OnDevice, Released, Waiting, Threads, Callers, Submitting, Finishing, Statuses,
    Waits, Synced
<1>5. QED
  BY <1>1, <1>2, <1>3, <1>4, TypeParts DEF IInv

LEMMA NextIInv == IInv /\ [Next]_vars => IInv'
<1> SUFFICES ASSUME IInv, [Next]_vars PROVE IInv'
  OBVIOUS
<1>1. Order /\ Waiting /\ PcOK /\ FlagsOK /\ Started <= MaxLists /\ lists \in Nat
  BY TypeParts, Numbers DEF IInv, Order
<1>2. PcOK' /\ FlagsOK'
  BY <1>1, PcStep, FlagsStep
<1>3. CASE UNCHANGED vars
  <2> USE DEF vars, queues, locks, threads, presents, device, history
  <2>1. Order'
    BY <1>1, <1>3, QuietOrder DEF Order, QueuesOK
  <2>2. Waiting'
    BY <1>1, <1>3 DEF Waiting
  <2>3. Started' <= MaxLists
    BY <1>1, <1>3 DEF Started
  <2>4. QED
    BY <1>2, <2>1, <2>2, <2>3, TypeParts DEF IInv, Order
<1>4. CASE Next
  <2>1. ASSUME SubmitThread \/ FinishThread \/ IdleWait("finish") \/ GpuDone \/ DeviceLost
        PROVE  Order' /\ Waiting'
    BY <1>1, <2>1, ThreadsOrder, GpuOrder, ThreadsWaiting
  <2>2. ASSUME \/ \E t \in Callers : StartSubmit(t) \/ CallerRuns(t)
               \/ StartFrame \/ QueuePresent
               \/ StartPresent \/ StartWaitForIdle \/ StartWaitForResource
               \/ AppWaits \/ AppLeaves \/ IdleWait("app")
        PROVE  Order' /\ Waiting'
    BY <1>1, <2>2, CallersOrder, CallersWaiting DEF Order
  <2>3. Order' /\ Waiting'
    BY <1>4, <2>1, <2>2 DEF Next
  <2>4. Started' <= MaxLists
    BY <1>1, <1>4, BoundStep
  <2>5. QED
    BY <1>2, <2>3, <2>4, TypeParts DEF IInv, Order
<1>5. QED
  BY <1>3, <1>4

-----------------------------------------------------------------------------
(* What the invariant is for *)

\* Every variable of the queue and its threads stays in its type, and no more than
\* MaxLists lists are numbered.
THEOREM QueueTypes == Spec => []TypeOK
<1>1. IInv => TypeOK
  BY DEF IInv
<1>2. QED
  BY <1>1, InitIInv, NextIInv, PTL DEF Spec

\* pendingSubmissions, read without the mutex: when it is zero, the GPU has nothing
\* and no list waits in the queue.
THEOREM PendingIsSound == Spec => []ZeroMeansIdle
<1>1. IInv => ZeroMeansIdle
  <2> SUFFICES ASSUME IInv, m_pending = 0 PROVE gpu = {} /\ Range(m_submitQueue) \subseteq {Present}
    BY DEF ZeroMeansIdle
  <2>1. QueuesOK /\ Numbered /\ Fronts /\ OnDevice
    BY TypeParts DEF IInv
  <2>2. Handed = lists /\ Retired = lists /\ lists \in Nat
    BY <2>1, Numbers DEF Numbered, Handed, Retired
  <2>3. \A i \in 1 .. Len(m_submitQueue) : m_submitQueue[i] = Present
    BY <2>1, <2>2 DEF Numbered
  <2>4. Range(m_submitQueue) \subseteq {Present}
    BY <2>1, <2>3, Numbers, InRange
  <2>5. gpu = {}
    <3>1. SUFFICES ASSUME NEW id \in gpu PROVE FALSE
      OBVIOUS
    <3>2. pc["submit"] = "success" /\ id = work["submit"]
      BY <2>1, <2>2, <3>1 DEF OnDevice
    <3>3. m_submitQueue # <<>> /\ id = Head(m_submitQueue)
      BY <2>1, <3>2 DEF Fronts, Submitting, Statuses
    <3>4. id = m_submitQueue[1] /\ 1 \in 1 .. Len(m_submitQueue)
      BY <2>1, <3>3, Numbers
    <3>5. id \in Lists /\ id = Present
      BY <2>1, <2>3, <3>1, <3>4 DEF QueuesOK
    <3>6. QED
      BY <3>5 DEF Lists, Present
  <2>6. QED
    BY <2>4, <2>5
<1>2. QED
  BY <1>1, InitIInv, NextIInv, PTL DEF Spec

\* What a list uses is not released while the GPU has the list or may still get it,
\* also when the device was lost and the fence was given up on.
THEOREM ReleaseIsSafe == Spec => []ReleasedAfterUse
<1>1. IInv => ReleasedAfterUse
  <2> SUFFICES ASSUME IInv, NEW id \in released PROVE id \notin gpu /\ id \notin Range(m_submitQueue)
    BY DEF ReleasedAfterUse
  <2>1. QueuesOK /\ Numbered /\ Fronts /\ OnDevice /\ Released
    BY TypeParts DEF IInv
  <2>2. id \in Lists /\ Retired \in Int /\ Handed \in Int /\ Retired <= Handed /\ lists \in Nat
    BY <2>1, Numbers DEF QueuesOK, Handed
  <2>3. id <= Handed
    <3>1. CASE id <= Retired
      BY <2>2, <3>1 DEF Lists
    <3>2. CASE pc["finish"] = "pop" /\ id = work["finish"]
      <4>1. m_finishQueue # <<>> /\ id = Head(m_finishQueue)
        BY <2>1, <3>2 DEF Fronts, Finishing
      <4>2. id = m_finishQueue[1] /\ 1 \in 1 .. Len(m_finishQueue)
        BY <2>1, <4>1, Numbers
      <4>3. QED
        BY <2>1, <2>2, <4>2, Numbers DEF Numbered, Handed
    <3>3. QED
      BY <2>1, <3>1, <3>2 DEF Released
  <2>4. id \notin Range(m_submitQueue)
    <3>1. SUFFICES ASSUME NEW i \in 1 .. Len(m_submitQueue), m_submitQueue[i] = id PROVE FALSE
      BY <2>1, Numbers, InRange
    <3>2. id # Present
      BY <2>2 DEF Lists, Present
    <3>3. id \in Handed + 1 .. lists
      BY <2>1, <3>1, <3>2 DEF Numbered
    <3>4. QED
      BY <2>2, <2>3, <3>3
  <2>5. id \notin gpu
    <3>1. SUFFICES ASSUME id \in gpu PROVE FALSE
      OBVIOUS
    <3>2. CASE pc["submit"] = "success" /\ id = work["submit"]
      <4>1. m_submitQueue # <<>> /\ id = Head(m_submitQueue)
        BY <2>1, <3>2 DEF Fronts, Submitting, Statuses
      <4>2. id \in Range(m_submitQueue)
        BY <2>1, <4>1, Numbers, InRange
      <4>3. QED
        BY <2>4, <4>2
    <3>3. CASE id \in Retired + 1 .. Handed
      <4>1. pc["finish"] = "pop" /\ id = work["finish"]
        BY <2>1, <2>2, <3>3 DEF Released
      <4>2. QED
        BY <2>1, <3>1, <4>1 DEF OnDevice
    <3>4. QED
      BY <2>1, <3>1, <3>2, <3>3 DEF OnDevice
  <2>6. QED
    BY <2>4, <2>5
<1>2. QED
  BY <1>1, InitIInv, NextIInv, PTL DEF Spec

\* When waitForIdle returns to the application, no list that was submitted before
\* the call is queued or on the GPU, however many were submitted meanwhile.
THEOREM IdleMeansIdle == Spec => []WaitedForAll
<1>1. IInv => WaitedForAll
  BY DEF IInv, Waiting, WaitedForAll, Synced
<1>2. QED
  BY <1>1, InitIInv, NextIInv, PTL DEF Spec
===============================================================================
