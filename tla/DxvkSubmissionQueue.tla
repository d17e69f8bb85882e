-------------------------- MODULE DxvkSubmissionQueue --------------------------
(***************************************************************************)
(* The submission queue of the device: command lists and presents are put  *)
(* on one queue, a thread hands them to the GPU in order, and a second     *)
(* thread waits for the fences of the lists and releases what they used.   *)
(* The callers are the command stream thread ("cs") and the application's  *)
(* thread ("app"): its own command lists, its wait for the last present,   *)
(* for a resource, for the whole device, and its destruction of the queue. *)
(*                                                                         *)
(* A critical section of m_mutex is one step, except the one in which      *)
(* submitCmdLists calls waitForIdle.  A thread that finds the predicate of *)
(* a condition variable false sleeps until that variable is notified.      *)
(* Frame interpolation (DLFG) is left out.                                 *)
(***************************************************************************)
EXTENDS Integers, Sequences, FiniteSets, Functions

CONSTANTS
  MaxNumQueuedCommandBuffers,
  MaxLists,         \* bound on the command lists submitted
  SubmitMayFail,    \* vkQueueSubmit may fail with an error other than a loss
  DeviceMayBeLost

ASSUME SubmissionAssumption ==
  /\ MaxNumQueuedCommandBuffers \in Nat \ {0} /\ MaxLists \in Nat
  /\ SubmitMayFail \in BOOLEAN /\ DeviceMayBeLost \in BOOLEAN

VARIABLES
  m_submitQueue,  \* command lists, by number, and presents (Present)
  m_finishQueue,  \* command lists
  m_pending, m_lastError, m_stopped,
  m_mutexQueue,   \* who has the device queue
  m_mutexHeld,    \* submitCmdLists holds m_mutex across a call
  sleeping,       \* the condition variable each thread sleeps on
  pc,
  work,           \* the entry a thread works on or waits for
  presentStatus,  \* m_presentStatus.result of the swap chain
  frame,          \* a present is on its way to the command stream thread
  lists,          \* how many command lists were submitted
  gpu,            \* the lists the GPU has not executed yet
  lost,           \* the device is lost
  released,       \* lists whose objects were notified
  before          \* history: the lists queued when the app began its wait

queues == <<m_submitQueue, m_finishQueue, m_pending>>
locks == <<m_mutexQueue, m_mutexHeld>>
threads == <<sleeping, pc, work>>
presents == <<presentStatus, frame>>
device == <<gpu, lost, released>>
history == <<lists, before>>
vars == <<queues, m_lastError, m_stopped, locks, threads, presents, device,
          history>>

Present == 0
Lists == 1 .. MaxLists
Callers == {"cs", "app"}
Threads == Callers \cup {"submit", "finish"}
Conditions == {"m_appendCond", "m_submitCond", "m_finishCond"}

Init ==
  /\ m_submitQueue = <<>> /\ m_finishQueue = <<>> /\ m_pending = 0
  /\ m_lastError = "success" /\ m_stopped = FALSE
  /\ m_mutexQueue = "free" /\ m_mutexHeld = FALSE
  /\ sleeping = [t \in Threads |-> "awake"]
  /\ pc = [t \in Threads |-> IF t \in Callers THEN "idle" ELSE "loop"]
  /\ work = [t \in Threads |-> Present]
  /\ presentStatus = "success" /\ frame = FALSE
  /\ lists = 0 /\ gpu = {} /\ lost = FALSE /\ released = {} /\ before = {}

---------------------------------------------------------------------------

Goto(t, where) == pc' = [pc EXCEPT ![t] = where]
Sleep(t, cond) == sleeping' = [sleeping EXCEPT ![t] = cond] /\ UNCHANGED <<pc, work>>
NotifyAll(conds) ==
  sleeping' = [t \in Threads |-> IF sleeping[t] \in conds THEN "awake" ELSE sleeping[t]]

(* Thread t is where, awake, and gets m_mutex.                             *)
Locked(t, where) ==
  pc[t] = where /\ sleeping[t] = "awake" /\ ~m_mutexHeld

---------------------------------------------------------------------------
(* submit, present: the callers.                                           *)

(* The device is being destroyed: the command stream thread has ended.     *)
Leaving ==
  {"drainLast", "lockQueueLast", "deviceIdleLast", "waitedLast", "join", "gone"}

(* The lists submitted or about to be.                                     *)
Started ==
  lists + Cardinality({t \in Callers : pc[t] \in {"submit", "submitFrame", "waitPresent"}})
        + IF frame THEN 1 ELSE 0

(* flushCommandList, on the command stream or for uploads.                 *)
StartSubmit(t) ==
  /\ pc[t] = "idle" /\ Started < MaxLists /\ pc["app"] \notin Leaving
  /\ Goto(t, "submit")
  /\ UNCHANGED <<queues, m_lastError, m_stopped, locks, sleeping, work,
                 presents, device, history>>

(* The command stream reaches a present: it submits the frame's list first. *)
StartFrame ==
  /\ pc["cs"] = "idle" /\ frame
  /\ Goto("cs", "submitFrame") /\ frame' = FALSE
  /\ UNCHANGED <<queues, m_lastError, m_stopped, locks, sleeping, work,
                 presentStatus, device, history>>

HasRoom == Len(m_submitQueue) + Len(m_finishQueue) <= MaxNumQueuedCommandBuffers

SubmitWaits(t) ==
  /\ Locked(t, "submit") \/ Locked(t, "submitFrame")
  /\ ~HasRoom
  /\ Sleep(t, "m_finishCond")
  /\ UNCHANGED <<queues, m_lastError, m_stopped, locks, presents, device,
                 history>>

SubmitQueues(t) ==
  /\ Locked(t, "submit") \/ Locked(t, "submitFrame")
  /\ HasRoom
  /\ lists' = lists + 1
  /\ m_submitQueue' = Append(m_submitQueue, lists')
  /\ m_pending' = m_pending + 1
  /\ NotifyAll({"m_appendCond"})
  /\ Goto(t, IF pc[t] = "submitFrame" THEN "present" ELSE "idle")
  /\ UNCHANGED <<m_finishQueue, m_lastError, m_stopped, locks, work, presents,
                 device, before>>

(* presentImage.                                                           *)
QueuePresent ==
  /\ Locked("cs", "present")
  /\ presentStatus' = "not ready"
  /\ m_submitQueue' = Append(m_submitQueue, Present)
  /\ NotifyAll({"m_appendCond"})
  /\ Goto("cs", "idle")
  /\ UNCHANGED <<m_finishQueue, m_pending, m_lastError, m_stopped, locks,
                 work, frame, device, history>>

---------------------------------------------------------------------------
(* The application's waits.                                                *)

Begins(where) ==
  /\ pc["app"] = "idle"
  /\ Goto("app", where)
  /\ UNCHANGED <<queues, m_lastError, m_stopped, locks, sleeping, presents,
                 device, lists>>

(* SynchronizePresent, within the bound on the lists.                      *)
StartPresent ==
  Started < MaxLists /\ Begins("waitPresent") /\ UNCHANGED <<work, before>>

(* The destructor of the device begins with waitForIdle as well.           *)
StartWaitForIdle ==
  /\ \/ Begins("drain")
     \/ Begins("drainLast") /\ pc["cs"] = "idle" /\ ~frame
  /\ before' = 1 .. lists
  /\ UNCHANGED work

StartWaitForResource ==
  /\ \E id \in 1 .. lists : work' = [work EXCEPT !["app"] = id]
  /\ Begins("waitResource") /\ UNCHANGED before

(* synchronizeSubmission, synchronizeUntil.                                *)
AppSleeps ==
  /\ \/ Locked("app", "waitPresent") /\ presentStatus = "not ready"
        /\ Sleep("app", "m_submitCond")
     \/ Locked("app", "waitResource") /\ work["app"] \notin released
        /\ Sleep("app", "m_finishCond")
  /\ UNCHANGED <<queues, m_lastError, m_stopped, locks, presents, device,
                 history>>

(* The last present is through: emit the next one.  The status, like the    *)
(* resource below, may be found ready without m_mutex.                      *)
EmitPresent ==
  /\ pc["app"] = "waitPresent" /\ sleeping["app"] = "awake"
  /\ presentStatus # "not ready"
  /\ presentStatus' = "not ready" /\ frame' = TRUE
  /\ Goto("app", "idle")
  /\ UNCHANGED <<queues, m_lastError, m_stopped, locks, sleeping, work,
                 device, history>>

ResourceFree ==
  /\ pc["app"] = "waitResource" /\ sleeping["app"] = "awake"
  /\ work["app"] \in released
  /\ Goto("app", "idle")
  /\ UNCHANGED <<queues, m_lastError, m_stopped, locks, sleeping, work,
                 presents, device, history>>

---------------------------------------------------------------------------
(* waitForIdle, called by the application and by finishCmdLists.           *)

Draining(t) == \E where \in {"drain", "drainLast"} : Locked(t, where)

SynchronizeWaits(t) ==
  /\ Draining(t) /\ m_submitQueue # <<>>
  /\ Sleep(t, "m_submitCond")
  /\ UNCHANGED <<queues, m_lastError, m_stopped, locks, presents, device,
                 history>>

(* Faulty: lockSubmissionUnsynchronized. *)
LockUnsynchronized(t) ==
  /\ Draining(t)
  /\ Goto(t, IF pc[t] = "drain" THEN "lockQueue" ELSE "lockQueueLast")
  /\ UNCHANGED <<queues, m_lastError, m_stopped, locks, sleeping, work,
                 presents, device, history>>

Synchronized(t) ==
  /\ Draining(t) /\ m_submitQueue = <<>>
  /\ Goto(t, IF pc[t] = "drain" THEN "lockQueue" ELSE "lockQueueLast")
  /\ UNCHANGED <<queues, m_lastError, m_stopped, locks, sleeping, work,
                 presents, device, history>>

LockDeviceQueue(t) ==
  /\ pc[t] \in {"lockQueue", "lockQueueLast"} /\ m_mutexQueue = "free"
  /\ m_mutexQueue' = t
  /\ Goto(t, IF pc[t] = "lockQueue" THEN "deviceIdle" ELSE "deviceIdleLast")
  /\ UNCHANGED <<queues, m_lastError, m_stopped, m_mutexHeld, sleeping, work,
                 presents, device, history>>

(* vkDeviceWaitIdle has returned.                                          *)
DeviceIdle(t) ==
  /\ pc[t] \in {"deviceIdle", "deviceIdleLast"} /\ gpu = {}
  /\ m_mutexQueue' = "free"
  /\ Goto(t, CASE t = "finish" -> "notify"
               [] t = "app" /\ pc[t] = "deviceIdle" -> "waited"
               [] t = "app" /\ pc[t] = "deviceIdleLast" -> "waitedLast")
  /\ UNCHANGED <<queues, m_lastError, m_stopped, m_mutexHeld, sleeping, work,
                 presents, device, history>>

WaitForIdleReturns ==
  /\ pc["app"] = "waited"
  /\ Goto("app", "idle")
  /\ UNCHANGED <<queues, m_lastError, m_stopped, locks, sleeping, work,
                 presents, device, history>>

(* ~DxvkSubmissionQueue.                                                   *)
Stop ==
  /\ Locked("app", "waitedLast")
  /\ m_stopped' = TRUE
  /\ NotifyAll({"m_appendCond", "m_submitCond"})
  /\ Goto("app", "join")
  /\ UNCHANGED <<queues, m_lastError, locks, work, presents, device, history>>

Joined ==
  /\ pc["app"] = "join" /\ pc["submit"] = "exited" /\ pc["finish"] = "exited"
  /\ Goto("app", "gone")
  /\ UNCHANGED <<queues, m_lastError, m_stopped, locks, sleeping, work,
                 presents, device, history>>

---------------------------------------------------------------------------
(* submitCmdLists.                                                         *)

SubmitThreadSleeps ==
  /\ Locked("submit", "loop") /\ ~m_stopped /\ m_submitQueue = <<>>
  /\ Sleep("submit", "m_appendCond")
  /\ UNCHANGED <<queues, m_lastError, m_stopped, locks, presents, device,
                 history>>

(* The entry stays at the front until it was handed to the device.         *)
TakeEntry ==
  /\ Locked("submit", "loop") /\ ~m_stopped /\ m_submitQueue # <<>>
  /\ work' = [work EXCEPT !["submit"] = Head(m_submitQueue)]
  /\ Goto("submit", IF m_lastError = "lost" THEN "lost" ELSE "lockQueue")
  /\ UNCHANGED <<queues, m_lastError, m_stopped, locks, sleeping, presents,
                 device, history>>

(* The status a submission comes back with.                                *)
Result(status) ==
  /\ presentStatus' = IF work["submit"] = Present THEN status ELSE presentStatus
  /\ Goto("submit", status)

SkipAfterLoss ==
  /\ pc["submit"] = "lost"
  /\ Result("failed: lost")
  /\ UNCHANGED <<queues, m_lastError, m_stopped, locks, sleeping, work, frame,
                 device, history>>

(* Command list or present: vkQueueSubmit, vkQueuePresent.                 *)
HandToDevice ==
  /\ pc["submit"] = "execute"
  /\ m_mutexQueue' = "free"
  /\ \/ lost /\ Result("failed: lost") /\ UNCHANGED gpu
     \/ ~lost /\ Result("success")
        /\ gpu' = IF work["submit"] = Present THEN gpu ELSE gpu \cup {work["submit"]}
     \/ ~lost /\ SubmitMayFail /\ Result("failed") /\ UNCHANGED gpu
  /\ UNCHANGED <<queues, m_lastError, m_stopped, m_mutexHeld, sleeping, work,
                 frame, lost, released, history>>

LockForSubmit ==
  /\ pc["submit"] = "lockQueue" /\ m_mutexQueue = "free"
  /\ m_mutexQueue' = "submit"
  /\ Goto("submit", "execute")
  /\ UNCHANGED <<queues, m_lastError, m_stopped, m_mutexHeld, sleeping, work,
                 presents, device, history>>

PresentFailed == Locked("submit", "failed") /\ work["submit"] = Present
ListFailed == Locked("submit", "failed") /\ work["submit"] # Present

(* Faulty: pop the entry without notifying.                                *)
HandOverSilently ==
  /\ Locked("submit", "success") \/ PresentFailed
  /\ m_finishQueue' = IF pc["submit"] = "success" /\ work["submit"] # Present
                        THEN Append(m_finishQueue, work["submit"]) ELSE m_finishQueue
  /\ m_submitQueue' = Tail(m_submitQueue)
  /\ Goto("submit", "loop")
  /\ UNCHANGED <<m_pending, m_lastError, m_stopped, locks, sleeping, work,
                 presents, device, history>>

(* A list that reached the device is the other thread's; a present that    *)
(* failed without losing the device is dropped.                            *)
HandOver ==
  /\ Locked("submit", "success") \/ PresentFailed
  /\ m_finishQueue' = IF pc["submit"] = "success" /\ work["submit"] # Present
                        THEN Append(m_finishQueue, work["submit"]) ELSE m_finishQueue
  /\ m_submitQueue' = Tail(m_submitQueue)
  /\ NotifyAll({"m_submitCond"})
  /\ Goto("submit", "loop")
  /\ UNCHANGED <<m_pending, m_lastError, m_stopped, locks, work, presents,
                 device, history>>

(* A list failed or the device is lost: waitForIdle, with m_mutex held.  It *)
(* begins by locking m_mutex, which is not recursive: the thread never     *)
(* leaves, and there is no action from "waitForIdle".                       *)
SubmissionFails ==
  /\ Locked("submit", "failed: lost") \/ ListFailed
  /\ m_lastError' = IF pc["submit"] = "failed" THEN "failed" ELSE "lost"
  /\ m_mutexHeld' = TRUE
  /\ Goto("submit", "waitForIdle")
  /\ UNCHANGED <<queues, m_stopped, m_mutexQueue, sleeping, work, presents,
                 device, history>>

(* Either thread's loop ends.                                              *)
WorkerExits(t) ==
  /\ Locked(t, "loop") /\ m_stopped
  /\ Goto(t, "exited")
  /\ UNCHANGED <<queues, m_lastError, m_stopped, locks, sleeping, work,
                 presents, device, history>>

---------------------------------------------------------------------------
(* finishCmdLists.                                                         *)

FinishThreadSleeps ==
  /\ Locked("finish", "loop") /\ ~m_stopped /\ m_finishQueue = <<>>
  /\ Sleep("finish", "m_submitCond")
  /\ UNCHANGED <<queues, m_lastError, m_stopped, locks, presents, device,
                 history>>

(* Faulty: count the list as done before its fence is waited for.          *)
TakeAndCount ==
  /\ Locked("finish", "loop") /\ ~m_stopped /\ m_finishQueue # <<>>
  /\ work' = [work EXCEPT !["finish"] = Head(m_finishQueue)]
  /\ m_pending' = m_pending - 1
  /\ Goto("finish", IF m_lastError = "lost" THEN "drain" ELSE "fence")
  /\ UNCHANGED <<m_submitQueue, m_finishQueue, m_lastError, m_stopped, locks,
                 sleeping, presents, device, history>>

TakeFinished ==
  /\ Locked("finish", "loop") /\ ~m_stopped /\ m_finishQueue # <<>>
  /\ work' = [work EXCEPT !["finish"] = Head(m_finishQueue)]
  /\ Goto("finish", IF m_lastError = "lost" THEN "drain" ELSE "fence")
  /\ UNCHANGED <<queues, m_lastError, m_stopped, locks, sleeping, presents,
                 device, history>>

(* Faulty: take the list for executed. *)
FenceIgnored ==
  /\ pc["finish"] = "fence"
  /\ Goto("finish", "notify")
  /\ UNCHANGED <<queues, m_lastError, m_stopped, locks, sleeping, work,
                 presents, device, history>>

FenceSignalled ==
  /\ pc["finish"] = "fence" /\ work["finish"] \notin gpu
  /\ Goto("finish", "notify")
  /\ UNCHANGED <<queues, m_lastError, m_stopped, locks, sleeping, work,
                 presents, device, history>>

FenceLost ==
  /\ pc["finish"] = "fence" /\ lost
  /\ m_lastError' = "lost"
  /\ Goto("finish", "drain")
  /\ UNCHANGED <<queues, m_stopped, locks, sleeping, work, presents, device,
                 history>>

(* notifyObjects, before m_mutex is taken again.                           *)
NotifyObjects ==
  /\ pc["finish"] = "notify"
  /\ released' = released \cup {work["finish"]}
  /\ Goto("finish", "pop")
  /\ UNCHANGED <<queues, m_lastError, m_stopped, locks, sleeping, work,
                 presents, gpu, lost, history>>

PopFinished ==
  /\ Locked("finish", "pop")
  /\ m_pending' = m_pending - 1
  /\ m_finishQueue' = Tail(m_finishQueue)
  /\ NotifyAll({"m_finishCond"})
  /\ Goto("finish", "loop")
  /\ UNCHANGED <<m_submitQueue, m_lastError, m_stopped, locks, work, presents,
                 device, history>>

---------------------------------------------------------------------------
(* The GPU executes the lists it was handed in some order, until it is     *)
(* lost with all of them.                                                  *)

GpuDone ==
  /\ \E id \in gpu : gpu' = gpu \ {id}
  /\ UNCHANGED <<queues, m_lastError, m_stopped, locks, threads, presents,
                 lost, released, history>>

DeviceLost ==
  /\ DeviceMayBeLost /\ ~lost
  /\ lost' = TRUE /\ gpu' = {}
  /\ UNCHANGED <<queues, m_lastError, m_stopped, locks, threads, presents,
                 released, history>>

---------------------------------------------------------------------------

CallerRuns(t) == SubmitWaits(t) \/ SubmitQueues(t)
AppWaits == AppSleeps \/ EmitPresent \/ ResourceFree
IdleWait(t) == SynchronizeWaits(t) \/ Synchronized(t) \/ LockDeviceQueue(t) \/ DeviceIdle(t)
AppLeaves == WaitForIdleReturns \/ Stop \/ Joined
SubmitThread ==
  \/ SubmitThreadSleeps \/ TakeEntry \/ SkipAfterLoss \/ LockForSubmit \/ HandToDevice
  \/ HandOver \/ SubmissionFails \/ WorkerExits("submit")
FinishThread ==
  \/ FinishThreadSleeps \/ TakeFinished \/ FenceSignalled \/ FenceLost \/ NotifyObjects
  \/ PopFinished \/ WorkerExits("finish")

Next ==
  \/ \E t \in Callers : StartSubmit(t) \/ CallerRuns(t)
  \/ StartFrame \/ QueuePresent
  \/ StartPresent \/ StartWaitForIdle \/ StartWaitForResource
  \/ AppWaits \/ AppLeaves
  \/ \E t \in {"app", "finish"} : IdleWait(t)
  \/ SubmitThread \/ FinishThread
  \/ GpuDone \/ DeviceLost

Spec == Init /\ [][Next]_vars

(* Every thread runs when it can and the GPU executes what it was handed;  *)
(* the callers need not call, and the device need not be lost.  The finish *)
(* thread gets the device queue's mutex from an application that takes it  *)
(* again and again: the mutex may be handed out unfairly, but not for ever. *)
FairSpec ==
  /\ Spec
  /\ \A t \in Callers : WF_vars(CallerRuns(t))
  /\ WF_vars(StartFrame) /\ WF_vars(QueuePresent) /\ WF_vars(AppWaits) /\ WF_vars(AppLeaves)
  /\ WF_vars(IdleWait("app")) /\ SF_vars(IdleWait("finish"))
  /\ WF_vars(SubmitThread) /\ WF_vars(FinishThread) /\ WF_vars(GpuDone)

---------------------------------------------------------------------------

Statuses == {"success", "failed", "failed: lost"}
Waits == {"drain", "lockQueue", "deviceIdle"}

TypeOK ==
  /\ m_submitQueue \in Seq(Lists \cup {Present}) /\ m_finishQueue \in Seq(Lists)
  /\ m_pending \in 0 .. MaxLists /\ m_lastError \in {"success", "failed", "lost"}
  /\ m_stopped \in BOOLEAN /\ m_mutexHeld \in BOOLEAN
  /\ m_mutexQueue \in {"free"} \cup Threads
  /\ sleeping \in [Threads -> Conditions \cup {"awake"}]
  /\ work \in [Threads -> Lists \cup {Present}]
  /\ pc["cs"] \in {"idle", "submit", "submitFrame", "present"}
  /\ pc["app"] \in {"idle", "submit", "waitPresent", "waitResource", "waited"} \cup Waits
                     \cup Leaving
  /\ pc["submit"] \in {"loop", "lost", "lockQueue", "execute", "waitForIdle", "exited"}
                        \cup Statuses
  /\ pc["finish"] \in {"loop", "fence", "notify", "pop", "exited"} \cup Waits
  /\ presentStatus \in Statuses \cup {"not ready"} /\ frame \in BOOLEAN
  /\ lists \in 0 .. MaxLists /\ lost \in BOOLEAN
  /\ gpu \subseteq Lists /\ released \subseteq Lists /\ before \subseteq Lists

(* A count of pending submissions of zero tells that the GPU is idle and   *)
(* will stay so until the next submission.                                 *)
ZeroMeansIdle ==
  m_pending = 0 => gpu = {} /\ Range(m_submitQueue) \subseteq {Present}

(* When waitForIdle returns, every list that was submitted before the call *)
(* was executed or lost with the device: none is still queued or running.  *)
WaitedForAll ==
  pc["app"] \in {"waited", "waitedLast"} =>
    before \cap (Range(m_submitQueue) \cup gpu) = {}

(* What a list uses is released only once the GPU is done with the list.   *)
ReleasedAfterUse == released \cap (gpu \cup Range(m_submitQueue)) = {}

(* Every present that was emitted gets its result, which the application's *)
(* next present waits for ("Waits for the result of the given submission   *)
(* or present operation to become available").                             *)
PresentAnswered == (presentStatus = "not ready") ~> (presentStatus # "not ready")

(* SubmissionFails has run: the submit thread holds m_mutex for ever.      *)
Stuck == m_mutexHeld

(* Unless a submission failed, the callers' waits end, and so does the     *)
(* destruction of the queue: no notification of the three condition        *)
(* variables is missed, by a live device or a lost one.                    *)
CallsReturn ==
  /\ pc["app"] \notin {"idle", "gone"} ~> (pc["app"] \in {"idle", "gone"} \/ Stuck)
  /\ pc["cs"] # "idle" ~> (pc["cs"] = "idle" \/ Stuck)
===============================================================================
