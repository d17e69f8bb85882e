-------------------------- MODULE WorkerThreadPool --------------------------
(***************************************************************************)
(* The worker thread pool (src/util/util_threadpool.h) with its SPSC ring  *)
(* per worker (util_atomic_queue.h).  One thread calls Schedule; each      *)
(* worker takes tasks from its own ring and, with WorkStealing, from the   *)
(* others'; another thread takes the results through futures.              *)
(*                                                                         *)
(* The futures travel as in d3d9_rtx.cpp: the scheduling thread pushes     *)
(* them into a bounded queue from which the command stream thread takes    *)
(* them.  The scheduling thread may also drop a future (a draw that is     *)
(* ignored after its tasks were scheduled, an export nobody waits for) or  *)
(* cancel it (the unit test).                                              *)
(*                                                                         *)
(* A task is known by its ordinal.  Its slot is that ordinal modulo        *)
(* TaskCount, whether or not the slot is still in use: `lapped' remembers  *)
(* the tasks that this overtakes.                                          *)
(***************************************************************************)
EXTENDS Naturals, Sequences, FiniteSets

CONSTANTS
  NumThread,          \* how many workers there are
  NumTasksPerThread,  \* the size of a worker's ring, which keeps one place free
  TaskCount,          \* m_taskCount, the number of task slots
  Modes,              \* the template parameters WorkStealing and LowLatency to consider
  CountMod,           \* 2^32, the modulus of m_numTasks
  MaxTasks,           \* bound: how many tasks are scheduled
  Dropped,            \* tasks whose future the scheduling thread lets go
  Cancels             \* tasks that it cancels

ASSUME SizeAssumption ==
  /\ NumThread \in Nat \ {0} /\ NumTasksPerThread \in Nat \ {0, 1}
  \* The smallest power of two that is not below NumTasksPerThread * NumThread
  /\ TaskCount \in Nat \ {0}
  /\ TaskCount \in { 2 ^ k : k \in 1 .. 2 * NumThread * NumTasksPerThread }
  /\ TaskCount >= NumTasksPerThread * NumThread
  /\ TaskCount < 2 * NumTasksPerThread * NumThread
  /\ Modes \subseteq [workStealing : BOOLEAN, lowLatency : BOOLEAN]
  /\ MaxTasks \in Nat /\ Dropped \subseteq Nat /\ Cancels \subseteq Nat /\ CountMod \in Nat /\ CountMod > MaxTasks

Workers == 0 .. NumThread - 1
Places == 0 .. NumTasksPerThread - 1
Jobs == 1 .. MaxTasks
NoJob == 0

Slots == 0 .. TaskCount - 1
NoSlot == TaskCount

NoFuture == [slot |-> NoSlot, job |-> NoJob]

VARIABLES
  mode,         \* the template parameters of this pool; they never change
  queue,        \* m_workerTasks: head, tail and data of each ring
  numTasks,     \* m_numTasks
  task,         \* m_tasks: the task in a slot, its thunk and its Result
  taskId,       \* m_taskId
  schedulerIndex, \* m_schedulerIndex, modulo the number of workers
  stopWork,     \* m_stopWork
  lock,         \* who holds m_threadMutex, or NumThread
  worker,       \* where each worker is, whose ring it tries, what it popped
  caller,       \* where the scheduling thread is, and the future it holds
  futures,      \* m_drawCallStateQueue: the futures on their way
  taker,        \* where the thread that takes the results is
  wrong,        \* history: tasks whose future delivered another result
  lapped        \* history: tasks whose slot was given away, or not free

callVars == <<taskId, schedulerIndex, caller>>
takeVars == <<futures, taker, wrong>>
vars == <<mode, queue, numTasks, task, taskId, schedulerIndex, stopWork, lock,
          worker, caller, futures, taker, wrong, lapped>>

Init ==
  /\ mode \in Modes
  /\ queue = [q \in Workers |-> [head |-> 0, tail |-> 0, data |-> [p \in Places |-> NoSlot]]]
  /\ numTasks = 0
  /\ task = [s \in Slots |-> [job |-> NoJob, thunk |-> FALSE, result |-> NoJob,
                              hasResult |-> FALSE, disposed |-> FALSE]]
  /\ taskId = 0 /\ schedulerIndex = 0 /\ stopWork = FALSE
  /\ lock = NumThread
  /\ worker = [w \in Workers |-> [pc |-> "top", tries |-> 0, slot |-> NoSlot, job |-> NoJob]]
  /\ caller = [pc |-> "idle", thread |-> 0, future |-> NoFuture]
  /\ futures = << >>
  /\ taker = [pc |-> "idle", future |-> NoFuture]
  /\ lapped = {} /\ wrong = {}
-----------------------------------------------------------------------------
(* AtomicQueue *)

Following(p) == (p + 1) % NumTasksPerThread

IsFull(q) == Following(queue[q].tail) = queue[q].head

IsEmpty(q) == queue[q].head = queue[q].tail

Before(p) == (p + NumTasksPerThread - 1) % NumTasksPerThread

Length(q) == (queue[q].tail + NumTasksPerThread - queue[q].head) % NumTasksPerThread

\* The ring a worker tries: its own, then those after it
Victim(w) == (w + worker[w].tries) % NumThread

\* What a ring holds, oldest first; an element whose place was given up is
\* still in it until the worker that did so has read it.
Contents(q) ==
  (IF \E w \in Workers : worker[w].pc = "read" /\ Victim(w) = q
     THEN <<queue[q].data[Before(queue[q].head)]>> ELSE << >>)
  \o [i \in 1 .. Length(q) |-> queue[q].data[(queue[q].head + i - 1) % NumTasksPerThread]]
-----------------------------------------------------------------------------
(* The scheduling thread *)

\* Slots whose task waits in a ring or is in a worker's hands
InUse(s) ==
  \/ \E q \in Workers : s \in { Contents(q)[i] : i \in DOMAIN Contents(q) }
  \/ \E w \in Workers : worker[w].slot = s

\* The futures that are still to be asked
Unasked == { futures[i].job : i \in DOMAIN futures } \cup {taker.future.job}

\* Faulty: the result of the slot is not reset
CaptureStale(s, j) ==
  /\ task' = [task EXCEPT ![s].job = j, ![s].thunk = TRUE, ![s].disposed = FALSE]
  /\ lapped' = lapped \cup (IF InUse(s) THEN {task[s].job, j} ELSE {})
                      \cup ({task[s].job} \cap Unasked)

\* Task::capture on a slot, and what it overtakes
Capture(s, j) ==
  LET old == task[s].job
  IN /\ task' = [task EXCEPT ![s] = [job |-> j, thunk |-> TRUE, result |-> @.result,
                                     hasResult |-> FALSE, disposed |-> FALSE]]
     /\ lapped' = lapped \cup (IF InUse(s) THEN {old, j} ELSE {})
                         \cup ({old} \cap Unasked)

\* Schedule, up to the index: a full ring gives a future that is not valid; else
\* the next slot captures the lambda and push stores its number in the ring
ScheduleCapture ==
  LET q == schedulerIndex % NumThread
      s == taskId % TaskCount
  IN /\ caller.pc = "idle" /\ taskId < MaxTasks
     /\ schedulerIndex' = (schedulerIndex + 1) % NumThread
     /\ \/ /\ IsFull(q)
           /\ caller' = [pc |-> "hold", thread |-> q, future |-> NoFuture]
           /\ UNCHANGED <<taskId, task, lapped, queue>>
        \/ /\ ~IsFull(q)
           /\ taskId' = taskId + 1
           /\ Capture(s, taskId + 1)
           /\ queue' = [queue EXCEPT ![q].data[queue[q].tail] = s]
           /\ caller' = [pc |-> "tail", thread |-> q, future |-> [slot |-> s, job |-> taskId + 1]]
     /\ UNCHANGED <<mode, numTasks, stopWork, lock, worker, takeVars>>

\* push publishes the index
PushTail ==
  /\ caller.pc = "tail"
  /\ queue' = [queue EXCEPT ![caller.thread].tail = Following(@)]
  /\ caller' = [caller EXCEPT !.pc = IF mode.lowLatency THEN "count" ELSE "notify"]
  /\ UNCHANGED <<mode, numTasks, task, taskId, schedulerIndex, stopWork, lock,
                 worker, takeVars, lapped>>

Asleep == { w \in Workers : worker[w].pc = "asleep" }

Wake(W) == worker' = [w \in Workers |-> IF w \in W THEN [worker[w] EXCEPT !.pc = "top"]
                                                   ELSE worker[w]]

\* One sleeper is notified where workers steal, and all where they do not
Notify ==
  /\ caller.pc = "notify"
  /\ IF mode.workStealing /\ Asleep # {} THEN \E w \in Asleep : Wake({w}) ELSE Wake(Asleep)
  /\ caller' = [caller EXCEPT !.pc = "count"]
  /\ UNCHANGED <<mode, queue, numTasks, task, taskId, schedulerIndex, stopWork, lock,
                 takeVars, lapped>>

Count ==
  /\ caller.pc = "count"
  /\ numTasks' = (numTasks + 1) % CountMod
  /\ caller' = [caller EXCEPT !.pc = "hold"]
  /\ UNCHANGED <<mode, queue, task, taskId, schedulerIndex, stopWork, lock,
                 worker, takeVars, lapped>>

\* submitActiveDrawCallState: push the future on, once there is room
HandOver ==
  /\ caller.pc = "hold" /\ caller.future.job \notin Dropped \cup Cancels
  /\ Len(futures) < NumTasksPerThread - 1
  /\ futures' = Append(futures, caller.future)
  /\ caller' = [caller EXCEPT !.pc = "idle", !.future = NoFuture]
  /\ UNCHANGED <<mode, queue, numTasks, task, taskId, schedulerIndex, stopWork, lock,
                 worker, taker, wrong, lapped>>

Drop ==
  /\ caller.pc = "hold" /\ caller.future.job \in Dropped
  /\ caller' = [caller EXCEPT !.pc = "idle", !.future = NoFuture]
  /\ UNCHANGED <<mode, queue, numTasks, task, taskId, schedulerIndex, stopWork, lock,
                 worker, takeVars, lapped>>

Cancelled(t) == [t EXCEPT !.hasResult = FALSE, !.disposed = TRUE]

Cancel ==
  /\ caller.pc = "hold" /\ caller.future.job \in Cancels
  /\ task' = [task EXCEPT ![caller.future.slot] = Cancelled(@)]
  /\ caller' = [caller EXCEPT !.pc = "idle", !.future = NoFuture]
  /\ UNCHANGED <<mode, queue, numTasks, taskId, schedulerIndex, stopWork, lock,
                 worker, takeVars, lapped>>
-----------------------------------------------------------------------------
(* The destructor; the command stream thread was synchronised before it *)

Stop ==
  /\ caller.pc = "idle" /\ futures = << >> /\ taker.pc = "idle"
  /\ stopWork' = TRUE
  /\ caller' = [caller EXCEPT !.pc = IF mode.lowLatency THEN "join" ELSE "stop"]
  /\ UNCHANGED <<mode, queue, numTasks, task, taskId, schedulerIndex, lock,
                 worker, takeVars, lapped>>

StopNotify ==
  /\ caller.pc = "stop"
  /\ Wake(Asleep)
  /\ caller' = [caller EXCEPT !.pc = "join"]
  /\ UNCHANGED <<mode, queue, numTasks, task, taskId, schedulerIndex, stopWork, lock,
                 takeVars, lapped>>

Join ==
  /\ caller.pc = "join" /\ \A w \in Workers : worker[w].pc = "returned"
  /\ caller' = [caller EXCEPT !.pc = IF numTasks > 0 THEN "drain" ELSE "destroyed"]
  /\ UNCHANGED <<mode, queue, numTasks, task, taskId, schedulerIndex, stopWork, lock,
                 worker, takeVars, lapped>>

\* Tasks that no worker took are cancelled and executed, for their destructor
DrainOne ==
  /\ caller.pc = "drain"
  /\ \E q \in Workers :
       LET s == queue[q].data[queue[q].head]
       IN /\ ~IsEmpty(q) /\ \A p \in Workers : p < q => IsEmpty(p)
          /\ queue' = [queue EXCEPT ![q].head = Following(@)]
          /\ task' = [task EXCEPT ![s] = [Cancelled(@) EXCEPT !.thunk = FALSE]]
  /\ numTasks' = (numTasks + CountMod - 1) % CountMod
  /\ UNCHANGED <<mode, taskId, schedulerIndex, stopWork, lock,
                 worker, caller, takeVars, lapped>>

DrainDone ==
  /\ caller.pc = "drain" /\ \A q \in Workers : IsEmpty(q)
  /\ caller' = [caller EXCEPT !.pc = "destroyed"]
  /\ UNCHANGED <<mode, queue, numTasks, task, taskId, schedulerIndex, stopWork, lock,
                 worker, takeVars, lapped>>
-----------------------------------------------------------------------------
(* A worker *)

\* The top of processWork: the wait on the condition, and the master halt
WorkerTop(w) ==
  /\ worker[w].pc = "top"
  /\ worker' = [worker EXCEPT ![w].tries = 0,
       ![w].pc = IF ~mode.lowLatency /\ numTasks = 0 /\ ~stopWork THEN "asleep"
                 ELSE IF stopWork THEN "returned" ELSE "pop"]
  /\ UNCHANGED <<mode, queue, numTasks, task, callVars, stopWork, lock,
                 takeVars, lapped>>

\* Faulty: never steals
PopEmptyOwn(w) ==
  /\ worker[w].pc = "pop" /\ lock = NumThread /\ IsEmpty(Victim(w))
  /\ IF FALSE
     THEN worker' = [worker EXCEPT ![w].tries = @ + 1]
     ELSE worker' = [worker EXCEPT ![w].pc = "top"]
  /\ UNCHANGED <<mode, queue, numTasks, task, callVars, stopWork, lock,
                 takeVars, lapped>>

\* Faulty: discounts before it knows that there is a task
PopEmptyCounted(w) ==
  /\ worker[w].pc = "pop" /\ lock = NumThread /\ IsEmpty(Victim(w))
  /\ IF mode.workStealing /\ worker[w].tries + 1 < NumThread
     THEN worker' = [worker EXCEPT ![w].tries = @ + 1]
     ELSE worker' = [worker EXCEPT ![w].pc = "top"]
  /\ numTasks' = (numTasks + CountMod - 1) % CountMod
  /\ UNCHANGED <<mode, queue, task, callVars, stopWork, lock,
                 takeVars, lapped>>

\* pop, under m_threadMutex, finds nothing: on to the next ring, where stealing is on
PopEmpty(w) ==
  /\ worker[w].pc = "pop" /\ lock = NumThread /\ IsEmpty(Victim(w))
  /\ IF mode.workStealing /\ worker[w].tries + 1 < NumThread
     THEN worker' = [worker EXCEPT ![w].tries = @ + 1]
     ELSE worker' = [worker EXCEPT ![w].pc = "top"]
  /\ UNCHANGED <<mode, queue, numTasks, task, callVars, stopWork, lock,
                 takeVars, lapped>>

\* Faulty: does not take m_threadMutex
PopHeadUnlocked(w) ==
  /\ worker[w].pc = "pop" /\ ~IsEmpty(Victim(w))
  /\ lock' = w
  /\ queue' = [queue EXCEPT ![Victim(w)].head = Following(@)]
  /\ worker' = [worker EXCEPT ![w].pc = "read"]
  /\ UNCHANGED <<mode, numTasks, task, callVars, stopWork,
                 takeVars, lapped>>

\* pop moves the head before it reads the element
PopHead(w) ==
  /\ worker[w].pc = "pop" /\ lock = NumThread /\ ~IsEmpty(Victim(w))
  /\ lock' = w
  /\ queue' = [queue EXCEPT ![Victim(w)].head = Following(@)]
  /\ worker' = [worker EXCEPT ![w].pc = "read"]
  /\ UNCHANGED <<mode, numTasks, task, callVars, stopWork,
                 takeVars, lapped>>

\* It reads the element; then the count goes down and the lock is released.  What
\* stays in the place it left is never read: the model forgets it.
PopRead(w) ==
  LET q == Victim(w)
  IN /\ worker[w].pc = "read"
     /\ worker' = [worker EXCEPT ![w].pc = "begin",
                                 ![w].slot = queue[q].data[Before(queue[q].head)]]
     /\ queue' = [queue EXCEPT ![q].data[Before(queue[q].head)] = NoSlot]
     /\ numTasks' = (numTasks + CountMod - 1) % CountMod
     /\ lock' = NumThread
     /\ UNCHANGED <<mode, task, callVars, stopWork,
                    takeVars, lapped>>

\* The thunk looks whether the result is still wanted.  A thunk that a lap has
\* cleared is a call through a null pointer: the program ends here.
Begin(w) ==
  LET t == task[worker[w].slot]
  IN /\ worker[w].pc = "begin" /\ t.thunk
     /\ worker' = [worker EXCEPT ![w].pc = IF t.disposed THEN "finish" ELSE "running",
                                 ![w].job = t.job]
     /\ UNCHANGED <<mode, queue, numTasks, task, callVars, stopWork, lock,
                    takeVars, lapped>>

\* The lambda returns and its result is set
SetResult(w) ==
  /\ worker[w].pc = "running"
  /\ task' = [task EXCEPT ![worker[w].slot].result = worker[w].job,
                          ![worker[w].slot].hasResult = TRUE]
  /\ worker' = [worker EXCEPT ![w].pc = "finish"]
  /\ UNCHANGED <<mode, queue, numTasks, callVars, stopWork, lock,
                 takeVars, lapped>>

Finish(w) ==
  /\ worker[w].pc = "finish"
  /\ task' = [task EXCEPT ![worker[w].slot].thunk = FALSE]
  /\ worker' = [worker EXCEPT ![w] = [pc |-> "top", tries |-> 0, slot |-> NoSlot, job |-> NoJob]]
  /\ UNCHANGED <<mode, queue, numTasks, callVars, stopWork, lock,
                 takeVars, lapped>>
-----------------------------------------------------------------------------
(* The thread that takes the results *)

\* A draw whose future is not valid is left out
TakeFuture ==
  LET f == Head(futures)
  IN /\ taker.pc = "idle" /\ futures # << >>
     /\ futures' = Tail(futures)
     /\ IF f = NoFuture \/ task[f.slot].disposed
        THEN UNCHANGED taker
        ELSE taker' = [pc |-> "get", future |-> f]
     /\ UNCHANGED <<mode, queue, numTasks, task, callVars, stopWork, lock,
                    worker, wrong, lapped>>

\* Result::get sees the result, disposes of it and moves it out
GetResult ==
  LET f == taker.future
  IN /\ taker.pc = "get" /\ task[f.slot].hasResult
     /\ task' = [task EXCEPT ![f.slot] = [Cancelled(@) EXCEPT !.result = NoJob]]
     /\ wrong' = IF task[f.slot].result = f.job THEN wrong ELSE wrong \cup {f.job}
     /\ taker' = [pc |-> "idle", future |-> NoFuture]
     /\ UNCHANGED <<mode, queue, numTasks, callVars, stopWork, lock,
                    worker, futures, lapped>>
-----------------------------------------------------------------------------
Calling == PushTail \/ Notify \/ Count

Destroying == StopNotify \/ Join \/ DrainOne \/ DrainDone

Popping(w) == PopEmpty(w) \/ PopHead(w)

Working(w) == WorkerTop(w) \/ PopRead(w) \/ Begin(w) \/ SetResult(w) \/ Finish(w)

Taking == TakeFuture \/ GetResult

Next ==
  \/ ScheduleCapture \/ HandOver \/ Drop \/ Cancel \/ Stop
  \/ Calling \/ Destroying \/ Taking
  \/ \E w \in Workers : Popping(w) \/ Working(w)

Spec == Init /\ [][Next]_vars

\* Threads run and tasks end.  A spinlock hands itself to no one in
\* particular; a worker that asks for ever is taken to get it now and then.
FairSpec ==
  /\ Spec
  /\ WF_vars(Calling) /\ WF_vars(Destroying) /\ WF_vars(Taking)
  /\ \A w \in Workers : WF_vars(Working(w)) /\ SF_vars(Popping(w))
-----------------------------------------------------------------------------
(* Properties *)

\* The type invariant
TypeOK ==
  /\ mode \in Modes
  /\ queue \in [Workers -> [head : Places, tail : Places, data : [Places -> Slots \cup {NoSlot}]]]
  /\ numTasks \in 0 .. CountMod - 1
  /\ task \in [Slots -> [job : Jobs \cup {NoJob}, thunk : BOOLEAN, result : Jobs \cup {NoJob},
                          hasResult : BOOLEAN, disposed : BOOLEAN]]
  /\ taskId \in 0 .. MaxTasks /\ schedulerIndex \in Workers /\ stopWork \in BOOLEAN
  /\ lock \in Workers \cup {NumThread}

\* Each ring is a FIFO queue, whatever the order in which its owner and thieves
\* take from it.  A pop gives the place up before it reads it (pop moves m_head
\* first); what keeps the producer off that place is that a ring keeps one
\* place free and that m_threadMutex lets one worker pop at a time.
RingsAreFifo ==
  [][\A q \in Workers :
       LET before == Contents(q) after == Contents(q)'
       IN \/ after = before
          \/ Len(after) <= NumTasksPerThread /\ \E s \in Slots : after = Append(before, s)
          \/ /\ before # << >> /\ after = Tail(before)
             /\ \/ \E w \in Workers : worker[w].pc = "read" /\ worker'[w].slot = Head(before)
                \/ caller.pc = "drain"
    ]_vars

\* A future delivers the result of its own task (Result::get, Future::get), as
\* long as the ring of task slots is not lapped: Schedule takes the next slot
\* without looking whether it is free.
OwnResult == wrong \subseteq lapped

\* m_numTasks is the number of queued tasks, but for the task that Schedule has
\* pushed and not counted and the task a worker took and has not discounted;
\* a worker that is faster than Schedule takes it below zero, to 2^32 - 1.
CountAgrees ==
  LET queued == { at \in Workers \X (1 .. NumTasksPerThread) : at[2] <= Length(at[1]) }
      early == IF caller.pc \in {"notify", "count"} THEN 1 ELSE 0
      late == Cardinality({ w \in Workers : worker[w].pc = "read" })
  IN (numTasks + early) % CountMod = (Cardinality(queued) + late) % CountMod

\* The slot of the task still has a lambda to dispatch
Waiting(j) == \E s \in Slots : task[s].job = j /\ task[s].thunk

Pushed(j) == taskId > j \/ (taskId = j /\ caller.pc \in {"hold", "idle"})

\* A worker calls the null thunk of a slot that was lapped
Crashed == \E w \in Workers : worker[w].pc = "begin" /\ ~task[worker[w].slot].thunk

Overtaken(j) == j \in lapped \/ stopWork \/ Crashed

\* The workers that could take a task sleep on m_condOnAdd although its condition
\* holds: Schedule notifies before it counts the task, so a worker can wake up,
\* see no task and sleep again.
WakeupMissed ==
  /\ numTasks > 0
  /\ IF mode.workStealing THEN Asleep = Workers ELSE \E w \in Asleep : ~IsEmpty(w)

\* The task was scheduled and its lambda still waits to be dispatched
Unserved(j) == Pushed(j) /\ Waiting(j) /\ ~Overtaken(j)

\* Again and again every task that was scheduled is done: none waits for ever,
\* unless the pool is destroyed first or the wake-up was missed (which cannot
\* happen in the low-latency mode).
TasksRun == []<>(WakeupMissed \/ \A j \in Jobs : ~Unserved(j))
==============================================================================
