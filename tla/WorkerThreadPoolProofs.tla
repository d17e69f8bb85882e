------------------------ MODULE WorkerThreadPoolProofs ------------------------
(***************************************************************************)
(* Proofs about the thread pool, for any number of workers, any size of    *)
(* the rings, any number of tasks and every combination of the template    *)
(* parameters.                                                             *)
(***************************************************************************)
EXTENDS WorkerThreadPool, FiniteSetTheorems, SequenceTheorems, TLAPS

Futures == {NoFuture} \cup [slot : Slots, job : Jobs]

Shapes ==
  /\ worker \in [Workers -> [pc : {"top", "asleep", "pop", "read", "begin", "running",
                                  "finish", "returned"},
                            tries : Nat, slot : Slots \cup {NoSlot}, job : Jobs \cup {NoJob}]]
  /\ caller \in [pc : {"idle", "tail", "notify", "count", "hold", "stop", "join", "drain",
                       "destroyed"},
                 thread : Workers, future : Futures]
  /\ taker \in [pc : {"idle", "get"}, future : Futures]
  /\ futures \in Seq(Futures)
  /\ caller.pc = "tail" => caller.future # NoFuture
  /\ caller.pc = "idle" => caller.future = NoFuture
  /\ taker.pc = "get" => taker.future # NoFuture
  /\ \A w \in Workers : worker[w].pc \in {"begin", "running", "finish"} => worker[w].slot \in Slots
  /\ caller.pc \in {"drain", "destroyed"} => \A w \in Workers : worker[w].pc = "returned"
  /\ \A w \in Workers : worker[w].pc = "read" <=> lock = w

\* The place p of a ring is taken
Taken(h, t, p) == IF h <= t THEN h <= p /\ p < t ELSE h <= p \/ p < t

\* Every place between a ring's indices holds a task, and so does the one that a
\* worker has given up and not read, and the one that is not yet published.
Placed ==
  /\ \A q \in Workers, p \in Places :
       Taken(queue[q].head, queue[q].tail, p) => queue[q].data[p] \in Slots
  /\ \A w \in Workers : worker[w].pc = "read" =>
       queue[Victim(w)].data[Before(queue[Victim(w)].head)] \in Slots
  /\ caller.pc = "tail" =>
       /\ Following(queue[caller.thread].tail) # queue[caller.thread].head
       /\ queue[caller.thread].data[queue[caller.thread].tail] \in Slots

\* A future on its way is one that is not valid, or its slot still has its
\* task, or the slot was given away.
Holds(f, t, l) == f = NoFuture \/ t[f.slot].job = f.job \/ f.job \in l
Owns(f) == Holds(f, task, lapped)

\* What a slot holds is the result of its task, and what a worker runs is the
\* task of its slot, or the slot's task is one that overtook another.
Owned ==
  /\ Owns(caller.future) /\ Owns(taker.future)
  /\ \A i \in DOMAIN futures : Owns(futures[i])
  /\ \A s \in Slots : task[s].hasResult =>
       task[s].result = task[s].job \/ task[s].job \in lapped
  /\ \A w \in Workers : worker[w].pc = "running" =>
       worker[w].job = task[worker[w].slot].job \/ task[worker[w].slot].job \in lapped
  /\ OwnResult

IInv == TypeOK /\ Shapes /\ Placed /\ Owned
-----------------------------------------------------------------------------
(* Places round a ring *)

LEMMA AfterAndBefore ==
  ASSUME NEW p \in Places
  PROVE  /\ Following(p) = IF p = NumTasksPerThread - 1 THEN 0 ELSE p + 1
         /\ Before(p) = IF p = 0 THEN NumTasksPerThread - 1 ELSE p - 1
         /\ Following(p) \in Places /\ Before(p) \in Places
  BY SizeAssumption DEF Places, Following, Before

\* How the taken places change as an index moves
LEMMA PlacesMove ==
  ASSUME NEW h \in Places, NEW t \in Places
  PROVE  /\ Before(Following(h)) = h
         /\ ~Taken(h, t, Before(h)) /\ ~Taken(h, t, t)
         /\ h # t => Taken(h, t, h) /\ Following(t) # Following(h)
         /\ h # t => \A p \in Places : Taken(Following(h), t, p) => Taken(h, t, p)
         /\ Following(t) # h => t # Before(h)
         /\ Following(t) # h =>
              \A p \in Places : Taken(h, Following(t), p) => Taken(h, t, p) \/ p = t
<1> USE SizeAssumption DEF Places, Taken
<1>1. /\ Following(h) = IF h = NumTasksPerThread - 1 THEN 0 ELSE h + 1
      /\ Before(h) = IF h = 0 THEN NumTasksPerThread - 1 ELSE h - 1
      /\ Following(t) = IF t = NumTasksPerThread - 1 THEN 0 ELSE t + 1
      /\ Following(h) \in Places
  BY AfterAndBefore
<1>2. Before(Following(h)) =
        IF Following(h) = 0 THEN NumTasksPerThread - 1 ELSE Following(h) - 1
  BY <1>1, AfterAndBefore
<1> QED
  BY <1>1, <1>2

LEMMA Indices ==
  \A n \in Nat : n % NumThread \in Workers /\ n % TaskCount \in Slots
  BY SizeAssumption DEF Workers, Slots

LEMMA VictimIsWorker ==
  ASSUME Shapes, NEW w \in Workers
  PROVE  Victim(w) \in Workers
<1>1. worker[w].tries \in Nat /\ w \in Nat
  BY SizeAssumption DEF Shapes, Workers
<1> QED
  BY <1>1, Indices DEF Victim

\* Where no worker gives a place up and nothing is pushed, the rings keep
LEMMA PlacedSame ==
  ASSUME Placed, UNCHANGED queue, caller'.pc = "tail" => caller' = caller,
         \A w \in Workers : worker'[w].pc = "read" =>
           worker[w].pc = "read" /\ worker'[w].tries = worker[w].tries
  PROVE  Placed'
<1>1. \A w \in Workers : worker'[w].pc = "read" => Victim(w)' = Victim(w)
  BY DEF Victim
<1> QED
  BY <1>1 DEF Placed

\* Where no slot is given away, the futures that stay on their way keep
LEMMA OwnedSame ==
  ASSUME Owned, UNCHANGED lapped, wrong' = wrong \/ wrong' \subseteq lapped',
         \A s \in Slots : /\ task'[s].job = task[s].job
                          /\ task'[s].hasResult => task[s].hasResult /\ task'[s].result = task[s].result,
         TypeOK, Shapes, Shapes',
         caller'.future \in {NoFuture, caller.future},
         taker'.future \in {NoFuture, taker.future} \cup { futures[i] : i \in DOMAIN futures },
         \A i \in DOMAIN futures' :
           futures'[i] = caller.future \/ \E k \in DOMAIN futures : futures'[i] = futures[k],
         \A w \in Workers : worker'[w].pc = "running" =>
           /\ worker'[w].slot = worker[w].slot
           /\ \/ worker[w].pc = "running" /\ worker'[w].job = worker[w].job
              \/ worker[w].slot \in Slots /\ worker'[w].job = task[worker[w].slot].job
  PROVE  Owned'
<1>1. ASSUME NEW f \in Futures, Owns(f) PROVE Holds(f, task', lapped')
  <2>1. f = NoFuture \/ f.slot \in Slots
    BY DEF Futures
  <2>2. f.slot \in Slots => task'[f.slot].job = task[f.slot].job
    OBVIOUS
  <2> QED
    BY <1>1, <2>1, <2>2 DEF Owns, Holds
<1>2. /\ caller.future \in Futures /\ taker.future \in Futures
      /\ \A i \in DOMAIN futures : futures[i] \in Futures
  BY DEF Shapes
<1>3. Holds(NoFuture, task', lapped')
  BY DEF Holds
<1>4. /\ Holds(caller.future, task', lapped') /\ Holds(taker.future, task', lapped')
      /\ \A i \in DOMAIN futures : Holds(futures[i], task', lapped')
  BY <1>1, <1>2 DEF Owned
<1>5. /\ Holds(caller'.future, task', lapped') /\ Holds(taker'.future, task', lapped')
      /\ \A i \in DOMAIN futures' : Holds(futures'[i], task', lapped')
  BY <1>3, <1>4
<1>6. \A s \in Slots : task'[s].hasResult =>
        task'[s].result = task'[s].job \/ task'[s].job \in lapped'
  BY DEF Owned
<1>7. \A w \in Workers : worker'[w].pc = "running" =>
        worker'[w].job = task'[worker'[w].slot].job \/ task'[worker'[w].slot].job \in lapped'
  <2>1. \A w \in Workers : worker[w].pc = "running" => worker[w].slot \in Slots
    BY DEF Shapes
  <2> QED
    BY <2>1 DEF Owned
<1> QED
  BY <1>5, <1>6, <1>7 DEF Owned, OwnResult, Owns
-----------------------------------------------------------------------------
(* The scheduling thread *)

LEMMA CallerKeeps ==
  ASSUME IInv,
         Notify \/ Count \/ HandOver \/ Drop \/ Stop \/ StopNotify \/ Join \/ DrainDone
  PROVE  IInv'
<1> USE DEF takeVars
<1>1. UNCHANGED <<mode, queue, task, taskId, schedulerIndex, lock, taker, wrong, lapped>>
  BY DEF Notify, Count, HandOver, Drop, Stop, StopNotify, Join, DrainDone
<1>2. /\ caller' \in [pc : {"count", "hold", "idle", "join", "stop", "drain", "destroyed"},
                      thread : Workers, future : Futures]
      /\ caller'.future \in {NoFuture, caller.future}
      /\ caller'.pc = "idle" => caller'.future = NoFuture
      /\ caller'.pc \in {"drain", "destroyed"} =>
           /\ UNCHANGED worker
           /\ \A w \in Workers : worker[w].pc = "returned"
  <2>1. /\ caller \in [pc : {"idle", "tail", "notify", "count", "hold", "stop", "join", "drain",
                           "destroyed"}, thread : Workers, future : Futures]
        /\ NoFuture \in Futures
        /\ caller.pc = "idle" => caller.future = NoFuture
        /\ caller.pc = "drain" => \A w \in Workers : worker[w].pc = "returned"
    BY DEF IInv, Shapes, Futures
  <2>2. CASE Notify \/ Count \/ Stop \/ StopNotify
    BY <2>1, <2>2 DEF Notify, Count, Stop, StopNotify
  <2>3. CASE HandOver \/ Drop
    <3>1. caller' = [caller EXCEPT !.pc = "idle", !.future = NoFuture]
      BY <2>3 DEF HandOver, Drop
    <3>2. caller.thread \in Workers
      BY <2>1
    <3>3. caller' = [pc |-> "idle", thread |-> caller.thread, future |-> NoFuture]
      BY <2>1, <3>1
    <3> QED
      BY <2>1, <3>2, <3>3
  <2>4. CASE Join \/ DrainDone
    BY <2>1, <2>4 DEF Join, DrainDone
  <2> QED
    BY <2>2, <2>3, <2>4
<1>3. /\ worker' \in [Workers -> [pc : {"top", "asleep", "pop", "read", "begin", "running",
                                       "finish", "returned"},
                                 tries : Nat, slot : Slots \cup {NoSlot}, job : Jobs \cup {NoJob}]]
      /\ \A w \in Workers :
           \/ worker'[w] = worker[w]
           \/ worker[w].pc = "asleep" /\ worker'[w].pc = "top"
  <2>1. UNCHANGED worker \/ \E W \in SUBSET Asleep : Wake(W)
    BY DEF Notify, Count, HandOver, Drop, Stop, StopNotify, Join, DrainDone, Asleep
  <2>2. ASSUME NEW W \in SUBSET Asleep, Wake(W), NEW w \in Workers
        PROVE  \/ worker'[w] = worker[w]
               \/ worker[w].pc = "asleep" /\ worker'[w] = [worker[w] EXCEPT !.pc = "top"]
    BY <2>2 DEF Wake, Asleep
  <2>3. (\E W \in SUBSET Asleep : Wake(W)) => worker' = [w \in Workers |-> worker'[w]]
    BY DEF Wake
  <2> DEFINE Type == [pc : {"top", "asleep", "pop", "read", "begin", "running", "finish", "returned"},
                      tries : Nat, slot : Slots \cup {NoSlot}, job : Jobs \cup {NoJob}]
  <2>4. worker \in [Workers -> Type]
    BY DEF IInv, Shapes
  <2>5. \A w \in Workers : 
          /\ worker'[w] \in Type
          /\ \/ worker'[w] = worker[w]
             \/ worker[w].pc = "asleep" /\ worker'[w].pc = "top"
    <3>1. \A r \in Type : [r EXCEPT !.pc = "top"] \in Type /\ [r EXCEPT !.pc = "top"].pc = "top"
      OBVIOUS
    <3> HIDE DEF Type
    <3>2. \A w \in Workers :
            \/ worker'[w] = worker[w]
            \/ worker[w].pc = "asleep" /\ worker'[w] = [worker[w] EXCEPT !.pc = "top"]
      BY <2>1, <2>2, Zenon
    <3>3. \A w \in Workers : worker[w] \in Type
      BY <2>4
    <3>4. \A w \in Workers : /\ [worker[w] EXCEPT !.pc = "top"] \in Type
                             /\ [worker[w] EXCEPT !.pc = "top"].pc = "top"
      BY <3>1, <3>3, Zenon
    <3> QED
      BY <3>2, <3>3, <3>4, Zenon
  <2> HIDE DEF Type
  <2>6. worker' \in [Workers -> Type]
    BY <2>1, <2>3, <2>4, <2>5
  <2> QED
    BY <2>5, <2>6 DEF Type
<1>4. /\ futures' \in Seq(Futures)
      /\ \A i \in DOMAIN futures' :
           futures'[i] = caller.future \/ \E k \in DOMAIN futures : futures'[i] = futures[k]
  <2>1. futures \in Seq(Futures) /\ caller.future \in Futures
    BY DEF IInv, Shapes
  <2>2. futures' = futures \/ futures' = Append(futures, caller.future)
    BY DEF Notify, Count, HandOver, Drop, Stop, StopNotify, Join, DrainDone
  <2> QED
    BY <2>1, <2>2
<1>5. numTasks' \in 0 .. CountMod - 1 /\ stopWork' \in BOOLEAN
  <2>1. \/ numTasks' = numTasks
        \/ numTasks' = (numTasks + 1) % CountMod
    BY DEF Notify, Count, HandOver, Drop, Stop, StopNotify, Join, DrainDone
  <2>2. numTasks \in 0 .. CountMod - 1 /\ stopWork \in BOOLEAN
    BY DEF IInv, TypeOK
  <2>3. (numTasks + 1) % CountMod \in 0 .. CountMod - 1
    BY <2>2, SizeAssumption
  <2>4. stopWork' = stopWork \/ stopWork' = TRUE
    BY DEF Notify, Count, HandOver, Drop, Stop, StopNotify, Join, DrainDone
  <2> QED
    BY <2>1, <2>2, <2>3, <2>4
<1>6. TypeOK'
  BY <1>1, <1>5 DEF IInv, TypeOK
<1>7. Shapes'
  <2>1. \A w \in Workers : worker'[w].pc = "read" <=> lock' = w
    BY <1>1, <1>3 DEF IInv, Shapes
  <2>2. \A w \in Workers : worker'[w].pc \in {"begin", "running", "finish"} =>
          worker'[w].slot \in Slots
    BY <1>3 DEF IInv, Shapes
  <2>3. caller'.pc # "tail"
    BY <1>2
  <2> QED
    BY <1>1, <1>2, <1>3, <1>4, <2>1, <2>2, <2>3 DEF IInv, Shapes
<1>8. Placed'
  BY <1>1, <1>2, <1>3, PlacedSame DEF IInv
<1>9. Owned'
  <2>1. \A w \in Workers : worker'[w].pc = "running" => worker'[w] = worker[w]
    BY <1>3
  <2> QED
    BY <1>1, <1>2, <1>4, <1>7, <2>1, OwnedSame DEF IInv
<1> QED
  BY <1>6, <1>7, <1>8, <1>9 DEF IInv

LEMMA ScheduleKeeps ==
  ASSUME IInv, ScheduleCapture
  PROVE  IInv'
<1> DEFINE q == schedulerIndex % NumThread
           s == taskId % TaskCount
           full == [pc |-> "hold", thread |-> q, future |-> NoFuture]
           given == [pc |-> "tail", thread |-> q, future |-> [slot |-> s, job |-> taskId + 1]]
<1>1. caller.pc = "idle" /\ caller.future = NoFuture /\ q \in Workers /\ s \in Slots
      /\ taskId + 1 \in Jobs /\ taskId + 1 \in 0 .. MaxTasks
  <2>1. caller.pc = "idle" /\ taskId < MaxTasks /\ taskId \in Nat /\ schedulerIndex \in Nat
    BY SizeAssumption DEF ScheduleCapture, IInv, TypeOK, Workers
  <2>2. q \in Workers /\ s \in Slots
    BY <2>1, Indices
  <2>3. taskId + 1 \in Jobs /\ taskId + 1 \in 0 .. MaxTasks
    BY <2>1, SizeAssumption DEF Jobs
  <2> QED
    BY <2>1, <2>2, <2>3 DEF IInv, Shapes
<1>2. schedulerIndex' \in Workers
  <2>1. schedulerIndex + 1 \in Nat
    BY SizeAssumption DEF IInv, TypeOK, Workers
  <2> QED
    BY <2>1, Indices DEF ScheduleCapture
<1>3. UNCHANGED <<mode, numTasks, stopWork, lock, worker, futures, taker, wrong>>
  BY DEF ScheduleCapture, takeVars
<1>4. \/ caller' = full /\ UNCHANGED <<taskId, task, lapped, queue>>
      \/ /\ ~IsFull(q) /\ taskId' = taskId + 1 /\ Capture(s, taskId + 1)
         /\ queue' = [queue EXCEPT ![q].data[queue[q].tail] = s] /\ caller' = given
  BY DEF ScheduleCapture
<1>5. full \in [pc : {"hold"}, thread : Workers, future : Futures]
      /\ given \in [pc : {"tail"}, thread : Workers, future : Futures]
      /\ given.future # NoFuture /\ full.future = NoFuture
  BY <1>1, SizeAssumption DEF Futures, NoFuture, NoSlot, Slots
<1> HIDE DEF q, s
<1>6. CASE caller' = full /\ UNCHANGED <<taskId, task, lapped, queue>>
  <2>1. TypeOK'
    BY <1>2, <1>3, <1>6 DEF IInv, TypeOK
  <2>2. Shapes'
    BY <1>3, <1>5, <1>6 DEF IInv, Shapes
  <2>3. Placed'
    BY <1>3, <1>6, PlacedSame DEF IInv
  <2>4. Owned'
    BY <1>3, <1>6, <2>2, OwnedSame DEF IInv
  <2> QED
    BY <2>1, <2>2, <2>3, <2>4 DEF IInv
<1>7. CASE /\ ~IsFull(q) /\ taskId' = taskId + 1 /\ Capture(s, taskId + 1)
           /\ queue' = [queue EXCEPT ![q].data[queue[q].tail] = s] /\ caller' = given
  <2>1. /\ task'[s] = [job |-> taskId + 1, thunk |-> TRUE, result |-> task[s].result,
                       hasResult |-> FALSE, disposed |-> FALSE]
        /\ \A x \in Slots \ {s} : task'[x] = task[x]
        /\ task' \in [Slots -> [job : Jobs \cup {NoJob}, thunk : BOOLEAN,
                                result : Jobs \cup {NoJob}, hasResult : BOOLEAN, disposed : BOOLEAN]]
    BY <1>1, <1>7 DEF Capture, IInv, TypeOK
  <2>2. /\ queue' \in [Workers -> [head : Places, tail : Places, data : [Places -> Slots \cup {NoSlot}]]]
        /\ \A x \in Workers : queue'[x].head = queue[x].head /\ queue'[x].tail = queue[x].tail
        /\ \A x \in Workers \ {q} : queue'[x] = queue[x]
        /\ \A p \in Places : p # queue[q].tail => queue'[q].data[p] = queue[q].data[p]
        /\ queue'[q].data[queue[q].tail] = s
    BY <1>1, <1>7 DEF IInv, TypeOK
  <2>3. TypeOK'
    BY <1>1, <1>2, <1>3, <1>7, <2>1, <2>2 DEF IInv, TypeOK
  <2>4. Shapes'
    BY <1>3, <1>5, <1>7 DEF IInv, Shapes
  <2>5. Placed'
    <3>1. queue[q].head \in Places /\ queue[q].tail \in Places
          /\ Following(queue[q].tail) # queue[q].head
      BY <1>1, <1>7 DEF IInv, TypeOK, IsFull
    <3>2. \A x \in Workers, p \in Places :
            Taken(queue'[x].head, queue'[x].tail, p) => queue'[x].data[p] \in Slots
      BY <1>1, <2>2, <3>1, PlacesMove DEF IInv, Placed
    <3>3. \A w \in Workers : worker'[w].pc = "read" =>
            queue'[Victim(w)].data[Before(queue'[Victim(w)].head)] \in Slots
      <4> SUFFICES ASSUME NEW w \in Workers, worker[w].pc = "read"
                   PROVE  queue'[Victim(w)].data[Before(queue'[Victim(w)].head)] \in Slots
        BY <1>3
      <4>1. Victim(w) \in Workers /\ queue[Victim(w)].data[Before(queue[Victim(w)].head)] \in Slots
        BY VictimIsWorker DEF IInv, Placed
      <4>2. Before(queue[q].head) # queue[q].tail /\ Before(queue[q].head) \in Places
        BY <3>1, PlacesMove, AfterAndBefore
      <4> QED
        BY <2>2, <4>1, <4>2
    <3>4. \A w \in Workers : Victim(w)' = Victim(w)
      BY <1>3 DEF Victim
    <3>5. caller'.thread = q /\ Following(queue'[q].tail) # queue'[q].head
          /\ queue'[q].data[queue'[q].tail] \in Slots
      BY <1>1, <1>7, <2>2, <3>1
    <3> QED
      BY <3>2, <3>3, <3>4, <3>5 DEF Placed
  <2>6. Owned'
    <3>1. /\ lapped \subseteq lapped'
          /\ InUse(s) => taskId + 1 \in lapped'
          /\ {task[s].job} \cap Unasked \subseteq lapped'
      BY <1>7 DEF Capture
    <3>2. ASSUME NEW f \in Futures, Owns(f), f.job \in Unasked
          PROVE  Holds(f, task', lapped')
      <4>1. f = NoFuture \/ f.slot \in Slots
        BY DEF Futures
      <4> QED
        BY <2>1, <3>1, <3>2, <4>1 DEF Owns, Holds
    <3>3. /\ taker.future \in Futures /\ taker.future.job \in Unasked
          /\ \A i \in DOMAIN futures : futures[i] \in Futures /\ futures[i].job \in Unasked
      BY DEF IInv, Shapes, Unasked
    <3>4. /\ Holds(taker'.future, task', lapped')
          /\ \A i \in DOMAIN futures' : Holds(futures'[i], task', lapped')
      BY <1>3, <3>2, <3>3 DEF IInv, Owned
    <3>5. Holds(caller'.future, task', lapped')
      BY <1>7, <2>1 DEF Holds
    <3>6. \A x \in Slots : task'[x].hasResult =>
            task'[x].result = task'[x].job \/ task'[x].job \in lapped'
      BY <2>1, <3>1 DEF IInv, Owned
    <3>7. \A w \in Workers : worker[w].pc = "running" =>
            worker[w].job = task'[worker[w].slot].job \/ task'[worker[w].slot].job \in lapped'
      <4>1. \A w \in Workers : worker[w].slot = s => InUse(s)
        BY DEF InUse
      <4>2. \A w \in Workers : worker[w].pc = "running" => worker[w].slot \in Slots
        BY DEF IInv, Shapes
      <4> QED
        BY <2>1, <3>1, <4>1, <4>2 DEF IInv, Owned
    <3>8. wrong' \subseteq lapped'
      BY <1>3, <3>1 DEF IInv, Owned, OwnResult
    <3> QED
      BY <1>3, <3>4, <3>5, <3>6, <3>7, <3>8 DEF Owned, Owns, OwnResult
  <2> QED
    BY <2>3, <2>4, <2>5, <2>6 DEF IInv
<1> QED
  BY <1>4, <1>6, <1>7

LEMMA PushTailKeeps ==
  ASSUME IInv, PushTail
  PROVE  IInv'
<1> DEFINE q == caller.thread
<1>1. UNCHANGED <<mode, numTasks, task, taskId, schedulerIndex, stopWork, lock, worker, futures,
                  taker, wrong, lapped>>
      /\ caller.pc = "tail" /\ q \in Workers
  BY DEF PushTail, takeVars, IInv, Shapes
<1>2. /\ caller' \in [pc : {"count", "notify"}, thread : Workers, future : Futures]
      /\ caller'.future = caller.future
  BY DEF PushTail, IInv, Shapes
<1>3. queue[q].head \in Places /\ queue[q].tail \in Places
  BY <1>1 DEF IInv, TypeOK
<1>4. /\ Following(queue[q].tail) # queue[q].head
      /\ queue[q].data[queue[q].tail] \in Slots
  BY <1>1 DEF IInv, Placed
<1>5. Following(queue[q].tail) \in Places
  BY <1>3, AfterAndBefore
<1>6. /\ queue' \in [Workers -> [head : Places, tail : Places, data : [Places -> Slots \cup {NoSlot}]]]
      /\ \A x \in Workers : queue'[x].head = queue[x].head /\ queue'[x].data = queue[x].data
      /\ \A x \in Workers \ {q} : queue'[x].tail = queue[x].tail
      /\ queue'[q].tail = Following(queue[q].tail)
  BY <1>1, <1>5 DEF PushTail, IInv, TypeOK
<1> HIDE DEF q
<1>7. TypeOK'
  BY <1>1, <1>6 DEF IInv, TypeOK
<1>8. Shapes'
  BY <1>1, <1>2 DEF IInv, Shapes
<1>9. Placed'
  <2>1. \A x \in Workers, p \in Places :
          Taken(queue'[x].head, queue'[x].tail, p) => queue'[x].data[p] \in Slots
    BY <1>3, <1>4, <1>6, PlacesMove DEF IInv, Placed
  <2>2. \A w \in Workers : Victim(w)' = Victim(w)
    BY <1>1 DEF Victim
  <2>3. \A w \in Workers : worker'[w].pc = "read" =>
          queue'[Victim(w)].data[Before(queue'[Victim(w)].head)] \in Slots
    BY <1>1, <1>6, VictimIsWorker DEF IInv, Placed
  <2> QED
    BY <1>2, <2>1, <2>2, <2>3 DEF Placed
<1>10. Owned'
  BY <1>1, <1>2, <1>8, OwnedSame DEF IInv
<1> QED
  BY <1>7, <1>8, <1>9, <1>10 DEF IInv

LEMMA CancelKeeps ==
  ASSUME IInv, Cancel
  PROVE  IInv'
<1>1. UNCHANGED <<mode, queue, numTasks, taskId, schedulerIndex, stopWork, lock, worker, futures,
                  taker, wrong, lapped>>
  BY DEF Cancel, takeVars
<1>2. caller' \in [pc : {"idle"}, thread : Workers, future : {NoFuture}]
  BY DEF Cancel, IInv, Shapes
<1>3. /\ task' \in [Slots -> [job : Jobs \cup {NoJob}, thunk : BOOLEAN,
                              result : Jobs \cup {NoJob}, hasResult : BOOLEAN, disposed : BOOLEAN]]
      /\ \A s \in Slots :
           /\ task'[s].job = task[s].job
           /\ task'[s].hasResult => task[s].hasResult /\ task'[s].result = task[s].result
  BY ZenonT(40) DEF Cancel, Cancelled, IInv, TypeOK
<1>4. NoFuture \in Futures
  BY DEF Futures
<1>5. TypeOK'
  BY <1>1, <1>3 DEF IInv, TypeOK
<1>6. Shapes'
  BY <1>1, <1>2, <1>4 DEF IInv, Shapes
<1>7. Placed'
  BY <1>1, <1>2, PlacedSame DEF IInv
<1>8. Owned'
  BY <1>1, <1>2, <1>3, <1>6, OwnedSame DEF IInv
<1> QED
  BY <1>5, <1>6, <1>7, <1>8 DEF IInv

LEMMA DrainKeeps ==
  ASSUME IInv, DrainOne
  PROVE  IInv'
<1>1. UNCHANGED <<mode, taskId, schedulerIndex, stopWork, lock, worker, caller, futures, taker,
                  wrong, lapped>>
      /\ caller.pc = "drain" /\ \A w \in Workers : worker[w].pc = "returned"
  BY DEF DrainOne, takeVars, IInv, Shapes
<1>2. PICK q \in Workers :
        /\ queue[q].head # queue[q].tail
        /\ queue' = [queue EXCEPT ![q].head = Following(@)]
        /\ task' = [task EXCEPT ![queue[q].data[queue[q].head]] = [Cancelled(@) EXCEPT !.thunk = FALSE]]
  BY DEF DrainOne, IsEmpty
<1>3. queue[q].head \in Places /\ queue[q].tail \in Places /\ Following(queue[q].head) \in Places
  BY AfterAndBefore DEF IInv, TypeOK
<1>4. /\ queue' \in [Workers -> [head : Places, tail : Places, data : [Places -> Slots \cup {NoSlot}]]]
      /\ \A x \in Workers : queue'[x].tail = queue[x].tail /\ queue'[x].data = queue[x].data
      /\ \A x \in Workers \ {q} : queue'[x].head = queue[x].head
      /\ queue'[q].head = Following(queue[q].head)
  BY <1>2, <1>3 DEF IInv, TypeOK
<1>5. /\ task' \in [Slots -> [job : Jobs \cup {NoJob}, thunk : BOOLEAN,
                              result : Jobs \cup {NoJob}, hasResult : BOOLEAN, disposed : BOOLEAN]]
      /\ \A s \in Slots :
           /\ task'[s].job = task[s].job
           /\ task'[s].hasResult => task[s].hasResult /\ task'[s].result = task[s].result
  <2> DEFINE s == queue[q].data[queue[q].head]
             Type == [job : Jobs \cup {NoJob}, thunk : BOOLEAN, result : Jobs \cup {NoJob},
                      hasResult : BOOLEAN, disposed : BOOLEAN]
             gone == [task[s] EXCEPT !.hasResult = FALSE, !.disposed = TRUE, !.thunk = FALSE]
  <2>1. task \in [Slots -> Type]
    BY DEF IInv, TypeOK
  <2>2. s \in Slots => gone \in Type /\ gone.job = task[s].job /\ ~gone.hasResult
    BY <2>1, ZenonT(40)
  <2>3. task' = [task EXCEPT ![s] = gone]
    BY <1>2, <2>1 DEF Cancelled
  <2> HIDE DEF s, gone, Type
  <2>4. task' \in [Slots -> Type]
    BY <2>1, <2>2, <2>3
  <2>5. \A x \in Slots : task'[x] = IF x = s THEN gone ELSE task[x]
    BY <2>1, <2>3
  <2> QED
    BY <2>2, <2>4, <2>5 DEF Type
<1>6. numTasks' \in 0 .. CountMod - 1
  <2>1. numTasks + CountMod - 1 \in Nat
    BY SizeAssumption DEF IInv, TypeOK
  <2>2. (numTasks + CountMod - 1) % CountMod \in 0 .. CountMod - 1
    BY <2>1, SizeAssumption
  <2> QED
    BY <2>2 DEF DrainOne
<1>7. TypeOK'
  BY <1>1, <1>4, <1>5, <1>6 DEF IInv, TypeOK
<1>8. Shapes'
  BY <1>1 DEF IInv, Shapes
<1>9. Placed'
  <2>1. \A x \in Workers, p \in Places :
          Taken(queue'[x].head, queue'[x].tail, p) => queue'[x].data[p] \in Slots
    BY <1>2, <1>3, <1>4, PlacesMove DEF IInv, Placed
  <2> QED
    BY <1>1, <2>1 DEF Placed
<1>10. Owned'
  BY <1>1, <1>5, <1>8, OwnedSame DEF IInv
<1> QED
  BY <1>7, <1>8, <1>9, <1>10 DEF IInv

-----------------------------------------------------------------------------
(* The workers *)

LEMMA LookingKeeps ==
  ASSUME IInv, NEW w \in Workers, WorkerTop(w) \/ PopEmpty(w) \/ Begin(w)
  PROVE  IInv'
<1> DEFINE Type == [pc : {"top", "asleep", "pop", "read", "begin", "running", "finish", "returned"},
                    tries : Nat, slot : Slots \cup {NoSlot}, job : Jobs \cup {NoJob}]
<1>1. UNCHANGED <<mode, queue, numTasks, task, taskId, schedulerIndex, caller, stopWork, lock,
                  futures, taker, wrong, lapped>>
  BY DEF WorkerTop, PopEmpty, Begin, takeVars, callVars
<1>2. worker \in [Workers -> Type] /\ worker[w].pc \in {"top", "pop", "begin"}
      /\ (worker[w].pc = "begin" => worker[w].slot \in Slots)
  BY DEF IInv, Shapes, WorkerTop, PopEmpty, Begin
<1>3. /\ worker' \in [Workers -> Type]
      /\ \A x \in Workers \ {w} : worker'[x] = worker[x]
      /\ worker'[w].slot = worker[w].slot
      /\ worker'[w].pc \in {"asleep", "returned", "pop", "top", "finish", "running"}
      /\ worker'[w].pc \in {"finish", "running"} => worker[w].slot \in Slots
      /\ worker'[w].pc = "running" => worker'[w].job = task[worker[w].slot].job
  <2>1. CASE WorkerTop(w)
    BY <1>2, <2>1 DEF WorkerTop
  <2>2. CASE PopEmpty(w)
    BY <1>2, <2>2 DEF PopEmpty
  <2>3. CASE Begin(w)
    <3>1. worker[w].slot \in Slots /\ task[worker[w].slot].job \in Jobs \cup {NoJob}
      BY <2>3 DEF Begin, IInv, Shapes, TypeOK
    <3>2. /\ worker' = [worker EXCEPT ![w].pc = worker'[w].pc,
                                      ![w].job = task[worker[w].slot].job]
          /\ worker'[w].pc \in {"finish", "running"}
      <4>1. \E pc \in {"finish", "running"} :
              worker' = [worker EXCEPT ![w].pc = pc, ![w].job = task[worker[w].slot].job]
        BY <2>3 DEF Begin
      <4> QED
        BY <1>2, <4>1
    <3> QED
      BY <1>2, <3>1, <3>2
  <2> QED
    BY <2>1, <2>2, <2>3
<1>4. TypeOK'
  BY <1>1 DEF IInv, TypeOK
<1>5. Shapes'
  <2>1. \A x \in Workers : worker'[x].pc = "read" <=> lock' = x
    <3>1. worker[w].pc # "read" /\ worker'[w].pc # "read"
      BY <1>2, <1>3
    <3>2. \A x \in Workers : worker[x].pc = "read" <=> lock = x
      BY DEF IInv, Shapes
    <3> QED
      BY <1>1, <1>3, <3>1, <3>2
  <2>2. \A x \in Workers : worker'[x].pc \in {"begin", "running", "finish"} => worker'[x].slot \in Slots
    BY <1>2, <1>3 DEF IInv, Shapes
  <2>3. caller'.pc \notin {"drain", "destroyed"}
    BY <1>1, <1>2 DEF IInv, Shapes
  <2> QED
    BY <1>1, <1>3, <2>1, <2>2, <2>3 DEF IInv, Shapes
<1>6. Placed'
  <2>1. \A x \in Workers : worker'[x].pc = "read" => worker'[x] = worker[x]
    BY <1>3
  <2> QED
    BY <1>1, <2>1, PlacedSame DEF IInv
<1>7. Owned'
  <2>1. \A x \in Workers : worker'[x].pc = "running" =>
          /\ worker'[x].slot = worker[x].slot
          /\ \/ worker[x].pc = "running" /\ worker'[x].job = worker[x].job
             \/ worker[x].slot \in Slots /\ worker'[x].job = task[worker[x].slot].job
    BY <1>3
  <2> QED
    BY <1>1, <1>5, <2>1, OwnedSame DEF IInv
<1> QED
  BY <1>4, <1>5, <1>6, <1>7 DEF IInv

LEMMA PopHeadKeeps ==
  ASSUME IInv, NEW w \in Workers, PopHead(w)
  PROVE  IInv'
<1> DEFINE q == Victim(w)
<1>1. UNCHANGED <<mode, numTasks, task, taskId, schedulerIndex, caller, stopWork,
                  futures, taker, wrong, lapped>>
      /\ worker[w].pc = "pop" /\ lock = NumThread /\ lock' = w /\ q \in Workers
      /\ queue[q].head # queue[q].tail
  BY VictimIsWorker DEF PopHead, IsEmpty, takeVars, callVars, IInv
<1>2. queue[q].head \in Places /\ queue[q].tail \in Places /\ Following(queue[q].head) \in Places
  BY <1>1, AfterAndBefore DEF IInv, TypeOK
<1>3. /\ queue' \in [Workers -> [head : Places, tail : Places, data : [Places -> Slots \cup {NoSlot}]]]
      /\ \A x \in Workers : queue'[x].tail = queue[x].tail /\ queue'[x].data = queue[x].data
      /\ \A x \in Workers \ {q} : queue'[x].head = queue[x].head
      /\ queue'[q].head = Following(queue[q].head)
  BY <1>1, <1>2 DEF PopHead, IInv, TypeOK
<1>4. worker' = [worker EXCEPT ![w].pc = "read"]
  BY DEF PopHead
<1>5. \A x \in Workers : worker[x].pc # "read"
  BY <1>1, SizeAssumption DEF IInv, Shapes, Workers
<1> HIDE DEF q
<1>6. /\ worker' \in [Workers -> [pc : {"top", "asleep", "pop", "read", "begin", "running",
                                       "finish", "returned"},
                                 tries : Nat, slot : Slots \cup {NoSlot}, job : Jobs \cup {NoJob}]]
      /\ \A x \in Workers \ {w} : worker'[x] = worker[x]
      /\ worker'[w].pc = "read" /\ worker'[w].tries = worker[w].tries
  BY <1>4, ZenonT(40) DEF IInv, Shapes
<1>7. TypeOK'
  BY <1>1, <1>3 DEF IInv, TypeOK
<1>8. Shapes'
  <2>1. caller.pc \notin {"drain", "destroyed"}
    BY <1>1 DEF IInv, Shapes
  <2>2. \A x \in Workers : worker'[x].pc = "read" <=> lock' = x
    BY <1>1, <1>5, <1>6
  <2>3. \A x \in Workers : worker'[x].pc \in {"begin", "running", "finish"} => worker'[x].slot \in Slots
    BY <1>6 DEF IInv, Shapes
  <2> QED
    BY <1>1, <1>6, <2>1, <2>2, <2>3 DEF IInv, Shapes
<1>9. Placed'
  <2>1. \A x \in Workers, p \in Places :
          Taken(queue'[x].head, queue'[x].tail, p) => queue'[x].data[p] \in Slots
    <3>1. \A p \in Places : Taken(Following(queue[q].head), queue[q].tail, p)
                            => Taken(queue[q].head, queue[q].tail, p)
      BY <1>1, <1>2, PlacesMove
    <3>2. \A x \in Workers, p \in Places :
            Taken(queue[x].head, queue[x].tail, p) => queue[x].data[p] \in Slots
      BY DEF IInv, Placed
    <3> QED
      BY <1>1, <1>3, <3>1, <3>2
  <2>2. queue'[q].data[Before(queue'[q].head)] \in Slots
    BY <1>1, <1>2, <1>3, PlacesMove DEF IInv, Placed
  <2>3. Victim(w)' = q /\ \A x \in Workers : worker'[x].pc = "read" => x = w
    BY <1>5, <1>6 DEF Victim, q
  <2>4. caller.pc = "tail" => Following(queue[caller.thread].tail) # queue'[caller.thread].head
    <3>1. caller.pc = "tail" => caller.thread \in Workers
                                /\ Following(queue[caller.thread].tail) # queue[caller.thread].head
      BY DEF IInv, Shapes, Placed
    <3>2. Following(queue[q].tail) # Following(queue[q].head)
      BY <1>1, <1>2, PlacesMove
    <3> QED
      BY <1>1, <1>3, <3>1, <3>2
  <2>5. caller.pc = "tail" => caller.thread \in Workers
    BY DEF IInv, Shapes
  <2> QED
    BY <1>1, <1>3, <2>1, <2>2, <2>3, <2>4, <2>5 DEF IInv, Placed
<1>10. Owned'
  <2>1. \A x \in Workers : worker'[x].pc = "running" => worker'[x] = worker[x]
    BY <1>6
  <2> QED
    BY <1>1, <1>8, <2>1, OwnedSame DEF IInv
<1> QED
  BY <1>7, <1>8, <1>9, <1>10 DEF IInv

LEMMA PopReadKeeps ==
  ASSUME IInv, NEW w \in Workers, PopRead(w)
  PROVE  IInv'
<1> DEFINE q == Victim(w)
           b == Before(queue[q].head)
<1>1. UNCHANGED <<mode, task, taskId, schedulerIndex, caller, stopWork,
                  futures, taker, wrong, lapped>>
      /\ worker[w].pc = "read" /\ lock' = NumThread /\ q \in Workers
      /\ queue[q].data[b] \in Slots
  BY VictimIsWorker DEF PopRead, takeVars, callVars, IInv, Placed
<1>2. queue[q].head \in Places /\ queue[q].tail \in Places /\ b \in Places
  BY <1>1, AfterAndBefore DEF IInv, TypeOK
<1>3. worker' = [worker EXCEPT ![w].pc = "begin", ![w].slot = queue[q].data[b]]
      /\ queue' = [queue EXCEPT ![q].data[b] = NoSlot]
  BY DEF PopRead
<1> HIDE DEF b
<1>4. /\ queue' \in [Workers -> [head : Places, tail : Places, data : [Places -> Slots \cup {NoSlot}]]]
      /\ \A x \in Workers : queue'[x].tail = queue[x].tail /\ queue'[x].head = queue[x].head
      /\ \A x \in Workers \ {q} : queue'[x].data = queue[x].data
      /\ \A p \in Places \ {b} : queue'[q].data[p] = queue[q].data[p]
  BY <1>1, <1>2, <1>3, ZenonT(40) DEF IInv, TypeOK
<1>5. /\ worker' \in [Workers -> [pc : {"top", "asleep", "pop", "read", "begin", "running",
                                       "finish", "returned"},
                                 tries : Nat, slot : Slots \cup {NoSlot}, job : Jobs \cup {NoJob}]]
      /\ \A x \in Workers \ {w} : worker'[x] = worker[x]
      /\ worker'[w].pc = "begin" /\ worker'[w].slot \in Slots
  BY <1>1, <1>3, ZenonT(40) DEF IInv, Shapes
<1>6. numTasks' \in 0 .. CountMod - 1
  <2>1. numTasks + CountMod - 1 \in Nat
    BY SizeAssumption DEF IInv, TypeOK
  <2>2. (numTasks + CountMod - 1) % CountMod \in 0 .. CountMod - 1
    BY <2>1, SizeAssumption
  <2> QED
    BY <2>2 DEF PopRead
<1>7. NumThread \notin Workers
  BY SizeAssumption DEF Workers
<1>8. \A x \in Workers : worker'[x].pc # "read"
  <2>1. \A x \in Workers : worker[x].pc = "read" <=> lock = x
    BY DEF IInv, Shapes
  <2> QED
    BY <1>1, <1>5, <2>1
<1>9. TypeOK'
  BY <1>1, <1>4, <1>6 DEF IInv, TypeOK
<1>10. Shapes'
  <2>1. caller.pc \notin {"drain", "destroyed"}
    BY <1>1 DEF IInv, Shapes
  <2>2. \A x \in Workers : worker'[x].pc = "read" <=> lock' = x
    BY <1>1, <1>7, <1>8
  <2>3. \A x \in Workers : worker'[x].pc \in {"begin", "running", "finish"} => worker'[x].slot \in Slots
    BY <1>5 DEF IInv, Shapes
  <2> QED
    BY <1>1, <1>5, <2>1, <2>2, <2>3 DEF IInv, Shapes
<1>11. Placed'
  <2>1. \A x \in Workers, p \in Places :
          Taken(queue'[x].head, queue'[x].tail, p) => queue'[x].data[p] \in Slots
    <3>1. ~Taken(queue[q].head, queue[q].tail, b)
      BY <1>2, PlacesMove DEF b
    <3>2. \A x \in Workers, p \in Places :
            Taken(queue[x].head, queue[x].tail, p) => queue[x].data[p] \in Slots
      BY DEF IInv, Placed
    <3> QED
      BY <1>1, <1>4, <3>1, <3>2
  <2>2. caller.pc = "tail" =>
          /\ Following(queue[caller.thread].tail) # queue[caller.thread].head
          /\ queue'[caller.thread].data[queue[caller.thread].tail] \in Slots
          /\ caller.thread \in Workers
    <3>1. Following(queue[q].tail) # queue[q].head => queue[q].tail # b
      BY <1>2, PlacesMove DEF b
    <3>2. caller.pc = "tail" =>
            /\ Following(queue[caller.thread].tail) # queue[caller.thread].head
            /\ queue[caller.thread].data[queue[caller.thread].tail] \in Slots
            /\ caller.thread \in Workers /\ queue[caller.thread].tail \in Places
      BY DEF IInv, Placed, Shapes, TypeOK
    <3> HIDE DEF q
    <3> QED
      BY <1>1, <1>4, <3>1, <3>2
  <2> QED
    BY <1>1, <1>4, <1>8, <2>1, <2>2 DEF Placed
<1>12. Owned'
  <2>1. \A x \in Workers : worker'[x].pc = "running" => worker'[x] = worker[x]
    BY <1>5
  <2> QED
    BY <1>1, <1>10, <2>1, OwnedSame DEF IInv
<1> QED
  BY <1>9, <1>10, <1>11, <1>12 DEF IInv

LEMMA FinishKeeps ==
  ASSUME IInv, NEW w \in Workers, SetResult(w) \/ Finish(w)
  PROVE  IInv'
<1> DEFINE s == worker[w].slot
           TaskType == [job : Jobs \cup {NoJob}, thunk : BOOLEAN, result : Jobs \cup {NoJob},
                        hasResult : BOOLEAN, disposed : BOOLEAN]
<1>1. UNCHANGED <<mode, queue, numTasks, taskId, schedulerIndex, caller, stopWork, lock,
                  futures, taker, wrong, lapped>>
      /\ worker[w].pc \in {"running", "finish"} /\ s \in Slots /\ worker[w].job \in Jobs \cup {NoJob}
  BY DEF SetResult, Finish, takeVars, callVars, IInv, Shapes
<1>2. /\ worker' \in [Workers -> [pc : {"top", "asleep", "pop", "read", "begin", "running",
                                       "finish", "returned"},
                                 tries : Nat, slot : Slots \cup {NoSlot}, job : Jobs \cup {NoJob}]]
      /\ \A x \in Workers \ {w} : worker'[x] = worker[x]
      /\ worker'[w].pc \in {"finish", "top"}
      /\ worker'[w].pc = "finish" => worker'[w].slot = s
  <2>1. [pc |-> "top", tries |-> 0, slot |-> NoSlot, job |-> NoJob] \in
          [pc : {"top"}, tries : Nat, slot : Slots \cup {NoSlot}, job : Jobs \cup {NoJob}]
    OBVIOUS
  <2>2. worker \in [Workers -> [pc : {"top", "asleep", "pop", "read", "begin", "running",
                                    "finish", "returned"},
                              tries : Nat, slot : Slots \cup {NoSlot}, job : Jobs \cup {NoJob}]]
    BY DEF IInv, Shapes
  <2>3. CASE SetResult(w)
    BY <2>2, <2>3 DEF SetResult
  <2>4. CASE Finish(w)
    BY <2>1, <2>2, <2>4 DEF Finish
  <2> QED
    BY <2>3, <2>4
<1>3. /\ task' \in [Slots -> TaskType]
      /\ \A x \in Slots : task'[x].job = task[x].job
      /\ \A x \in Slots : task'[x].hasResult =>
           \/ task[x].hasResult /\ task'[x].result = task[x].result
           \/ worker[w].pc = "running" /\ x = s /\ task'[x].result = worker[w].job
  <2>1. task \in [Slots -> TaskType]
    BY DEF IInv, TypeOK
  <2>2. CASE SetResult(w)
    BY <1>1, <2>1, <2>2 DEF SetResult
  <2>3. CASE Finish(w)
    BY <1>1, <2>1, <2>3, ZenonT(40) DEF Finish
  <2> QED
    BY <2>2, <2>3
<1>4. TypeOK'
  BY <1>1, <1>3 DEF IInv, TypeOK
<1>5. Shapes'
  <2>1. caller.pc \notin {"drain", "destroyed"}
    BY <1>1 DEF IInv, Shapes
  <2>2. \A x \in Workers : worker'[x].pc = "read" <=> lock' = x
    <3>1. worker[w].pc # "read" /\ worker'[w].pc # "read"
      BY <1>1, <1>2
    <3>2. \A x \in Workers : worker[x].pc = "read" <=> lock = x
      BY DEF IInv, Shapes
    <3> QED
      BY <1>1, <1>2, <3>1, <3>2
  <2>3. \A x \in Workers : worker'[x].pc \in {"begin", "running", "finish"} => worker'[x].slot \in Slots
    BY <1>1, <1>2 DEF IInv, Shapes
  <2> QED
    BY <1>1, <1>2, <2>1, <2>2, <2>3 DEF IInv, Shapes
<1>6. Placed'
  <2>1. \A x \in Workers : worker'[x].pc = "read" => worker'[x] = worker[x]
    BY <1>2
  <2> QED
    BY <1>1, <2>1, PlacedSame DEF IInv
<1>7. Owned'
  <2>1. \A f \in Futures : Owns(f) => Holds(f, task', lapped')
    <3>1. \A f \in Futures : f = NoFuture \/ f.slot \in Slots
      BY DEF Futures
    <3> QED
      BY <1>1, <1>3, <3>1 DEF Owns, Holds
  <2>2. caller.future \in Futures /\ taker.future \in Futures
        /\ \A i \in DOMAIN futures : futures[i] \in Futures
    BY DEF IInv, Shapes
  <2>3. /\ Holds(caller'.future, task', lapped') /\ Holds(taker'.future, task', lapped')
        /\ \A i \in DOMAIN futures' : Holds(futures'[i], task', lapped')
    BY <1>1, <2>1, <2>2 DEF IInv, Owned
  <2>4. \A x \in Slots : task'[x].hasResult =>
          task'[x].result = task'[x].job \/ task'[x].job \in lapped'
    BY <1>1, <1>3 DEF IInv, Owned
  <2>5. \A x \in Workers : worker'[x].pc = "running" =>
          worker'[x].job = task'[worker'[x].slot].job \/ task'[worker'[x].slot].job \in lapped'
    <3>1. \A x \in Workers : worker[x].pc = "running" => worker[x].slot \in Slots
      BY DEF IInv, Shapes
    <3> QED
      BY <1>1, <1>2, <1>3, <3>1 DEF IInv, Owned
  <2> QED
    BY <1>1, <2>3, <2>4, <2>5 DEF IInv, Owned, Owns, OwnResult
<1> QED
  BY <1>4, <1>5, <1>6, <1>7 DEF IInv
-----------------------------------------------------------------------------
(* The thread that takes the results *)

LEMMA TakeFutureKeeps ==
  ASSUME IInv, TakeFuture
  PROVE  IInv'
<1>1. UNCHANGED <<mode, queue, numTasks, task, taskId, schedulerIndex, caller, stopWork, lock,
                  worker, wrong, lapped>>
      /\ futures # <<>> /\ futures' = Tail(futures) /\ taker.pc = "idle"
  BY DEF TakeFuture, callVars
<1>2. futures \in Seq(Futures)
  BY DEF IInv, Shapes
<1>3. /\ Head(futures) \in Futures /\ 1 \in DOMAIN futures /\ Head(futures) = futures[1]
      /\ futures' \in Seq(Futures)
      /\ \A i \in DOMAIN futures' : i + 1 \in DOMAIN futures /\ futures'[i] = futures[i + 1]
  BY <1>1, <1>2
<1>4. \/ taker' = taker
      \/ taker' = [pc |-> "get", future |-> Head(futures)] /\ Head(futures) # NoFuture
  BY DEF TakeFuture
<1>5. TypeOK'
  BY <1>1 DEF IInv, TypeOK
<1>6. Shapes'
  BY <1>1, <1>3, <1>4 DEF IInv, Shapes
<1>7. Placed'
  BY <1>1, PlacedSame DEF IInv
<1>8. Owned'
  <2>1. taker'.future \in {NoFuture, taker.future} \cup { futures[i] : i \in DOMAIN futures }
    BY <1>3, <1>4
  <2>2. \A i \in DOMAIN futures' :
          futures'[i] = caller.future \/ \E k \in DOMAIN futures : futures'[i] = futures[k]
    BY <1>3
  <2> QED
    BY <1>1, <1>6, <2>1, <2>2, OwnedSame DEF IInv
<1> QED
  BY <1>5, <1>6, <1>7, <1>8 DEF IInv

LEMMA GetResultKeeps ==
  ASSUME IInv, GetResult
  PROVE  IInv'
<1> DEFINE f == taker.future
           TaskType == [job : Jobs \cup {NoJob}, thunk : BOOLEAN, result : Jobs \cup {NoJob},
                        hasResult : BOOLEAN, disposed : BOOLEAN]
           gone == [task[f.slot] EXCEPT !.hasResult = FALSE, !.disposed = TRUE, !.result = NoJob]
<1>1. UNCHANGED <<mode, queue, numTasks, taskId, schedulerIndex, caller, stopWork, lock,
                  worker, futures, lapped>>
      /\ taker.pc = "get" /\ task[f.slot].hasResult /\ taker' = [pc |-> "idle", future |-> NoFuture]
  BY DEF GetResult, callVars
<1>2. f \in Futures /\ f.slot \in Slots
  BY <1>1 DEF IInv, Shapes, Futures
<1>3. task \in [Slots -> TaskType]
  BY DEF IInv, TypeOK
<1>4. task' = [task EXCEPT ![f.slot] = gone]
  BY <1>3 DEF GetResult, Cancelled
<1>5. gone \in TaskType /\ gone.job = task[f.slot].job /\ ~gone.hasResult
  BY <1>2, <1>3, ZenonT(40)
<1> HIDE DEF gone, TaskType
<1>6. /\ task' \in [Slots -> TaskType]
      /\ \A s \in Slots : task'[s] = IF s = f.slot THEN gone ELSE task[s]
  BY <1>2, <1>3, <1>4, <1>5
<1>7. TypeOK'
  BY <1>1, <1>6 DEF IInv, TypeOK, TaskType
<1>8. Shapes'
  BY <1>1 DEF IInv, Shapes, Futures
<1>9. Placed'
  BY <1>1, PlacedSame DEF IInv
<1>10. \A s \in Slots : /\ task'[s].job = task[s].job
                        /\ task'[s].hasResult => task[s].hasResult /\ task'[s].result = task[s].result
  BY <1>5, <1>6
<1>11. wrong' \subseteq lapped'
  <2>1. task[f.slot].job = f.job \/ f.job \in lapped
    BY <1>1 DEF IInv, Owned, Owns, Holds, Shapes
  <2>2. task[f.slot].result = task[f.slot].job \/ task[f.slot].job \in lapped
    BY <1>1, <1>2 DEF IInv, Owned
  <2>3. wrong' = wrong \/ (task[f.slot].result # f.job /\ wrong' = wrong \cup {f.job})
    BY DEF GetResult
  <2> QED
    BY <1>1, <2>1, <2>2, <2>3 DEF IInv, Owned, OwnResult
<1>12. Owned'
  <2>1. /\ caller'.future = caller.future /\ taker'.future = NoFuture
        /\ \A i \in DOMAIN futures' : i \in DOMAIN futures /\ futures'[i] = futures[i]
        /\ \A x \in Workers : worker'[x] = worker[x]
    BY <1>1
  <2> QED
    BY <1>1, <1>7, <1>8, <1>10, <1>11, <2>1, OwnedSame DEF IInv
<1> QED
  BY <1>7, <1>8, <1>9, <1>12 DEF IInv
-----------------------------------------------------------------------------
(* The specification *)

LEMMA InitKeeps ==
  Init => IInv
<1> SUFFICES ASSUME Init PROVE IInv
  OBVIOUS
<1>1. 0 \in Workers /\ 0 \in Places /\ NumThread \notin Workers
      /\ 0 \in 0 .. CountMod - 1 /\ 0 \in 0 .. MaxTasks
  BY SizeAssumption DEF Workers, Places
<1>2. TypeOK
  BY <1>1 DEF Init, TypeOK
<1>3. Shapes
  BY <1>1 DEF Init, Shapes, Futures
<1>4. Placed
  <2>1. \A p \in Places : ~Taken(0, 0, p)
    BY DEF Places, Taken
  <2> QED
    BY <2>1 DEF Init, Placed
<1>5. Owned
  BY DEF Init, Owned, Owns, Holds, OwnResult
<1> QED
  BY <1>2, <1>3, <1>4, <1>5 DEF IInv

LEMMA NextKeeps ==
  ASSUME IInv, [Next]_vars
  PROVE  IInv'
<1>1. CASE UNCHANGED vars
  <2>1. UNCHANGED <<mode, queue, numTasks, task, taskId, schedulerIndex, stopWork, lock,
                    worker, caller, futures, taker, wrong, lapped>>
    BY <1>1 DEF vars
  <2>2. TypeOK' /\ Shapes'
    BY <2>1 DEF IInv, TypeOK, Shapes
  <2>3. Placed'
    BY <2>1, PlacedSame DEF IInv
  <2>4. Owned'
    BY <2>1 DEF IInv, Owned, Owns, OwnResult
  <2> QED
    BY <2>2, <2>3, <2>4 DEF IInv
<1>2. CASE ScheduleCapture
  BY <1>2, ScheduleKeeps
<1>3. CASE HandOver \/ Drop \/ Cancel \/ Stop
  BY <1>3, CallerKeeps, CancelKeeps
<1>4. CASE Calling
  BY <1>4, CallerKeeps, PushTailKeeps DEF Calling
<1>5. CASE Destroying
  BY <1>5, CallerKeeps, DrainKeeps DEF Destroying
<1>6. CASE Taking
  BY <1>6, TakeFutureKeeps, GetResultKeeps DEF Taking
<1>7. ASSUME NEW w \in Workers, Popping(w) \/ Working(w)
      PROVE  IInv'
  BY <1>7, LookingKeeps, PopHeadKeeps, PopReadKeeps, FinishKeeps DEF Popping, Working
<1> QED
  BY <1>1, <1>2, <1>3, <1>4, <1>5, <1>6, <1>7 DEF Next

LEMMA AlwaysIInv ==
  Spec => []IInv
<1>1. Init => IInv
  BY InitKeeps
<1>2. IInv /\ [Next]_vars => IInv'
  BY NextKeeps
<1> QED
  BY <1>1, <1>2, PTL DEF Spec

\* The pool's state keeps its types: an index never leaves its ring, what a worker
\* takes out of one is the number of a slot, and the lock is held by one worker
\* (AtomicQueue, WorkerThreadPool::Schedule and processWork).
THEOREM PoolTypes ==
  Spec => []TypeOK
<1>1. IInv => TypeOK
  BY DEF IInv
<1> QED
  BY <1>1, AlwaysIInv, PTL

\* A future delivers the result of its own task, however many workers there are
\* and whichever of them steals it, unless its slot was given away before the
\* future was asked (Schedule, Result::set, Future::get).
THEOREM OwnResultHolds ==
  Spec => []OwnResult
<1>1. IInv => OwnResult
  BY DEF IInv, Owned
<1> QED
  BY <1>1, AlwaysIInv, PTL

-----------------------------------------------------------------------------
(* How many tasks are counted *)

\* How many elements a ring with these indices holds
Span(h, t) == (t + NumTasksPerThread - h) % NumTasksPerThread

Spots(heads, tails) ==
  { at \in Workers \X (1 .. NumTasksPerThread) : at[2] <= Span(heads[at[1]], tails[at[1]]) }

Heads == [q \in Workers |-> queue[q].head]
Tails == [q \in Workers |-> queue[q].tail]

\* The tasks in the rings and in the hands of the worker that has the lock
Present(heads, tails, l) ==
  Cardinality(Spots(heads, tails)) + (IF l = NumThread THEN 0 ELSE 1)

Early(pc) == IF pc \in {"notify", "count"} THEN 1 ELSE 0
Pending(pc) == IF pc = "tail" THEN 1 ELSE 0

\* What m_numTasks says when c tasks are there, e of them not counted yet
Says(n, e, c) == n = IF e <= c THEN c - e ELSE CountMod - 1

\* No more tasks are there than were scheduled, so that the count wraps only below zero
Counted ==
  /\ Says(numTasks, Early(caller.pc), Present(Heads, Tails, lock))
  /\ Present(Heads, Tails, lock) + Pending(caller.pc) <= taskId

LEMMA SpanMoves ==
  ASSUME NEW h \in Places, NEW t \in Places
  PROVE  /\ Span(h, t) \in 0 .. NumTasksPerThread - 1
         /\ h = t <=> Span(h, t) = 0
         /\ Following(t) # h => Span(h, Following(t)) = Span(h, t) + 1
         /\ h # t => Span(h, t) = Span(Following(h), t) + 1
<1> USE SizeAssumption DEF Places
<1>1. \A a, b \in Places : Span(a, b) = IF a <= b THEN b - a ELSE b + NumTasksPerThread - a
  BY DEF Span
<1>2. /\ Following(h) = IF h = NumTasksPerThread - 1 THEN 0 ELSE h + 1
      /\ Following(t) = IF t = NumTasksPerThread - 1 THEN 0 ELSE t + 1
      /\ Following(h) \in Places /\ Following(t) \in Places
  BY AfterAndBefore
<1>3. /\ Span(h, t) = IF h <= t THEN t - h ELSE t + NumTasksPerThread - h
      /\ Span(h, Following(t)) = IF h <= Following(t) THEN Following(t) - h
                                 ELSE Following(t) + NumTasksPerThread - h
      /\ Span(Following(h), t) = IF Following(h) <= t THEN t - Following(h)
                                 ELSE t + NumTasksPerThread - Following(h)
  BY <1>1, <1>2
<1> QED
  BY <1>2, <1>3

LEMMA SpotsAreFinite ==
  ASSUME NEW heads, NEW tails
  PROVE  IsFiniteSet(Spots(heads, tails)) /\ Cardinality(Spots(heads, tails)) \in Nat
<1>1. IsFiniteSet(Workers) /\ IsFiniteSet(1 .. NumTasksPerThread)
  BY SizeAssumption, FS_Interval DEF Workers
<1>2. IsFiniteSet(Workers \X (1 .. NumTasksPerThread))
  BY <1>1, FS_Product
<1> QED
  BY <1>2, FS_Subset, FS_CardinalityType DEF Spots

\* One ring that grows by an element makes one more element
Grows(h, t, i, u, q) ==
  /\ \A x \in Workers : x # q => h[x] = i[x] /\ t[x] = u[x]
  /\ Span(h[q], t[q]) \in 0 .. NumTasksPerThread - 1
  /\ Span(i[q], u[q]) = Span(h[q], t[q]) + 1
  /\ Span(i[q], u[q]) <= NumTasksPerThread

LEMMA SpotsGrow ==
  ASSUME NEW h, NEW t, NEW i, NEW u, NEW q \in Workers, Grows(h, t, i, u, q)
  PROVE  Cardinality(Spots(i, u)) = Cardinality(Spots(h, t)) + 1
<1> DEFINE n == Span(h[q], t[q])
<1>1. <<q, n + 1>> \notin Spots(h, t)
  BY DEF Spots, Grows
<1>2. Spots(i, u) = Spots(h, t) \cup {<<q, n + 1>>}
  <2>1. \A x \in Workers, k \in 1 .. NumTasksPerThread :
          k <= Span(i[x], u[x]) <=> k <= Span(h[x], t[x]) \/ (x = q /\ k = n + 1)
    BY SizeAssumption DEF Grows
  <2>2. \A at \in Workers \X (1 .. NumTasksPerThread) :
          at = <<q, n + 1>> <=> at[1] = q /\ at[2] = n + 1
    OBVIOUS
  <2>3. <<q, n + 1>> \in Workers \X (1 .. NumTasksPerThread)
    BY SizeAssumption DEF Grows
  <2> QED
    BY <2>1, <2>2, <2>3 DEF Spots
<1> QED
  BY <1>1, <1>2, SpotsAreFinite, FS_AddElement

\* What becomes of the count as a task is pushed, counted, and discounted
LEMMA SaysMoves ==
  ASSUME NEW n \in 0 .. CountMod - 1, NEW c \in Nat, c <= MaxTasks
  PROVE  /\ Says(n, 0, c) => Says(n, 1, c + 1)
         /\ Says(n, 1, c) => Says((n + 1) % CountMod, 0, c)
         /\ \A e \in {0, 1} : Says(n, e, c) /\ c > 0 =>
              Says((n + CountMod - 1) % CountMod, e, c - 1)
         /\ \A e \in {0, 1} : Says(n, e, c) => (n + e) % CountMod = c % CountMod
<1> USE SizeAssumption DEF Says
<1>1. \A x \in 0 .. CountMod - 1 : x % CountMod = x /\ (x + CountMod) % CountMod = x
  OBVIOUS
<1>2. Says(n, 1, c) => Says((n + 1) % CountMod, 0, c)
  <2>1. CASE c > 0
    BY <1>1, <2>1
  <2>2. CASE c = 0
    BY <1>1, <2>2
  <2> QED
    BY <2>1, <2>2
<1>3. ASSUME NEW e \in {0, 1}, Says(n, e, c), c > 0
      PROVE  Says((n + CountMod - 1) % CountMod, e, c - 1)
  <2>1. CASE n > 0
    <3>1. n - 1 \in 0 .. CountMod - 1 /\ n + CountMod - 1 = (n - 1) + CountMod
      BY <2>1
    <3>2. (n + CountMod - 1) % CountMod = n - 1
      BY <1>1, <3>1
    <3> QED
      BY <1>3, <2>1, <3>2
  <2>2. CASE n = 0
    <3>1. (n + CountMod - 1) % CountMod = CountMod - 1
      BY <1>1, <2>2
    <3> QED
      BY <1>3, <2>2, <3>1
  <2> QED
    BY <2>1, <2>2
<1>4. ASSUME NEW e \in {0, 1}, Says(n, e, c)
      PROVE  (n + e) % CountMod = c % CountMod
  <2>1. CASE e <= c
    BY <1>4, <2>1
  <2>2. CASE ~(e <= c)
    <3>1. n + e = CountMod /\ c = 0
      BY <1>4, <2>2
    <3>2. 0 + CountMod = CountMod /\ 0 \in 0 .. CountMod - 1
      OBVIOUS
    <3> QED
      BY <1>1, <3>1, <3>2
  <2> QED
    BY <2>1, <2>2
<1> QED
  BY <1>2, <1>3, <1>4

LEMMA PresentType ==
  ASSUME IInv
  PROVE  /\ Present(Heads, Tails, lock) \in Nat
         /\ numTasks \in 0 .. CountMod - 1 /\ taskId \in 0 .. MaxTasks
         /\ \A q \in Workers : /\ queue[q].head \in Places /\ queue[q].tail \in Places
                               /\ Heads[q] = queue[q].head /\ Tails[q] = queue[q].tail
         /\ Early(caller.pc) \in {0, 1} /\ Pending(caller.pc) \in {0, 1}
<1>1. Cardinality(Spots(Heads, Tails)) \in Nat
  BY SpotsAreFinite
<1> QED
  BY <1>1 DEF IInv, TypeOK, Present, Early, Pending, Heads, Tails

\* A step that touches neither the indices nor the count
LEMMA CountedSame ==
  ASSUME Counted, Heads' = Heads, Tails' = Tails, UNCHANGED <<lock, numTasks, taskId>>,
         Early(caller'.pc) = Early(caller.pc), Pending(caller'.pc) = Pending(caller.pc)
  PROVE  Counted'
  BY DEF Counted

LEMMA CountedPush ==
  ASSUME IInv, Counted, ScheduleCapture \/ PushTail \/ Count
  PROVE  Counted'
<1> DEFINE c == Present(Heads, Tails, lock)
<1>1. /\ c \in Nat /\ numTasks \in 0 .. CountMod - 1 /\ taskId \in 0 .. MaxTasks /\ MaxTasks \in Nat
      /\ \A q \in Workers : /\ queue[q].head \in Places /\ queue[q].tail \in Places
                            /\ Heads[q] = queue[q].head /\ Tails[q] = queue[q].tail
      /\ c <= taskId /\ c <= MaxTasks
  BY PresentType, SizeAssumption DEF Counted
<1>2. CASE ScheduleCapture
  <2>1. Heads' = Heads /\ Tails' = Tails
    <3> DEFINE q == schedulerIndex % NumThread
               R == [queue EXCEPT ![q].data[queue[q].tail] = taskId % TaskCount]
    <3>1. queue' = queue \/ queue' = R
      BY <1>2 DEF ScheduleCapture
    <3>2. \A x \in Workers : R[x].head = queue[x].head /\ R[x].tail = queue[x].tail
      BY DEF IInv, TypeOK
    <3> HIDE DEF R
    <3>3. \A x \in Workers : queue'[x].head = queue[x].head /\ queue'[x].tail = queue[x].tail
      BY <3>1, <3>2
    <3> QED
      BY <3>3 DEF Heads, Tails
  <2>2. UNCHANGED <<lock, numTasks>> /\ Early(caller'.pc) = 0 /\ Early(caller.pc) = 0
        /\ \/ taskId' = taskId /\ Pending(caller'.pc) = 0
           \/ taskId' = taskId + 1 /\ Pending(caller'.pc) = 1
    BY <1>2 DEF ScheduleCapture, Early, Pending
  <2>3. Present(Heads', Tails', lock') + Pending(caller'.pc) <= taskId'
    BY <1>1, <2>1, <2>2
  <2> QED
    BY <2>1, <2>2, <2>3 DEF Counted
<1>3. CASE PushTail
  <2> DEFINE q == caller.thread
  <2>1. /\ q \in Workers /\ Following(queue[q].tail) # queue[q].head
        /\ Pending(caller.pc) = 1 /\ Early(caller.pc) = 0
    BY <1>3 DEF PushTail, IInv, Placed, Shapes, Pending, Early
  <2>2. /\ UNCHANGED <<lock, numTasks, taskId>>
        /\ queue' = [queue EXCEPT ![q].tail = Following(queue[q].tail)]
        /\ Pending(caller'.pc) = 0 /\ Early(caller'.pc) = 1
    BY <1>3 DEF PushTail, IInv, Shapes, Pending, Early
  <2>3. /\ Heads' = Heads
        /\ Tails' = [Tails EXCEPT ![q] = Following(queue[q].tail)]
    BY <2>1, <2>2 DEF Heads, Tails, IInv, TypeOK
  <2> DEFINE T == [Tails EXCEPT ![q] = Following(queue[q].tail)]
  <2>4. Cardinality(Spots(Heads, T)) = Cardinality(Spots(Heads, Tails)) + 1
    <3>1. /\ \A x \in Workers : x # q => Heads[x] = Heads[x] /\ Tails[x] = T[x]
          /\ T[q] = Following(queue[q].tail)
      BY <2>1 DEF Tails
    <3>2. /\ Span(Heads[q], Tails[q]) \in 0 .. NumTasksPerThread - 1
          /\ Span(Heads[q], T[q]) = Span(Heads[q], Tails[q]) + 1
          /\ Span(Heads[q], T[q]) <= NumTasksPerThread
      BY <1>1, <2>1, <3>1, SpanMoves, SizeAssumption
    <3> HIDE DEF T, q
    <3>3. Grows(Heads, Tails, Heads, T, q)
      BY <3>1, <3>2 DEF Grows
    <3> QED
      BY <2>1, <3>3, SpotsGrow
  <2>5. Present(Heads, T, lock) = c + 1
    BY <2>4, SpotsAreFinite DEF Present
  <2>6. Says(numTasks, 1, c + 1) /\ c + 1 <= taskId
    BY <1>1, <2>1, SaysMoves DEF Counted
  <2>7. Present(Heads', Tails', lock') = c + 1
    BY <2>2, <2>3, <2>5
  <2>8. Says(numTasks', Early(caller'.pc), Present(Heads', Tails', lock'))
    BY <2>2, <2>6, <2>7
  <2>9. Present(Heads', Tails', lock') + Pending(caller'.pc) <= taskId'
    <3> HIDE DEF c
    <3> QED
      BY <1>1, <2>2, <2>6, <2>7
  <2> QED
    BY <2>8, <2>9 DEF Counted
<1>4. CASE Count
  <2>1. Heads' = Heads /\ Tails' = Tails
    BY <1>4 DEF Count, Heads, Tails
  <2>2. /\ UNCHANGED <<lock, taskId>> /\ numTasks' = (numTasks + 1) % CountMod
        /\ Early(caller'.pc) = 0 /\ Early(caller.pc) = 1
        /\ Pending(caller'.pc) = 0 /\ Pending(caller.pc) = 0
    BY <1>4 DEF Count, Early, Pending, IInv, Shapes
  <2>3. Says((numTasks + 1) % CountMod, 0, c)
    BY <1>1, <2>2, SaysMoves DEF Counted
  <2> QED
    BY <2>1, <2>2, <2>3 DEF Counted
<1> QED
  BY <1>2, <1>3, <1>4

\* A ring from which the oldest element was taken
LEMMA TakenOut ==
  ASSUME IInv, NEW q \in Workers, queue[q].head # queue[q].tail
  PROVE  Cardinality(Spots(Heads, Tails)) =
           Cardinality(Spots([Heads EXCEPT ![q] = Following(queue[q].head)], Tails)) + 1
<1> DEFINE H == [Heads EXCEPT ![q] = Following(queue[q].head)]
<1>1. /\ queue[q].head \in Places /\ queue[q].tail \in Places
      /\ Heads[q] = queue[q].head /\ Tails[q] = queue[q].tail
  BY PresentType
<1>2. /\ \A x \in Workers : x # q => H[x] = Heads[x]
      /\ H[q] = Following(queue[q].head) /\ H[q] \in Places
  BY <1>1, AfterAndBefore DEF Heads
<1> HIDE DEF H
<1>3. /\ Span(H[q], Tails[q]) \in 0 .. NumTasksPerThread - 1
      /\ Span(Heads[q], Tails[q]) = Span(H[q], Tails[q]) + 1
      /\ Span(Heads[q], Tails[q]) <= NumTasksPerThread
  BY <1>1, <1>2, SpanMoves, SizeAssumption
<1>4. Grows(H, Tails, Heads, Tails, q)
  BY <1>2, <1>3 DEF Grows
<1>5. Cardinality(Spots(Heads, Tails)) = Cardinality(Spots(H, Tails)) + 1
  BY <1>4, SpotsGrow
<1> QED
  BY <1>5 DEF H

LEMMA CountedPop ==
  ASSUME IInv, Counted, NEW w \in Workers, PopHead(w) \/ PopRead(w) \/ DrainOne
  PROVE  Counted'
<1> DEFINE c == Present(Heads, Tails, lock)
           e == Early(caller.pc)
<1>1. /\ c \in Nat /\ numTasks \in 0 .. CountMod - 1 /\ taskId \in 0 .. MaxTasks /\ MaxTasks \in Nat
      /\ c <= taskId /\ c <= MaxTasks /\ e \in {0, 1}
      /\ c + Pending(caller.pc) <= taskId /\ Pending(caller.pc) \in {0, 1}
  BY PresentType, SizeAssumption DEF Counted
<1>2. CASE PopHead(w)
  <2> DEFINE q == Victim(w)
             H == [Heads EXCEPT ![q] = Following(queue[q].head)]
  <2>1. /\ q \in Workers /\ queue[q].head # queue[q].tail /\ lock = NumThread /\ lock' = w
        /\ UNCHANGED <<numTasks, taskId, caller>> /\ w # NumThread
        /\ queue' = [queue EXCEPT ![q].head = Following(queue[q].head)]
    BY <1>2, VictimIsWorker, SizeAssumption DEF PopHead, IsEmpty, IInv, callVars, Workers
  <2> HIDE DEF q
  <2>2. Heads' = H /\ Tails' = Tails
    BY <2>1 DEF Heads, Tails, IInv, TypeOK
  <2>3. Cardinality(Spots(Heads, Tails)) = Cardinality(Spots(H, Tails)) + 1
    BY <2>1, TakenOut
  <2>4. Present(H, Tails, w) = c
    BY <2>1, <2>3, SpotsAreFinite DEF Present
  <2>5. Present(Heads', Tails', lock') = c
    BY <2>1, <2>2, <2>4
  <2> QED
    BY <2>1, <2>5 DEF Counted
<1>3. CASE PopRead(w) \/ DrainOne
  <2>1. UNCHANGED <<taskId, caller>> /\ numTasks' = (numTasks + CountMod - 1) % CountMod
    BY <1>3 DEF PopRead, DrainOne, callVars
  <2>2. c > 0 /\ Present(Heads', Tails', lock') = c - 1
    <3>1. CASE PopRead(w)
      <4> DEFINE q == Victim(w)
                 R == [queue EXCEPT ![q].data[Before(queue[q].head)] = NoSlot]
      <4>1. lock = w /\ lock' = NumThread /\ w # NumThread /\ queue' = R
        BY <3>1, SizeAssumption, SMTT(30) DEF PopRead, IInv, Shapes, Workers
      <4>2. \A x \in Workers : R[x].head = queue[x].head /\ R[x].tail = queue[x].tail
        BY DEF IInv, TypeOK
      <4> HIDE DEF R
      <4>3. Heads' = Heads /\ Tails' = Tails
        BY <4>1, <4>2 DEF Heads, Tails
      <4>4. c > 0 /\ Present(Heads, Tails, NumThread) = c - 1
        BY <4>1, SpotsAreFinite DEF Present
      <4> QED
        BY <4>1, <4>3, <4>4
    <3>2. CASE DrainOne
      <4>1. PICK q \in Workers :
              /\ queue[q].head # queue[q].tail
              /\ queue' = [queue EXCEPT ![q].head = Following(queue[q].head)]
        BY <3>2 DEF DrainOne, IsEmpty
      <4> DEFINE H == [Heads EXCEPT ![q] = Following(queue[q].head)]
      <4>2. Heads' = H /\ Tails' = Tails /\ lock' = lock
        <5>1. lock' = lock
          BY <3>2 DEF DrainOne
        <5>2. Heads' = H /\ Tails' = Tails
          BY <4>1 DEF Heads, Tails, IInv, TypeOK
        <5> QED
          BY <5>1, <5>2
      <4>3. Cardinality(Spots(Heads, Tails)) = Cardinality(Spots(H, Tails)) + 1
        BY <4>1, TakenOut
      <4>4. c > 0 /\ Present(H, Tails, lock) = c - 1
        BY <4>3, SpotsAreFinite DEF Present
      <4> QED
        BY <4>2, <4>4
    <3> QED
      BY <1>3, <3>1, <3>2
  <2>3. Says((numTasks + CountMod - 1) % CountMod, e, c - 1) /\ c - 1 + Pending(caller.pc) <= taskId
    <3>1. Says(numTasks, e, c)
      BY DEF Counted
    <3>2. c > 0
      BY <2>2
    <3> HIDE DEF c, e
    <3>3. Says((numTasks + CountMod - 1) % CountMod, e, c - 1)
      BY <1>1, <3>1, <3>2, SaysMoves, ZenonT(40)
    <3>4. c - 1 + Pending(caller.pc) <= taskId
      BY <1>1, <3>2
    <3> QED
      BY <3>3, <3>4
  <2> HIDE DEF c
  <2> QED
    BY <2>1, <2>2, <2>3 DEF Counted
<1> QED
  BY <1>2, <1>3

\* The other steps: pc of the caller at most, and never from or to a push
LEMMA CountedElse ==
  ASSUME IInv, Counted, [Next]_vars,
         ~ScheduleCapture, ~PushTail, ~Count, ~DrainOne,
         \A w \in Workers : ~PopHead(w) /\ ~PopRead(w)
  PROVE  Counted'
<1>1. /\ UNCHANGED <<queue, lock, numTasks, taskId>>
      /\ \/ caller' = caller
         \/ caller.pc = "notify" /\ caller'.pc = "count"
         \/ caller.pc \notin {"notify", "count", "tail"} /\ caller'.pc \notin {"notify", "count", "tail"}
  <2>1. CASE UNCHANGED vars
    BY <2>1 DEF vars
  <2>2. CASE HandOver \/ Drop \/ Cancel \/ Stop
    BY <2>2 DEF HandOver, Drop, Cancel, Stop, IInv, Shapes
  <2>3. CASE Calling \/ Destroying
    BY <2>3 DEF Calling, Destroying, Notify, StopNotify, Join, DrainDone, IInv, Shapes
  <2>4. CASE Taking
    BY <2>4 DEF Taking, TakeFuture, GetResult, callVars
  <2>5. ASSUME NEW w \in Workers, Popping(w) \/ Working(w)
        PROVE  UNCHANGED <<queue, lock, numTasks, taskId, caller>>
    BY <2>5 DEF Popping, Working, PopEmpty, WorkerTop, Begin, SetResult, Finish, callVars
  <2> QED
    BY <2>1, <2>2, <2>3, <2>4, <2>5 DEF Next
<1>2. Heads' = Heads /\ Tails' = Tails
  BY <1>1 DEF Heads, Tails
<1>3. Early(caller'.pc) = Early(caller.pc) /\ Pending(caller'.pc) = Pending(caller.pc)
  BY <1>1 DEF Early, Pending
<1> QED
  BY <1>1, <1>2, <1>3, CountedSame

LEMMA CountedStarts ==
  Init => Counted
<1> SUFFICES ASSUME Init PROVE Counted
  OBVIOUS
<1>1. IInv
  BY InitKeeps
<1>2. \A q \in Workers : Span(Heads[q], Tails[q]) = 0
  BY <1>1, PresentType, SpanMoves DEF Init
<1>3. Spots(Heads, Tails) = {}
  BY <1>2 DEF Spots
<1>4. Present(Heads, Tails, lock) = 0
  BY <1>3, FS_EmptySet DEF Init, Present
<1>5. numTasks = 0 /\ taskId = 0 /\ Early(caller.pc) = 0 /\ Pending(caller.pc) = 0
  BY DEF Init, Early, Pending
<1>6. Says(0, 0, 0) /\ 0 + 0 <= 0
  BY DEF Says
<1> QED
  BY <1>4, <1>5, <1>6 DEF Counted

\* m_numTasks agrees with the rings at every step of every thread, up to the task
\* that Schedule has published and not counted and the one that a worker has taken
\* and not discounted; below zero it wraps, by one task at most (WorkerThreadPool::
\* Schedule, processWork and the destructor's loop).
THEOREM CountHolds ==
  Spec => []CountAgrees
<1>1. Init => IInv /\ Counted
  BY InitKeeps, CountedStarts
<1>2. IInv /\ Counted /\ [Next]_vars => (IInv /\ Counted)'
  <2> SUFFICES ASSUME IInv, Counted, [Next]_vars PROVE IInv' /\ Counted'
    OBVIOUS
  <2>1. 0 \in Workers
    BY SizeAssumption DEF Workers
  <2>2. CASE DrainOne
    BY <2>1, <2>2, CountedPop, NextKeeps
  <2>3. CASE ~DrainOne
    BY <2>3, NextKeeps, CountedPush, CountedPop, CountedElse
  <2> QED
    BY <2>2, <2>3
<1>3. IInv /\ Counted => CountAgrees
  <2> SUFFICES ASSUME IInv, Counted PROVE CountAgrees
    OBVIOUS
  <2> DEFINE c == Present(Heads, Tails, lock)
             e == Early(caller.pc)
  <2>1. /\ c \in Nat /\ c <= MaxTasks /\ e \in {0, 1}
        /\ numTasks \in 0 .. CountMod - 1 /\ Says(numTasks, e, c)
    BY PresentType, SizeAssumption DEF Counted
  <2>2. (numTasks + e) % CountMod = c % CountMod
    <3> HIDE DEF c, e
    <3> QED
      BY <2>1, SaysMoves
  <2>3. { at \in Workers \X (1 .. NumTasksPerThread) : at[2] <= Length(at[1]) } = Spots(Heads, Tails)
    <3>1. \A q \in Workers : Length(q) = Span(Heads[q], Tails[q])
      BY DEF Length, Span, Heads, Tails
    <3> QED
      BY <3>1 DEF Spots
  <2>4. Cardinality({ w \in Workers : worker[w].pc = "read" }) = IF lock = NumThread THEN 0 ELSE 1
    <3>1. /\ \A w \in Workers : worker[w].pc = "read" <=> lock = w
          /\ lock \in Workers \cup {NumThread} /\ NumThread \notin Workers
      BY SizeAssumption, SMTT(30) DEF IInv, TypeOK, Shapes, Workers
    <3>2. { w \in Workers : worker[w].pc = "read" } = IF lock = NumThread THEN {} ELSE {lock}
      BY <3>1
    <3> QED
      BY <3>2, FS_EmptySet, FS_Singleton
  <2> QED
    BY <2>2, <2>3, <2>4 DEF CountAgrees, Present, Early
<1> QED
  BY <1>1, <1>2, <1>3, PTL DEF Spec
-----------------------------------------------------------------------------
(* A ring as a list *)

Elements == Slots \cup {NoSlot}

At(h, i) == (h + i - 1) % NumTasksPerThread

List(h, t, d) == [i \in 1 .. Span(h, t) |-> d[At(h, i)]]

LEMMA AtPlaces ==
  ASSUME NEW h \in Places, NEW i \in 1 .. NumTasksPerThread
  PROVE  /\ At(h, i) = IF h + i <= NumTasksPerThread THEN h + i - 1
                       ELSE h + i - 1 - NumTasksPerThread
         /\ At(h, i) \in Places
<1>1. CASE h + i <= NumTasksPerThread
  <2>1. h + i - 1 \in 0 .. NumTasksPerThread - 1
    BY <1>1, SizeAssumption DEF Places
  <2>2. (h + i - 1) % NumTasksPerThread = h + i - 1
    BY <2>1, SizeAssumption
  <2> QED
    BY <1>1, <2>1, <2>2 DEF At, Places
<1>2. CASE ~(h + i <= NumTasksPerThread)
  <2>1. h + i - 1 - NumTasksPerThread \in 0 .. NumTasksPerThread - 1
    BY <1>2, SizeAssumption DEF Places
  <2>2. \A x \in 0 .. NumTasksPerThread - 1 : (x + NumTasksPerThread) % NumTasksPerThread = x
    BY SizeAssumption
  <2> DEFINE x == h + i - 1 - NumTasksPerThread
  <2>3. h + i - 1 = x + NumTasksPerThread
    BY SizeAssumption DEF Places
  <2>4. (h + i - 1) % NumTasksPerThread = x
    <3> HIDE DEF x
    <3> QED
      BY <2>1, <2>2, <2>3 DEF x
  <2> QED
    BY <1>2, <2>1, <2>4 DEF At, Places
<1> QED
  BY <1>1, <1>2

\* Where the elements of a ring are, and where the next one will be
LEMMA AtMoves ==
  ASSUME NEW h \in Places, NEW t \in Places
  PROVE  /\ \A i \in 1 .. Span(h, t) :
              At(h, i) \in Places /\ At(h, i) # t /\ At(h, i) # Before(h)
         /\ Following(t) # h => At(h, Span(h, t) + 1) = t
         /\ h # t => /\ At(h, 1) = h
                     /\ \A i \in 1 .. Span(Following(h), t) :
                          At(Following(h), i) = At(h, i + 1)
<1> USE SizeAssumption
<1>1. /\ Following(h) = IF h = NumTasksPerThread - 1 THEN 0 ELSE h + 1
      /\ Before(h) = IF h = 0 THEN NumTasksPerThread - 1 ELSE h - 1
      /\ Following(t) = IF t = NumTasksPerThread - 1 THEN 0 ELSE t + 1
      /\ Following(h) \in Places
  BY AfterAndBefore
<1>2. \A a, b \in Places : Span(a, b) = IF a <= b THEN b - a ELSE b + NumTasksPerThread - a
  BY DEF Span, Places
<1>3. /\ Span(h, t) = IF h <= t THEN t - h ELSE t + NumTasksPerThread - h
      /\ Span(Following(h), t) = IF Following(h) <= t THEN t - Following(h)
                                 ELSE t + NumTasksPerThread - Following(h)
  BY <1>1, <1>2
<1>4. ASSUME NEW i \in 1 .. Span(h, t)
      PROVE  At(h, i) \in Places /\ At(h, i) # t /\ At(h, i) # Before(h)
  <2>1. i \in 1 .. NumTasksPerThread
    BY <1>3 DEF Places
  <2>2. /\ At(h, i) = IF h + i <= NumTasksPerThread THEN h + i - 1
                      ELSE h + i - 1 - NumTasksPerThread
        /\ At(h, i) \in Places
    BY <2>1, AtPlaces
  <2>3. At(h, i) # t
    BY <1>3, <2>1, <2>2 DEF Places
  <2>4. At(h, i) # Before(h)
    BY <1>1, <1>3, <2>1, <2>2 DEF Places
  <2> QED
    BY <2>2, <2>3, <2>4
<1>5. Following(t) # h => At(h, Span(h, t) + 1) = t
  <2>1. Span(h, t) + 1 \in 1 .. NumTasksPerThread
    BY <1>3 DEF Places
  <2> QED
    BY <1>1, <1>3, <2>1, AtPlaces DEF Places
<1>6. ASSUME h # t
      PROVE  /\ At(h, 1) = h
             /\ \A i \in 1 .. Span(Following(h), t) : At(Following(h), i) = At(h, i + 1)
  <2>1. At(h, 1) = h
    BY AtPlaces DEF Places
  <2>2. ASSUME NEW i \in 1 .. Span(Following(h), t)
        PROVE  At(Following(h), i) = At(h, i + 1)
    <3>1. i \in 1 .. NumTasksPerThread /\ i + 1 \in 1 .. NumTasksPerThread
      BY <1>1, <1>3, <1>6 DEF Places
    <3>2. /\ At(h, i + 1) = IF h + (i + 1) <= NumTasksPerThread THEN h + (i + 1) - 1
                            ELSE h + (i + 1) - 1 - NumTasksPerThread
          /\ At(Following(h), i) = IF Following(h) + i <= NumTasksPerThread THEN Following(h) + i - 1
                                   ELSE Following(h) + i - 1 - NumTasksPerThread
      BY <1>1, <3>1, AtPlaces
    <3> QED
      BY <1>1, <3>1, <3>2 DEF Places
  <2> QED
    BY <2>1, <2>2
<1> QED
  BY <1>4, <1>5, <1>6

LEMMA ListShape ==
  ASSUME NEW h \in Places, NEW t \in Places, NEW d \in [Places -> Elements]
  PROVE  /\ List(h, t, d) \in Seq(Elements) /\ Len(List(h, t, d)) = Span(h, t)
         /\ Span(h, t) \in Nat /\ Span(h, t) <= NumTasksPerThread - 1
         /\ \A i \in 1 .. Span(h, t) : List(h, t, d)[i] = d[At(h, i)]
<1>1. Span(h, t) \in Nat /\ Span(h, t) <= NumTasksPerThread - 1
  BY SpanMoves, SizeAssumption
<1>2. \A i \in 1 .. Span(h, t) : d[At(h, i)] \in Elements
  BY AtMoves
<1> QED
  BY <1>1, <1>2 DEF List

\* What is stored where no element is leaves the list as it is
LEMMA ListKeeps ==
  ASSUME NEW h \in Places, NEW t \in Places,
         NEW d \in [Places -> Elements], NEW e \in [Places -> Elements],
         \A p \in Places : p # t /\ p # Before(h) => e[p] = d[p]
  PROVE  List(h, t, e) = List(h, t, d)
<1>1. \A i \in 1 .. Span(h, t) : e[At(h, i)] = d[At(h, i)]
  BY AtMoves
<1> QED
  BY <1>1 DEF List

\* A tail that moves on appends the element it was at
LEMMA ListPut ==
  ASSUME NEW h \in Places, NEW t \in Places, NEW d \in [Places -> Elements], Following(t) # h
  PROVE  List(h, Following(t), d) = Append(List(h, t, d), d[t])
<1> DEFINE l == List(h, t, d)
           m == List(h, Following(t), d)
<1>1. Following(t) \in Places /\ d[t] \in Elements
  BY AfterAndBefore
<1>2. /\ l \in Seq(Elements) /\ Len(l) = Span(h, t) /\ Len(l) \in Nat
      /\ \A i \in 1 .. Span(h, t) : l[i] = d[At(h, i)]
  BY ListShape
<1>3. /\ m \in Seq(Elements) /\ Len(m) = Len(l) + 1
      /\ \A i \in 1 .. Len(l) + 1 : m[i] = d[At(h, i)]
  <2>1. Span(h, Following(t)) = Span(h, t) + 1
    BY SpanMoves
  <2> QED
    <3> DEFINE g == Following(t)
    <3>1. g \in Places
      BY <1>1
    <3> HIDE DEF g
    <3>2. /\ List(h, g, d) \in Seq(Elements) /\ Len(List(h, g, d)) = Span(h, g)
          /\ \A i \in 1 .. Span(h, g) : List(h, g, d)[i] = d[At(h, i)]
      BY <3>1, ListShape
    <3>3. Span(h, g) = Len(l) + 1
      BY <1>2, <2>1 DEF g
    <3> QED
      BY <3>2, <3>3 DEF g
<1>4. At(h, Len(l) + 1) = t
  BY <1>2, AtMoves
<1> HIDE DEF l, m
<1>5. Append(l, d[t]) \in Seq(Elements) /\ Len(Append(l, d[t])) = Len(l) + 1
  BY <1>1, <1>2
<1>6. \A i \in 1 .. Len(m) : m[i] = Append(l, d[t])[i]
  BY <1>1, <1>2, <1>3, <1>4
<1>7. m = Append(l, d[t])
  BY <1>3, <1>5, <1>6, SeqEqual
<1> QED
  BY <1>7 DEF l, m

\* A head that moves on leaves its element out
LEMMA ListTake ==
  ASSUME NEW h \in Places, NEW t \in Places, NEW d \in [Places -> Elements], h # t
  PROVE  List(h, t, d) = <<d[h]>> \o List(Following(h), t, d)
<1> DEFINE l == List(h, t, d)
           m == List(Following(h), t, d)
<1>1. Following(h) \in Places /\ d[h] \in Elements
  BY AfterAndBefore
<1>2. /\ m \in Seq(Elements) /\ Len(m) = Span(Following(h), t) /\ Len(m) \in Nat
      /\ \A i \in 1 .. Len(m) : m[i] = d[At(Following(h), i)]
  <2> DEFINE g == Following(h)
  <2>1. g \in Places
    BY <1>1
  <2> HIDE DEF g
  <2>2. /\ List(g, t, d) \in Seq(Elements) /\ Len(List(g, t, d)) = Span(g, t) /\ Span(g, t) \in Nat
        /\ \A i \in 1 .. Span(g, t) : List(g, t, d)[i] = d[At(g, i)]
    BY <2>1, ListShape
  <2> QED
    BY <2>2 DEF g
<1>3. /\ l \in Seq(Elements) /\ Len(l) = Len(m) + 1
      /\ \A i \in 1 .. Len(m) + 1 : l[i] = d[At(h, i)]
  <2>1. Span(h, t) = Span(Following(h), t) + 1
    BY SpanMoves
  <2> QED
    BY <1>2, <2>1, ListShape
<1>4. At(h, 1) = h /\ \A i \in 1 .. Len(m) : At(Following(h), i) = At(h, i + 1)
  BY <1>2, AtMoves
<1> HIDE DEF l, m
<1>5. <<d[h]>> \o m \in Seq(Elements) /\ Len(<<d[h]>> \o m) = Len(m) + 1
  BY <1>1, <1>2
<1>6. \A i \in 1 .. Len(l) : l[i] = (<<d[h]>> \o m)[i]
  <2> SUFFICES ASSUME NEW i \in 1 .. Len(m) + 1
               PROVE  l[i] = (<<d[h]>> \o m)[i]
    BY <1>3
  <2>1. CASE i = 1
    BY <1>1, <1>2, <1>3, <1>4, <2>1
  <2>2. CASE i # 1
    <3>1. i - 1 \in 1 .. Len(m) /\ i = (i - 1) + 1
      BY <1>2, <2>2
    <3>2. l[i] = d[At(h, i)] /\ m[i - 1] = d[At(h, i)]
      BY <1>2, <1>3, <1>4, <3>1
    <3>3. (<<d[h]>> \o m)[i] = m[i - 1]
      BY <1>1, <1>2, <3>1
    <3> QED
      BY <3>2, <3>3
  <2> QED
    BY <2>1, <2>2
<1>7. l = <<d[h]>> \o m
  BY <1>3, <1>5, <1>6, SeqEqual
<1> QED
  BY <1>7 DEF l, m

\* What a ring and a worker that has given a place up hold together
ContentsAt(r, reading) ==
  (IF reading THEN <<r.data[Before(r.head)]>> ELSE << >>) \o List(r.head, r.tail, r.data)

Reading(q) == \E w \in Workers : worker[w].pc = "read" /\ Victim(w) = q

LEMMA Joining ==
  ASSUME NEW x \in Elements, NEW y \in Elements, NEW l \in Seq(Elements)
  PROVE  /\ << >> \o l = l
         /\ <<x>> \o l # << >> /\ Head(<<x>> \o l) = x /\ Tail(<<x>> \o l) = l
         /\ << >> \o Append(l, y) = Append(l, y)
         /\ <<x>> \o Append(l, y) = Append(<<x>> \o l, y)
         /\ Len(<<x>> \o l) = Len(l) + 1
<1>1. /\ <<x>> \in Seq(Elements) /\ Len(<<x>>) = 1 /\ <<x>>[1] = x
      /\ Append(l, y) \in Seq(Elements) /\ <<x>> \o l \in Seq(Elements)
  OBVIOUS
<1>2. << >> \o l = l /\ << >> \o Append(l, y) = Append(l, y)
  BY <1>1, ConcatEmptySeq
<1>3. Len(<<x>> \o l) = Len(l) + 1 /\ Len(l) \in Nat
  OBVIOUS
<1>4. <<x>> \o l # << >> /\ Head(<<x>> \o l) = x
  BY <1>3
<1>5. Tail(<<x>> \o l) = l
  <2>1. Tail(<<x>> \o l) \in Seq(Elements) /\ Len(Tail(<<x>> \o l)) = Len(l)
    BY <1>1, <1>3, <1>4
  <2>2. \A i \in 1 .. Len(l) : Tail(<<x>> \o l)[i] = l[i]
    BY <1>1, <1>3, <1>4
  <2> QED
    BY <2>1, <2>2, SeqEqual
<1>6. <<x>> \o Append(l, y) = Append(<<x>> \o l, y)
  <2>1. /\ <<x>> \o Append(l, y) \in Seq(Elements) /\ Append(<<x>> \o l, y) \in Seq(Elements)
        /\ Len(<<x>> \o Append(l, y)) = Len(l) + 2 /\ Len(Append(<<x>> \o l, y)) = Len(l) + 2
    BY <1>1, <1>3
  <2>2. \A i \in 1 .. Len(l) + 2 : (<<x>> \o Append(l, y))[i] = Append(<<x>> \o l, y)[i]
    BY <1>1, <1>3
  <2> QED
    BY <2>1, <2>2, SeqEqual
<1> QED
  BY <1>2, <1>3, <1>4, <1>5, <1>6

LEMMA ContentsHere ==
  ASSUME IInv, NEW q \in Workers
  PROVE  /\ Contents(q) = ContentsAt(queue[q], Reading(q))
         /\ queue[q].head \in Places /\ queue[q].tail \in Places
         /\ queue[q].data \in [Places -> Elements]
         /\ List(queue[q].head, queue[q].tail, queue[q].data) \in Seq(Elements)
         /\ Len(List(queue[q].head, queue[q].tail, queue[q].data)) <= NumTasksPerThread - 1
         /\ Before(queue[q].head) \in Places
         /\ queue[q].data[Before(queue[q].head)] \in Elements
<1>1. /\ queue[q].head \in Places /\ queue[q].tail \in Places
      /\ queue[q].data \in [Places -> Elements]
  BY DEF IInv, TypeOK, Elements
<1>2. Contents(q) = ContentsAt(queue[q], Reading(q))
  BY DEF Contents, ContentsAt, Reading, List, Span, At, Length
<1>3. Before(queue[q].head) \in Places /\ queue[q].data[Before(queue[q].head)] \in Elements
  BY <1>1, AfterAndBefore
<1>4. /\ List(queue[q].head, queue[q].tail, queue[q].data) \in Seq(Elements)
      /\ Len(List(queue[q].head, queue[q].tail, queue[q].data)) <= NumTasksPerThread - 1
  BY <1>1, ListShape
<1> QED
  BY <1>1, <1>2, <1>3, <1>4

LEMMA ContentsThen ==
  ASSUME NEW q \in Workers
  PROVE  Contents(q)' = ContentsAt(queue'[q], Reading(q)')
  BY DEF Contents, ContentsAt, Reading, List, Span, At, Length

\* Which rings a worker has given a place up in
LEMMA ReadingSame ==
  ASSUME \A w \in Workers : (worker'[w].pc = "read" <=> worker[w].pc = "read")
                            /\ (worker[w].pc = "read" => worker'[w].tries = worker[w].tries),
         NEW q \in Workers
  PROVE  Reading(q)' = Reading(q)
<1>1. \A w \in Workers : worker[w].pc = "read" => Victim(w)' = Victim(w)
  BY DEF Victim
<1>2. Reading(q)' <=> Reading(q)
  BY <1>1 DEF Reading
<1> QED
  BY <1>2 DEF Reading

LEMMA OneReader ==
  ASSUME IInv, NEW q \in Workers
  PROVE  /\ lock = NumThread => ~Reading(q)
         /\ \A w \in Workers : lock = w => (Reading(q) <=> Victim(w) = q)
         /\ (\A w \in Workers : worker[w].pc = "returned") => ~Reading(q)
<1>1. (\A w \in Workers : worker[w].pc = "read" <=> lock = w) /\ NumThread \notin Workers
  BY SizeAssumption, SMTT(30) DEF IInv, Shapes, Workers
<1> QED
  BY <1>1 DEF Reading

\* The three ways in which a ring may change
FifoStep(q) ==
  LET before == Contents(q) after == Contents(q)'
  IN \/ after = before
     \/ Len(after) <= NumTasksPerThread /\ \E s \in Slots : after = Append(before, s)
     \/ /\ before # << >> /\ after = Tail(before)
        /\ \/ \E w \in Workers : worker[w].pc = "read" /\ worker'[w].slot = Head(before)
           \/ caller.pc = "drain"

\* The element is stored before the index is published, at a place that nobody reads
LEMMA StoreIsUnseen ==
  ASSUME IInv, IInv', ScheduleCapture, NEW q \in Workers
  PROVE  FifoStep(q)
<1> DEFINE k == schedulerIndex % NumThread
           s == taskId % TaskCount
<1>1. UNCHANGED worker
  BY DEF ScheduleCapture
<1>2. Reading(q)' = Reading(q)
  BY <1>1, ReadingSame
<1>3. \/ queue' = queue
      \/ /\ Following(queue[k].tail) # queue[k].head
         /\ queue' = [queue EXCEPT ![k].data[queue[k].tail] = s]
  BY DEF ScheduleCapture, IsFull
<1>4. /\ queue'[q].head = queue[q].head /\ queue'[q].tail = queue[q].tail
      /\ queue'[q].data \in [Places -> Elements]
      /\ \/ queue'[q].data = queue[q].data
         \/ /\ Following(queue[q].tail) # queue[q].head
            /\ \A p \in Places : p # queue[q].tail => queue'[q].data[p] = queue[q].data[p]
  <2>1. queue \in [Workers -> [head : Places, tail : Places, data : [Places -> Slots \cup {NoSlot}]]]
        /\ queue' \in [Workers -> [head : Places, tail : Places, data : [Places -> Slots \cup {NoSlot}]]]
    BY DEF IInv, TypeOK
  <2> HIDE DEF k, s
  <2>2. CASE queue' = queue
    BY <2>1, <2>2 DEF Elements
  <2>3. CASE /\ Following(queue[k].tail) # queue[k].head
             /\ queue' = [queue EXCEPT ![k].data[queue[k].tail] = s]
    <3>1. queue'[q].data \in [Places -> Elements]
      BY <2>1 DEF Elements
    <3>2. CASE q = k
      BY <2>1, <2>3, <3>1, <3>2
    <3>3. CASE q # k
      BY <2>1, <2>3, <3>1, <3>3
    <3> QED
      BY <3>2, <3>3
  <2> QED
    BY <1>3, <2>2, <2>3
<1> DEFINE h == queue[q].head
           t == queue[q].tail
           d == queue[q].data
           e == queue'[q].data
<1>5. h \in Places /\ t \in Places /\ d \in [Places -> Elements] /\ Before(h) \in Places
  BY ContentsHere
<1>6. List(h, t, e) = List(h, t, d)
  BY <1>4, <1>5, ListKeeps
<1>7. e[Before(h)] = d[Before(h)]
  <2>1. Following(t) # h => t # Before(h)
    BY <1>5, PlacesMove
  <2> QED
    BY <1>4, <1>5, <2>1
<1>8. ContentsAt(queue'[q], Reading(q)') = ContentsAt(queue[q], Reading(q))
  BY <1>2, <1>4, <1>6, <1>7 DEF ContentsAt
<1>9. Contents(q)' = Contents(q)
  BY <1>8, ContentsHere, ContentsThen
<1> QED
  BY <1>9 DEF FifoStep

LEMMA PublishAppends ==
  ASSUME IInv, IInv', PushTail, NEW q \in Workers
  PROVE  FifoStep(q)
<1> DEFINE k == caller.thread
<1>1. UNCHANGED worker /\ k \in Workers /\ caller.pc = "tail"
  BY DEF PushTail, IInv, Shapes
<1>2. Reading(q)' = Reading(q) /\ Reading(q) \in BOOLEAN
  BY <1>1, ReadingSame DEF Reading
<1>3. queue' = [queue EXCEPT ![k].tail = Following(queue[k].tail)]
  BY <1>1 DEF PushTail, IInv, TypeOK
<1>4. CASE q # k
  <2>1. queue'[q] = queue[q]
    BY <1>3, <1>4 DEF IInv, TypeOK
  <2> QED
    BY <1>2, <2>1, ContentsHere, ContentsThen DEF FifoStep
<1>5. CASE q = k
  <2> DEFINE h == queue[q].head
             t == queue[q].tail
             d == queue[q].data
             l == List(h, t, d)
             x == d[Before(h)]
             y == d[t]
  <2>1. /\ queue'[q].head = h /\ queue'[q].tail = Following(t) /\ queue'[q].data = d
    BY <1>1, <1>3, <1>5 DEF IInv, TypeOK
  <2>2. Following(t) # h /\ y \in Slots
    BY <1>1, <1>5 DEF IInv, Placed
  <2>3. /\ h \in Places /\ t \in Places /\ d \in [Places -> Elements] /\ x \in Elements
        /\ l \in Seq(Elements) /\ y \in Elements
    BY <2>2, ContentsHere DEF Elements
  <2>4. List(h, Following(t), d) = Append(l, y)
    BY <2>2, <2>3, ListPut
  <2>5. Contents(q) = (IF Reading(q) THEN <<x>> ELSE << >>) \o l
    BY ContentsHere DEF ContentsAt
  <2>6. Contents(q)' = (IF Reading(q) THEN <<x>> ELSE << >>) \o Append(l, y)
    BY <1>2, <2>1, <2>4, ContentsThen DEF ContentsAt
  <2>7. Len(Append(l, y)) <= NumTasksPerThread - 1 /\ Append(l, y) \in Seq(Elements)
    <3>1. Len(List(h, Following(t), d)) <= NumTasksPerThread - 1
      <4> DEFINE g == Following(t)
      <4>1. g \in Places
        BY <2>3, AfterAndBefore
      <4> HIDE DEF g
      <4>2. Len(List(h, g, d)) = Span(h, g) /\ Span(h, g) <= NumTasksPerThread - 1
        <5> HIDE DEF h, t, d, l, x, y
        <5> QED
          BY <2>3, <4>1, ListShape
      <4>3. Len(List(h, g, d)) <= NumTasksPerThread - 1
        BY <4>2
      <4> QED
        BY <4>3 DEF g
    <3> QED
      BY <2>3, <2>4, <3>1
  <2> HIDE DEF h, t, d, l, x, y
  <2>8. Contents(q)' = Append(Contents(q), y)
    BY <2>3, <2>5, <2>6, Joining
  <2>9. Len(Contents(q)') <= NumTasksPerThread
    <3>1. CASE Reading(q)
      <4>1. Len(<<x>> \o Append(l, y)) = Len(Append(l, y)) + 1
        BY <2>3, <2>7, Joining
      <4>2. Len(<<x>> \o Append(l, y)) <= NumTasksPerThread
        BY <2>7, <4>1, SizeAssumption
      <4> QED
        BY <2>6, <3>1, <4>2
    <3>2. CASE ~Reading(q)
      <4>1. Contents(q)' = Append(l, y)
        BY <2>3, <2>6, <3>2, Joining
      <4>2. Len(Append(l, y)) <= NumTasksPerThread
        BY <2>7, SizeAssumption
      <4> QED
        BY <4>1, <4>2
    <3> QED
      BY <3>1, <3>2
  <2> QED
    BY <2>2, <2>8, <2>9 DEF FifoStep
<1> QED
  BY <1>4, <1>5

\* The place that pop gives up still counts, until it is read
LEMMA PopHeadIsUnseen ==
  ASSUME IInv, IInv', NEW w \in Workers, PopHead(w), NEW q \in Workers
  PROVE  FifoStep(q)
<1> DEFINE k == Victim(w)
<1>1. /\ lock = NumThread /\ lock' = w /\ k \in Workers
      /\ queue[k].head # queue[k].tail
      /\ queue' = [queue EXCEPT ![k].head = Following(queue[k].head)]
      /\ worker' = [worker EXCEPT ![w].pc = "read"]
  BY VictimIsWorker DEF PopHead, IsEmpty, IInv
<1>2. Victim(w)' = k
  <2>1. worker'[w].tries = worker[w].tries
    BY <1>1 DEF IInv, Shapes
  <2> QED
    BY <2>1 DEF Victim
<1>3. Reading(q) = FALSE
  BY <1>1, OneReader DEF Reading
<1>4. Reading(q)' = (q = k)
  <2>1. Reading(q)' <=> Victim(w)' = q
    <3>1. \A v \in Workers : worker'[v].pc = "read" <=> lock' = v
      BY DEF IInv, Shapes
    <3> QED
      BY <1>1, <3>1 DEF Reading
  <2> QED
    BY <1>2, <2>1 DEF Reading
<1> HIDE DEF k
<1>5. CASE q # k
  <2>1. queue'[q] = queue[q]
    BY <1>1, <1>5 DEF IInv, TypeOK
  <2>2. Reading(q)' = FALSE
    BY <1>4, <1>5
  <2> QED
    BY <1>3, <2>1, <2>2, ContentsHere, ContentsThen DEF FifoStep
<1>6. CASE q = k
  <2> DEFINE h == queue[q].head
             t == queue[q].tail
             d == queue[q].data
  <2>1. /\ queue'[q].head = Following(h) /\ queue'[q].tail = t /\ queue'[q].data = d
        /\ h # t
    BY <1>1, <1>6 DEF IInv, TypeOK
  <2>2. /\ h \in Places /\ t \in Places /\ d \in [Places -> Elements]
        /\ List(h, t, d) \in Seq(Elements) /\ d[h] \in Elements
    BY ContentsHere
  <2>3. List(h, t, d) = <<d[h]>> \o List(Following(h), t, d)
    BY <2>1, <2>2, ListTake
  <2>4. Before(Following(h)) = h
    BY <2>1, <2>2, PlacesMove
  <2>5. Contents(q) = List(h, t, d)
    <3>1. Contents(q) = << >> \o List(h, t, d)
      BY <1>3, ContentsHere DEF ContentsAt
    <3> QED
      BY <2>2, <3>1, Joining
  <2>6. Reading(q)' = TRUE
    BY <1>4, <1>6
  <2>7. Contents(q)' = <<d[h]>> \o List(Following(h), t, d)
    BY <2>1, <2>4, <2>6, ContentsThen DEF ContentsAt
  <2> QED
    BY <2>3, <2>5, <2>7 DEF FifoStep
<1> QED
  BY <1>5, <1>6

LEMMA PopReadTakes ==
  ASSUME IInv, IInv', NEW w \in Workers, PopRead(w), NEW q \in Workers
  PROVE  FifoStep(q)
<1> DEFINE k == Victim(w)
           x == queue[k].data[Before(queue[k].head)]
<1>1. /\ worker[w].pc = "read" /\ k \in Workers /\ lock' = NumThread
      /\ queue' = [queue EXCEPT ![k].data[Before(queue[k].head)] = NoSlot]
      /\ worker' = [worker EXCEPT ![w].pc = "begin", ![w].slot = x]
  BY VictimIsWorker DEF PopRead, IInv
<1>2. lock = w /\ worker'[w].slot = x
  <2>1. lock = w
    BY <1>1, Zenon DEF IInv, Shapes
  <2>2. worker \in [Workers -> [pc : {"top", "asleep", "pop", "read", "begin", "running",
                                     "finish", "returned"},
                               tries : Nat, slot : Slots \cup {NoSlot}, job : Jobs \cup {NoJob}]]
    BY Zenon DEF IInv, Shapes
  <2> HIDE DEF k, x
  <2> QED
    BY <1>1, <2>1, <2>2
<1>3. Reading(q) = (q = k)
  BY <1>2, OneReader DEF Reading
<1>4. Reading(q)' = FALSE
  <2>1. (\A v \in Workers : worker'[v].pc = "read" <=> lock' = v) /\ NumThread \notin Workers
    BY SizeAssumption, SMTT(30) DEF IInv, Shapes, Workers
  <2> QED
    BY <1>1, <2>1 DEF Reading
<1> HIDE DEF k
<1>5. CASE q # k
  <2>1. queue'[q] = queue[q]
    BY <1>1, <1>5 DEF IInv, TypeOK
  <2>2. Reading(q) = FALSE
    BY <1>3, <1>5
  <2> QED
    BY <1>4, <2>1, <2>2, ContentsHere, ContentsThen DEF FifoStep
<1>6. CASE q = k
  <2> DEFINE h == queue[q].head
             t == queue[q].tail
             d == queue[q].data
             e == queue'[q].data
             l == List(h, t, d)
  <2>1. /\ h \in Places /\ t \in Places /\ d \in [Places -> Elements]
        /\ l \in Seq(Elements) /\ d[Before(h)] \in Elements
    BY ContentsHere
  <2>2. queue'[q].head = h /\ queue'[q].tail = t
        /\ \A p \in Places : p # Before(h) => e[p] = d[p]
    BY <1>1, <1>6, <2>1 DEF IInv, TypeOK
  <2>3. e \in [Places -> Elements]
    BY DEF IInv, TypeOK, Elements
  <2>4. List(h, t, e) = l
    BY <2>1, <2>2, <2>3, ListKeeps
  <2>5. Contents(q) = <<d[Before(h)]>> \o l
    <3>1. Reading(q) = TRUE
      BY <1>3, <1>6
    <3> QED
      BY <3>1, ContentsHere DEF ContentsAt
  <2>6. Contents(q)' = l
    <3>1. Contents(q)' = << >> \o l
      BY <1>4, <2>2, <2>4, ContentsThen DEF ContentsAt
    <3> QED
      BY <2>1, <3>1, Joining
  <2> HIDE DEF l
  <2>7. /\ Contents(q) # << >> /\ Contents(q)' = Tail(Contents(q))
        /\ Head(Contents(q)) = d[Before(h)]
    BY <2>1, <2>5, <2>6, Joining
  <2>8. worker'[w].slot = Head(Contents(q))
    BY <1>2, <1>6, <2>7
  <2> QED
    BY <1>1, <2>7, <2>8 DEF FifoStep
<1> QED
  BY <1>5, <1>6

\* The destructor takes what no worker took
LEMMA DrainTakes ==
  ASSUME IInv, IInv', DrainOne, NEW q \in Workers
  PROVE  FifoStep(q)
<1>1. /\ UNCHANGED worker /\ caller.pc = "drain"
      /\ \A w \in Workers : worker[w].pc = "returned"
  BY DEF DrainOne, IInv, Shapes
<1>2. Reading(q)' = FALSE /\ Reading(q) = FALSE
  BY <1>1, ReadingSame, OneReader DEF Reading
<1>3. PICK k \in Workers : /\ queue[k].head # queue[k].tail
                           /\ queue' = [queue EXCEPT ![k].head = Following(queue[k].head)]
  BY DEF DrainOne, IsEmpty
<1>4. CASE q # k
  <2>1. queue'[q] = queue[q]
    BY <1>3, <1>4 DEF IInv, TypeOK
  <2> QED
    BY <1>2, <2>1, ContentsHere, ContentsThen DEF FifoStep
<1>5. CASE q = k
  <2> DEFINE h == queue[q].head
             t == queue[q].tail
             d == queue[q].data
             m == List(Following(h), t, d)
  <2>1. /\ queue'[q].head = Following(h) /\ queue'[q].tail = t /\ queue'[q].data = d
        /\ h # t
    BY <1>3, <1>5 DEF IInv, TypeOK
  <2>2. /\ h \in Places /\ t \in Places /\ d \in [Places -> Elements]
        /\ List(h, t, d) \in Seq(Elements) /\ d[h] \in Elements
    BY ContentsHere
  <2>3. m \in Seq(Elements)
    BY <2>2, AfterAndBefore, ListShape
  <2>4. Contents(q) = <<d[h]>> \o m
    <3>1. Contents(q) = << >> \o List(h, t, d)
      BY <1>2, ContentsHere DEF ContentsAt
    <3>2. List(h, t, d) = <<d[h]>> \o m
      BY <2>1, <2>2, ListTake
    <3> QED
      BY <2>2, <3>1, <3>2, Joining
  <2>5. Contents(q)' = m
    <3>1. Contents(q)' = << >> \o m
      BY <1>2, <2>1, ContentsThen DEF ContentsAt
    <3> QED
      BY <2>2, <2>3, <3>1, Joining
  <2> HIDE DEF m
  <2>6. Contents(q) # << >> /\ Contents(q)' = Tail(Contents(q))
    BY <2>2, <2>3, <2>4, <2>5, Joining
  <2> QED
    BY <1>1, <2>6 DEF FifoStep
<1> QED
  BY <1>4, <1>5

LEMMA OthersKeepRings ==
  ASSUME IInv, [Next]_vars, NEW q \in Workers, ~ScheduleCapture, ~PushTail, ~DrainOne,
         \A w \in Workers : ~PopHead(w) /\ ~PopRead(w)
  PROVE  FifoStep(q)
<1>1. /\ UNCHANGED queue
      /\ \A w \in Workers : (worker'[w].pc = "read" <=> worker[w].pc = "read")
                            /\ (worker[w].pc = "read" => worker'[w].tries = worker[w].tries)
  <2>1. CASE UNCHANGED vars
    BY <2>1 DEF vars
  <2>2. CASE HandOver \/ Drop \/ Cancel \/ Stop \/ Taking
    BY <2>2 DEF HandOver, Drop, Cancel, Stop, Taking, TakeFuture, GetResult
  <2>3. CASE Calling \/ Destroying
    <3>1. UNCHANGED queue /\ (UNCHANGED worker \/ \E W \in SUBSET Asleep : Wake(W))
      BY <2>3 DEF Calling, Destroying, Count, Notify, StopNotify, Join, DrainDone, Asleep
    <3>2. ASSUME NEW W \in SUBSET Asleep, Wake(W), NEW w \in Workers
          PROVE  \/ worker'[w] = worker[w]
                 \/ worker[w].pc = "asleep" /\ worker'[w] = [worker[w] EXCEPT !.pc = "top"]
      BY <3>2 DEF Wake, Asleep
    <3>3. \A w \in Workers : [worker[w] EXCEPT !.pc = "top"].pc = "top"
      BY DEF IInv, Shapes
    <3> QED
      BY <3>1, <3>2, <3>3
  <2>4. ASSUME NEW w \in Workers, Popping(w) \/ Working(w)
        PROVE  /\ UNCHANGED queue
               /\ \A v \in Workers : v # w => worker'[v] = worker[v]
               /\ worker[w].pc # "read" /\ worker'[w].pc # "read"
    <3>1. worker[w] \in [pc : {"top", "asleep", "pop", "read", "begin", "running",
                               "finish", "returned"},
                         tries : Nat, slot : Slots \cup {NoSlot}, job : Jobs \cup {NoJob}]
      BY DEF IInv, Shapes
    <3>2. worker = [v \in Workers |-> worker[v]]
      BY DEF IInv, Shapes
    <3>3. CASE PopEmpty(w)
      BY <3>1, <3>2, <3>3 DEF PopEmpty
    <3>4. CASE WorkerTop(w)
      BY <3>1, <3>2, <3>4 DEF WorkerTop
    <3>5. CASE Begin(w) \/ SetResult(w) \/ Finish(w)
      BY <3>1, <3>2, <3>5 DEF Begin, SetResult, Finish
    <3> QED
      BY <2>4, <3>3, <3>4, <3>5 DEF Popping, Working
  <2> QED
    BY <2>1, <2>2, <2>3, <2>4 DEF Next
<1>2. Reading(q)' = Reading(q)
  BY <1>1, ReadingSame
<1>3. Contents(q)' = Contents(q)
  BY <1>1, <1>2, ContentsHere, ContentsThen
<1> QED
  BY <1>3 DEF FifoStep

\* Every ring is a FIFO queue of at most as many tasks as it has places, whoever pops
\* from it: what a worker gets is the oldest, although pop moves the head before it
\* reads the element and the scheduling thread stores without any lock.
THEOREM RingsHold ==
  Spec => RingsAreFifo
<1>1. IInv /\ IInv' /\ [Next]_vars => \A q \in Workers : FifoStep(q)
  <2> SUFFICES ASSUME IInv, IInv', [Next]_vars, NEW q \in Workers
               PROVE  FifoStep(q)
    OBVIOUS
  <2> QED
    BY StoreIsUnseen, PublishAppends, PopHeadIsUnseen, PopReadTakes, DrainTakes, OthersKeepRings
<1>2. IInv /\ IInv' /\ [Next]_vars =>
        [\A q \in Workers :
           LET before == Contents(q) after == Contents(q)'
           IN \/ after = before
              \/ Len(after) <= NumTasksPerThread /\ \E s \in Slots : after = Append(before, s)
              \/ /\ before # << >> /\ after = Tail(before)
                 /\ \/ \E w \in Workers : worker[w].pc = "read" /\ worker'[w].slot = Head(before)
                    \/ caller.pc = "drain"
        ]_vars
  BY <1>1 DEF FifoStep
<1> QED
  BY <1>2, AlwaysIInv, PTL DEF Spec, RingsAreFifo
==============================================================================
