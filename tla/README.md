# TLA+ models of dxvk-remix: the bridge, dxvk's threads, and the renderer's host side

dxvk-remix puts a path-traced renderer under old Direct3D 9 games. Three of its
parts are concurrent programs whose correctness is in the order of steps and not
in their arithmetic:

* the **bridge** (`src/bridge`), which runs a 32-bit game and the 64-bit renderer as
  two processes and carries every D3D9 call between them through shared memory,
  named semaphores and exit callbacks;
* the **core threads of dxvk** (`src/src/dxvk`), which take the recorded commands to
  the GPU: the command stream thread, the submit thread and the finish thread;
* the **host side of the renderer** (`src/src/util`, `src/src/dxvk/rtx_render`): the
  worker thread pool that processes geometry, the streaming of textures, and the
  layered options that any thread may change.

This directory holds TLA+ models of them, the instances TLC checks, and proofs
that TLAPS checks. All names follow the source; every action names the code it
translates, and `PROJECT.json` ("map") gives the lines of each definition.

## 1. Inventory

| Part | Source | State | Operations | Interacts with |
|---|---|---|---|---|
| command ring | `util_atomiccircularqueue.h` | header array, two indices in shared memory | `push`, `peek`, `pull` with time-outs | one writer process, one reader process, no lock |
| data queue | `util_circularbuffer.h`, `util_circularqueue.h`, `util_ipcchannel.h`, `util_bridgecommand.*` | data ring, two private positions, `serverDataPos`, `clientDataExpectedPos`, `serverResetPosRequired`, data semaphore | `Command`, `send_data`, `syncDataQueue`, `handleOverwriteCondition`; server: `get_data`, end of the loop | client thread under the channel mutex, server loop; headers through the command ring |
| responses | `util_bridgecommand.*` | response ring and its data ring, `s_cmdUID` | `waitForCommand` by UID, `get_data`, `pop_front`, `ensureQueueEmpty` | all the game's threads, outside every lock; server |
| present semaphore | `util_semaphore.*`, `d3d9_device.cpp`, `d3d9_swapchain.cpp`, `server/main.cpp` | a named semaphore, retries | `syncOnPresent`, the server's Present handlers | client thread, server loop, both exit callbacks |
| lifecycle | `d3d9_lss.cpp`, `util_bridge_state.h`, `util_process.cpp`, `server/main.cpp` | both sides' BridgeState, `gbBridgeRunning` of each process, exit callbacks, `ghModule` | handshake, `RemixDetach`, `OnServerExited`, `OnClientExited`, `wWinMain` | two main threads, a callback thread in each process |
| shared heap | `util_sharedheap.*`, `lockable_buffer.h` | segments, allocations, one state byte per chunk | allocate, grow, lazy deallocate, `lock`/`unlock` | client allocates, server frees through the state byte |
| command stream thread | `dxvk_cs.*` and its users in `d3d9`, `d3d11` | queue of chunks, dispatched and executed counts, two condition variables | record, flush, `dispatchChunk`, `synchronize`, destruction | device threads under the device lock, worker |
| submission queue | `dxvk_queue.*`, `dxvk_device.*`, `d3d9_swapchain.cpp` | submit and finish queues, `m_pending`, `m_lastError`, two mutexes, three condition variables | `submit`, `present`, the waits, both threads' loops, destruction | command stream thread, application, GPU |
| worker thread pool | `util_threadpool.h`, `util_atomic_queue.h`, `d3d9_rtx.cpp` | a ring of task numbers per worker, task slots with their results, `m_numTasks`, a condition variable | `Schedule`, `processWork`, stealing, `Future::get`, `cancel`, destruction | scheduling thread, workers, the command stream thread that takes results |
| texture streaming | `rtx_texture_manager.*`, `rtx_texture.cpp`, `rtx_staging_ring.h` | each texture's state and requested mips, `m_texturesToProcess`, `m_readyTextures`, staging ring with its use counts, hot-reload requests | preload, garbage collection, preservation, demotion, hot reload, `asyncLoop`, upload, shutdown | render thread, loader, file watch, runner, GPU |
| RTX option layers | `rtx_option*`, `util_hash_set_layer.h`, `rtx_option_layer_action.*` | each option's queue of layer values, resolved values, dirty map, layers' requests and dirty flags | set (deferred, immediate, hashes), acquire, release, reload, move, clear, remove redundant values, `applyPendingValues` | any thread that sets options, the render thread, the options' callbacks |

Not modelled, with the reason in `PROJECT.json`: the D3D9 proxies (some four
hundred forwarding calls whose protocol is that of the data queue and the
responses), the module channel (a second instance of the same template), the
window messages, hooks, configuration, logging and launcher, the Remix API,
scene and instance management, USD, the D3D9/D3D11 front ends, the shader
compilers, dxvk's allocators and caches, the render passes, and the vendored code.

What is hard in the parts above, and what must hold, is listed line by line under
"hazards" in `PROJECT.json`. In short:

* *two processes, no lock*: each side sees the other's indices and flags change
  between any two of its own steps (ring, data queue, shared heap);
* *a wait is abandoned and its answer comes late* (responses, semaphore);
* *a process ends between two steps of the other* (lifecycle, semaphore);
* *wrap-around, full, last chunk* (rings, data queue, heap, task slots);
* *a missed notification, or everyone waiting* (command stream, submission queue, pool);
* *a count or a sequence number is taken for a fact about someone else* (command
  stream, submission queue, staging ring, pool);
* *a copy that must follow its original*: blend settings in every value of a layer,
  resolved values, a texture's image after its file changed.

## 2. Modules

Each component is one module. `MC<module>.tla` instantiates it for TLC, and
`<module>Proofs.tla` holds its proofs; `BridgeProofs` those of the ring, the
responses and the data queue.

**AtomicCircularQueue** - one step per access to shared memory. The writer's
control point `wpc` goes `idle -> check -> store -> stored -> idle` (compare with the
reader's index, store the header, publish the index), the reader's goes through
`peek` or `pull` to a state in which its caller copies the header from the reference it was
given. A store is two steps, and between them the slot holds `Torn`; that is how
the model sees a header read or handed out while it is being written.
**BoundedFifo** is the abstract specification, a queue of at most N-1 headers that
can also answer "nothing there"; `ImplementsFifo` is the refinement, the
abstract queue being the slots between the two indices.

**BridgeDataQueue** - the client's `Command` from its constructor to its destructor
(`sync`, `lap`, `wrap`, `test`, `announce`, `wait`, `resolved`, `write`: the
reads and tests of `syncDataQueue` are steps of their own, because the server moves
between them) against the server's loop (pop a command, pull its items,
publish the position, look for a waiting client, release it, clear its
announcement). A word of the ring is abstracted to the UID of the command that
wrote it. The size of the data ring is a setting of the program, so it is a variable
`M` that is chosen from `Sizes` at the start and never changes. The command ring is
the FIFO that `AtomicCircularQueue` implements.

**BridgeResponse** - threads take UIDs under the channel's mutex and then wait for
their response outside it. Only the header in front of the response ring is
ever compared; the data are read by position. An attempt fails when somebody else's
header is in front, and on an empty ring when it times out; the option
`disableTimeouts`, on by default (`global_options.h:129`, `:400`), makes the latter
impossible, and the variable `timeouts` is either, chosen at the start. So a wait may be
abandoned at any moment a foreign header is in front, and with time-outs also
at an empty ring. `PopsAfterFailure` are the callers that pop all the same (`Reset`).
The window is taken to have the focus; without it attempts are not counted either
(`infiniteRetries`, below).

**BridgeLifecycle** - the two main threads from `RemixAttach` and `wWinMain` to
their ends, the two exit callbacks on threads of their own, and the two command
rings. A wait that can fail may fail at any moment its command is absent.
`infiniteRetries` is the client's setting that its handlers of `WM_KILLFOCUS` and
`WM_SETFOCUS` switch (`message_channels.h:42-56`). The module
has no specification of its own: it gives the actions, of which `SendCommand` and
`Serve` are open to what a command means.

**PresentSync** - the frames on top of it, and the composition of the two: a Present
is a command of the lifecycle's ring after which the client's main thread is in
`syncOnPresent` (waits, retries, the bridge going down) and after which the server
releases a token, whether or not D3D reports success. While the client is in that
loop it does nothing else, and it may be there when the server crashes, hangs, or
when the callback turns the bridge off. `owed` is a history variable: the time-outs
the client has had less the releases that found the semaphore full.

**SharedHeap** - the client's allocator turn by turn (`finding`, `found`, `sent`), with its
ring of commands to the server, the state byte of each chunk, and the locks of
each buffer. A segment has its first chunk and its size, `nChunks` is the heap's
`m_nChunks`. `contents` says whose data a chunk holds.

**DxvkCsThread** - callers record commands into the current chunk under the device
lock, flush it, insert command lists, and synchronize, for a resource's number or for
everything; the worker takes a chunk, executes it a command at a time and counts
it in its next critical section. A condition variable is the set of threads
asleep on it.

**DxvkSubmissionQueue** - the command stream thread and the application's thread
queue lists and presents; the submit thread hands lists to the GPU under the
device queue's mutex; the finish thread waits for their fences, notifies and
pops. `m_mutex` is held for the length of an action, except where the code keeps it
across a call (`m_mutexHeld`). Lists are numbered; `gpu` is the set being
executed; the device may be lost at any moment.

**WorkerThreadPool** - one thread schedules: `ScheduleCapture` (full ring or capture
into the next slot, element stored), `PushTail`, `Notify`, `Count`, in the order of
the code. A worker goes `top -> pop -> read -> begin -> running -> finish`; its `tries`
is how far it has got in the rings of the others. `PopHead` and `PopRead` are two
steps, as `pop` moves the head before it reads. A third thread takes the results
through futures that travel in a bounded queue, as in `d3d9_rtx.cpp`; others are
dropped or cancelled. The slot of a task is its number modulo `TaskCount`: `lapped`
is the history of tasks whose slot was given away while a worker or a future still
needed it. `mode` holds the template parameters, chosen at the start: geometry processing
steals and spins, the ray tracing pipelines steal and sleep, the asset exporter only
sleeps.

**TextureStreaming** - a texture's record holds its state, whether it may be
demoted, its requested mips and the version of its asset; `shows` is the version in
its image. `ScheduleTextureLoad` is called by five operations of the render thread and
the loader with what each of them sets first. The runner goes
`top -> wait -> limit -> alloc -> readers -> push`; `alloc` and `readers` are the two
loads of `isInUse`, between which the render thread may upload a slice and the GPU
may finish with another. `ring.writers` counts staged slices, `ring.readers` command
lists that read one. A file may be missing or damaged (`Unreadable`): then
`dmaCopyDataToStaging` returns no mips, `Unread` takes the place of the version, and the
upload copies nothing but still counts the texture as loaded. `Blocking` bounds the
textures that a load or a draw may be unable to wait for.

**RtxOptionLayers** - an option's queue is a function from the layers that have a
value to that value with the blend settings it captured. The three kinds of
resolution are `Blended` (throughput from the strongest layer; integers on the scale
`One^N`; cut off below `1 / Cutoff`), `Merged` (hash sets with positive and negative
opinions) and `Strongest`; what resolving makes of numbers is clamped (`Clamp`) to the
option's limits, what a layer says is not. The callbacks of an option may move the
limits of another (`SetLimit`, `rtx_options.cpp:655-713`).
`applyPendingValues` is `ApplyLayers` under the update mutex, then up to
`MaxResolves` passes `ResolvePass`, `Callback`, `PassDone`, and `ClearDirty`; the
setters of other threads, and of callbacks, come between any two of these. `lost`
and `missed` are histories of the two things section 3 lists below.

### How they compose

`BoundedFifo` is the interface between the ring and everything above it:
`BridgeDataQueue`, `BridgeLifecycle` (so `PresentSync`) and `SharedHeap` model the
command ring as a bounded sequence, which `RingRefinesFifo` justifies for every size.
`BridgeResponse` and `BridgeDataQueue` are the two directions of the same `Bridge`
template. `PresentSync` extends `BridgeLifecycle`, and its run checks the properties of
both. `DxvkSubmissionQueue` starts where `DxvkCsThread` ends: its thread `cs`
is the worker of the other, seen from below; the thread that takes results in
`WorkerThreadPool` is that worker again.

## 3. What is checked

All bounds are in the `.cfg` files; those that are in guards are named constants
(`MaxItems`, `MaxCmds`, `MaxRetries`, `K`, `MaxUid`, `MaxLocks`, `MaxCommands`,
`MaxLists`, `MaxTasks`, `MaxReloads`, `MaxRefs`). One run has a constraint as well,
`MCBound` of `options`.

| Run | Bounds | What it shows |
|---|---|---|
| `ring` | 4 slots, 2 headers, time-outs | `NoSlotRace`: no slot is copied from while it is stored into, although `pull` gives a slot back before its caller has copied the header. `ImplementsFifo`: nothing lost, duplicated, reordered, torn. `PushCompletes`: a push into a full ring gets through. Four slots give empty, partly full, full and every wrap; pushes are unbounded. |
| `data` | data rings of 4 and 14 words, a command ring of one, items of one word or an object of two | `DataIntact`: what the server pulls is what was sent, while the commands in flight (one in the ring, one at either end, at most 4 words each) fit in the data ring, as they do in 14 words. `TokenMatchesWait`: the semaphore is raised only for a client that waits (or has exited), unless a wait was given up. `SendCompletes`: a send goes on, by signal, by giving up, or by ending the process. In 4 words nearly every command meets an unread one, so that every path of the guard is taken. |
| `response` | 2 threads, 4 commands, with and without time-outs, abandoned waits, one thread that pops after a failed one | `OwnResponse`, `ExclusiveReader`: UIDs alone keep the unlocked rings apart, until that pop. `CallsReturn`: every call ends, without time-outs too: there only a foreign header ends a wait, but whoever takes another thread's response leaves its own in the ring, so no caller is left with an empty one. Two threads and four commands allow one wait to be abandoned, its response to block the ring, and the other thread to call twice. |
| `present` | 2 frames, 1 retry, a command ring of 4, every failure allowed | `LeadBounded`, `TokenArrives`, `PresentCompletes` for the frames, `NoSpuriousAbort`, `ServerGoneAfterClient`, `ServerLossNoticed`, `DetachCompletes` for the processes, in every order of handshake, frames, detach, crash, hang, callback and change of focus. Frames are unbounded; a ring of four holds more Presents than the semaphore allows. |
| `heap_handover` | 2 buffers of 1 and 2 chunks, segments of 3, a heap of 5, 4 allocations, 2 nested locks | `AllocationsDisjoint`, `UnlockedDataIntact`, `ServerResolves`: enough to fill a segment, to leave gaps too small and large enough, to grow once to the limit, to reclaim and to fail. |
| `cs` | 2 callers, chunks of 2, 4 commands | `ExecutedInOrder`, `SynchronizedMeansExecuted`, `LastNumberMeansExecuted`, `SynchronizeReturns`. Four commands make two full chunks, or chunks with a command list in between. |
| `submission` | limit 1, 3 lists, failing submissions, loss of the device | `ZeroMeansIdle`, `WaitedForAll`, `ReleasedAfterUse`, `CallsReturn`. The third list is the first that waits for room, and both callers do. |
| `pool` | 2 workers, rings of one usable place, 4 slots, 5 tasks, the three pools of the program | `RingsAreFifo`: owner, thief and producer together keep each ring FIFO. `OwnResult`: a future delivers its own task's result, as long as the slots are not lapped. `CountAgrees`: the count is right modulo 2^32, up to what is between two steps. `TasksRun`: every task is done, unless a wake-up was missed. With five tasks over four slots the slots do get lapped, with two workers every steal and every race for the spinlock occurs; task 1 is dropped and task 3 cancelled, each of which shortens a life that the others have in full. |
| `textures` | 2 textures of 2 mips, one that may fail to be read and one that a draw may need at once, a ring of 2, one ready texture, 1 reload | `SlicesDisjoint`, `QueuedIsPending`, `ShowsNewestAsset`, `QueuedIsUploaded`, `ShutdownReturns`. The ring holds two single mips or one whole texture, so it fills, waits for the GPU and starts over; one ready texture makes the runner hold back. |
| `options` | 3 layers, one of them dynamic; a blended option with a minimum, which a callback gives a maximum, and a hash set; 2 passes; throughputs below 1/9 cut off | `ResolvedIsCurrent`, `ResolvesAsDescribed`, `RedundantHasNoEffect`, `BlendIsCaptured`. A layer above, below and between the others; full, partial and too small strengths; values within the limits and beyond either; a positive and a negative opinion. Every queue is looked at as a blended and as a plain option. Two passes are one with callbacks that set options and one that is cut off; the program has four. `MCBound`: one value at a time departs from its layer's config, and none after a limit was set or dirt was lost, which keeps the run within its time; the theorems have no such bound. |

Each module also has a type invariant, `TypeOK` (`LifeTypeOK` in the lifecycle).
No run spends its time on them: they are theorems (section 4). A run disables the check for deadlock only where the program
may stop: a process that exited, a bound on the inputs reached, a thread that has
nothing to record, a pool destroyed, a runner parked.

Two runs check a statement made by the code about itself, which the code does
not keep:

* `data_overwrite` - the overwrite guard and the ring place an object that would end on
  the last word of the ring differently (`>=` in `ensure_space`, `>` in
  `syncDataQueue`), so the guard checks the wrong words and the client overwrites
  data the server has not read.
* `submission_error` - when a submission of a command list fails, the submit thread
  calls `waitForIdle` with its own mutex held and never comes back; presents
  behind it are never answered.

### Other divergences met while modelling

The models contain the behaviour behind each of these, unless it says otherwise; no
run is spent on it.

Bridge:

* `Reset` (`d3d9_device.cpp:437-444`) performs a wait "but don't return since we still
  have work to do": after a wait that failed it still executes `get_data` and
  `pop_front`, and so takes another thread's header and data. `OwnResponse` holds until
  a caller does so.
* The server publishes its position and tests for a waiter (`server/main.cpp:3249`)
  before a client that has seen the old position announces itself
  (`util_bridgecommand.cpp:67`); with no further command in flight nobody signals, and
  the wait lasts all its retries. `SendCompletes` holds because of the retries alone.
* A response whose caller gave up stays in front of the response ring for good
  (`util_bridgecommand.cpp:200-202`); every later wait fails as well. `CallsReturn`
  holds because waits give up.
* `ensureQueueEmpty` looks at the reader channel, on the client the ring of responses
  (`util_bridgecommand.cpp:131`), and returns with commands unserved; its caller's
  comment says "Make sure server processed all pending commands" (`d3d9_module.cpp:85`).
* The client opens the present semaphore first, with no tokens
  (`d3d9_lss.cpp:409`); the server's own initial count is ignored, and the first
  presents block before the configured number of frames is ahead.
* The last retry of `syncOnPresent` may take the token and still report
  `ERROR_SEM_TIMEOUT` (`d3d9_device.cpp:470`); what it returns is not modelled.
* `OnServerExited` aborts a game that had fallen back to client rendering
  (`d3d9_lss.cpp:156`); an Ack of a given-up handshake is taken for the server's
  good-bye (`:451`); a server whose client dies before the Syn waits for ever, because
  `getInfiniteRetries` is always true in the server (`global_options.h:162`); without
  the focus the client's retries are unlimited, so a hung server keeps it in
  `RemixDetach` and in `Present`, hence the conditions of `DetachCompletes` and
  `PresentCompletes`.
* The shared heap's first allocation is placed in chunk 0 whether or not it fits in
  the segment (`util_sharedheap.cpp:223`); a discarding lock whose new allocation
  fails leaks the old one (`lockable_buffer.h:130`); a failed mapping ends the process
  with a bare `throw`, so that the size is never "cut in half" (`util_sharedmemory.h:48`).

dxvk's threads:

* `synchronize(0)` waits for nothing (`dxvk_cs.cpp:147`), while its comment says it
  waits for all pending chunks (`dxvk_cs.h:409-410`).

Worker thread pool:

* Outside the low-latency mode `Schedule` notifies before it counts the task
  (`util_threadpool.h:371`, `:378`), and it counts outside the mutex of the condition
  variable: a worker can wake up, see no task and sleep again, and the task waits for
  the next one (`WakeupMissed`). The pools of the ray tracing pipelines
  (`dxvk_raytracing.cpp:103`) and of the asset exporter (`rtx_asset_exporter.h:73`) are
  of this kind.
* A worker may take a task before it was counted; `m_numTasks` is then 2^32 - 1 for a
  moment, and workers of the other mode find it positive.
* A slot is reused after `TaskCount` tasks whatever became of it
  (`util_threadpool.h:359`). What keeps it from happening is how many tasks are in
  flight, with up to three per draw.
* A full ring gives a future that is not valid; `d3d9_rtx.cpp` then leaves the draw
  out, while the exporter has already raised the number of exports in flight.
* `m_numTasks` has no initializer. The models start it at zero, which is what the
  value-initialising atomics of the build's standard library do; the same is assumed
  of `m_requiresShutdown` of the texture runner.

Texture streaming:

* The shutdown raises a flag that none of the runner's three waits looks at
  (`rtx_texture_manager.cpp:529`, `:548`, the loop around `alloc`): a parked runner is
  joined only if something else wakes it. `Parked` is the exception of
  `ShutdownReturns`.
* A hot reload that comes between the staging of the old asset and its upload copies
  the old mips into an image made for the new asset, and the request is gone
  (`missed`).
* A texture whose file could not be read (`rtx_texture_manager.cpp:154-157`) becomes
  `kVidMem` with an image that nothing was copied into (`:891-913`), and nothing asks for
  it again before a hot reload; `ShowsNewestAsset` allows it.
* The textures to process are an unordered set, of which the first is next: nothing
  keeps one from being overtaken for ever (`Overtaken`).
* The runner's thread is started in the constructor before the members declared
  after it, among them the mutex it locks, are constructed
  (`rtx_texture_manager.cpp:439`, `:475-484`); not modelled. `kFailed` is never
  assigned.

Options:

* `applyPendingValues` tests and clears the map of dirty options without the update
  mutex (`rtx_option_manager.cpp:194`, `:211`). An option set by another thread
  between the last pass and the end is swept away and keeps its old resolved value,
  while the comment of `setDeferred` says "The value will be promoted to the resolved
  value at the end of the frame during resolution" (`rtx_option.h:345`); the cut-off
  after four passes does the same to callbacks that keep setting options. `lost`
  holds these options; `ResolvedIsCurrent` is about all others.
* A layer that is enabled and gets new blend settings in the same frame re-reads its
  config and skips its other values (`rtx_option_layer.cpp:137`, `:160`); these keep
  their old settings (`missed`).
* `m_blendStrengthDirty` is not initialised by the constructor; the model starts it
  with either value.
* A value that is set on a disabled layer takes part in the resolution.
* `isLayerValueRedundant` compares a layer's value, which nobody clamps, with the clamped
  value of the weaker layers. Let the maximum be 5, a weaker layer say 10, a layer
  say 5 and a stronger one 0 at strength 0.5: the 5 is taken for redundant, and without
  it the option goes from 2.5 to 5. A throughput that is cut off on one side of the
  comparison only can do the same. The comment, "redundant if lower priority layers
  would resolve to the same value" (`rtx_option_manager.h:124`), is kept to the letter,
  so no run refutes it; `Misjudged` describes these cases, and `RedundantHasNoEffect` is
  about all others.
* `acquireLayer` looks a layer up under its unclamped priority, and several operations
  (`reload`, acquiring, releasing, moving, clearing; `remixapi_SetConfigVariable`) run
  without the update mutex. The models take the first as one key per layer and the
  second on the thread that renders, where the code calls them.

### Fairness

Weak fairness of every thread's own steps, because the operating system schedules
runnable threads; none for calls the application may or may not make, for time-outs
that the property should not depend on, for crashes, or for the loss of the
device. Strong fairness appears three times. In the ring, the consumer's loop calls
`pull` between peeks again and again (`SF_vars(PullStart)`); in the submission queue the
finish thread eventually gets a mutex that the application releases and takes again;
in the pool a worker that asks for the spinlock again and again gets it now and then
(`SF_vars(Popping(w))`). Waits with finite retries are fair to end (`data`, `response`,
`present`): those are time-outs the code counts. In `response` this is all it
takes when time-outs are disabled: a foreign header is a counted attempt, and a wait
on an empty ring never ends by itself. `SendCompletes` rests on the overwrite wait
being able to give up, and `DetachCompletes` on time-outs in the handshake and the
detach, so each is said of a client that has the focus and its time-outs. The server's own waits
have none, as its retries are unlimited. In `textures` frames go on until the
destructor, and the GPU completes what it was given; hot reloads, draws and garbage
collection are under no obligation. `options` checks no liveness.

## 4. What is proved

TLAPS checks these for every value of the constants allowed by the named
assumptions.

* `BridgeProofs`, the ring. Assumptions: `SizeAssumption` (at least two slots),
  `TimeoutAssumption`, `ValueAssumption` (a torn slot is told from any header).
  `TypeCorrect`, `ReferenceSafe` (`NoSlotRace`), `RingRefinesFifo` (`ImplementsFifo`).
  `NoSlotRace` is not inductive: that the writer's slot is not the reader's follows
  from what each side found when it compared the indices, and must be kept while
  the other side moves on. `WriterInv` says that a writer past its check still owns
  the slot at `m_read`, whose successor is not `m_write`; `ReaderInv` that a reader's
  captured index is `m_write`, or just behind it once `pull` has given the slot back.
  The refinement then has one lemma per abstract step: publishing an index is a
  `Put` at the end of `Contents`, advancing the other is a `Take` of its head,
  and all else is a stutter. `Contents` is a function of the two indices,
  so each lemma is arithmetic on indices round the ring, one
  case per wrap.
* `BridgeProofs`, the responses. Assumption: `ResponseAssumption`. `OwnResponseHolds` and
  `OneReaderAtATime`, for any number of threads, commands and abandoned waits, with
  time-outs or without, until a
  thread takes a response after a wait that failed (`outOfTurn`). Besides types, the
  inductive invariant has two parts: `UidInv`, the
  UIDs of calls in progress are distinct, and only the thread with the mutex holds the
  next one; `ReadInv`, a thread past its peek owns the header in front, and header
  and data positions differ only while one thread stands between them.
  `ResponseTypes` bounds both positions, also after reads out of turn: the words taken and
  the calls whose data is still to be read (`Open`) are together no more than the UIDs.
* `BridgeProofs`, the data queue. `TokenHolds` (`TokenMatchesWait`). `TokenInv` adds
  what the server's steps rest on: while it has yet to release, the client waits and has
  no signal; until it has cleared the position it answered, any position announced is
  that of the client it has just released, or of none.
* `BridgeProofs`, the arguments in the data queue. Assumptions: `DataAssumption` (a ring of
  at least three words, at least one argument) and `ItemAssumption` (an argument is shorter
  than the ring). `DataQueueTypes`, `DataArrives` (`DataIntact`). All arguments ever sent are
  numbered; `InFlight` says that there are a position, a lap, a sum of words and a writer
  for each number, such that those from the server's position to the client's lie one
  behind the other (`Track`) and each word of theirs has their writer's mark (`Marked`),
  that what the server has still to pull and what the headers in the ring announce are
  these arguments in this order (`Unread`, `InRing`), and that no command has more than
  `CommandWords` words (`Budget`). Of two arguments on the track the later is ahead by
  just the words between them, or is a lap ahead and one object's worth of words
  may have been left unused (`Ahead`), because an object never straddles the end of the ring.
  If all that is under way fits with one such gap (`Room`), a new argument
  shares no word with those unread (`TrackApart`). The guard is not used: `DataIntact`
  says what holds where it need not act, and section 3 shows where it fails to.
* `DxvkSubmissionQueueProofs`. Assumption: `SubmissionAssumption`. `QueueTypes`,
  `PendingIsSound` (`ZeroMeansIdle`), `ReleaseIsSafe` (`ReleasedAfterUse`), `IdleMeansIdle`
  (`WaitedForAll`). Lists are numbered in the order of submission, and the invariant
  is arithmetic on those numbers: the two queues hold adjacent intervals of them,
  what was retired is what was numbered less `m_pending`, and what was handed over is what was
  retired and the finish queue. `Fronts`, `OnDevice` and `Released` place the lists
  that the two threads are in the middle of, `Waiting` those a caller waits for.
* `DxvkCsThreadProofs`. Assumption: `StreamAssumption`. `StreamTypes`, `CommandsInOrder`,
  `LastNumberIsSound`, `SynchronizeIsSound`. The worker's chunk, the queue, the chunks
  between two locks and the one being recorded hold adjacent intervals of command
  numbers (`Ordered`), and each unexecuted command is in a chunk whose number is no
  greater than what a caller who recorded it waits for (`Placed`, `Waits`).
* `PresentSyncProofs`. Assumptions: those of the lifecycle and `PresentAssumption`.
  `PresentTypes`, `DetachIsQuiet` (`NoSpuriousAbort`), `LeadIsBounded`, `TokenIsThere`
  (`TokenArrives`). `Rings` says which commands can be in either ring in which state
  of the handshake, `Leaving` what must have happened before the server ends.
  `Frames` is a balance: tokens and unanswered Presents equal the frames the client may
  be ahead, plus what time-outs owe.
* `WorkerThreadPoolProofs`. Assumption: `SizeAssumption`. `PoolTypes`, `OwnResultHolds`,
  `CountHolds`, `RingsHold` (`RingsAreFifo`, a refinement). `Placed` says where each task
  is (in which ring, with which worker, at which step), `Owned` which future and worker
  its slot belongs to. `CountHolds` needs that there are never more tasks
  than were scheduled, so that the count wraps only below zero. For
  `RingsHold` the abstract queue is the list of places between head and tail.
* `TextureStreamingProofs`. Assumption: `SizeAssumption`. `StreamingTypes`, `PendingHolds`,
  `NewestHolds`, `SlicesHold`. A texture that is queued is in exactly one place
  (`QueuedIsPending`); `Newest` follows its version there, or what was staged instead
  when the read failed; `Counts` relates
  `ring.writers` and `ring.readers` to the slices staged and read; `Apart` keeps
  those slices apart, also between the two loads of `isInUse`. The five operations
  that queue a texture share one lemma.
* `SharedHeapProofs`. Assumption: `HeapAssumption`. `HeapTypes`, `AllocationsHold`,
  `HandoverHolds` (`UnlockedDataIntact`), `ServerFinds` (`ServerResolves`), for any buffer
  sizes, segments and ring. The invariant (checked by TLC first) has a part per concern:
  `Layout`, segments follow each other; `Placed`, allocations are apart and each is
  named once, and a place that `findAllocation` has found is still free when it is used;
  `Kept` and `Used`, the lock discipline: who may still write or deallocate
  what, and that a lock replaces an allocation once; `Sent`, the ring tells of an
  allocation first with its Alloc and last with its Dealloc; `Known`, what the server knows
  at each command, with the segments mapped by then. The largest and
  smallest elements that the search takes are shown to exist with the least-number principle.
* `RtxOptionLayersProofs`. Assumptions: `LayersAssumption` (the default layer has no
  config), `BlendAssumption` (what components request lies between 0 and 1, as
  `updateRange` clamps it; a layer starts at full strength with a threshold of at most
  that, 1.0 and 0.1 in every call of `acquireLayer`), `LimitsAssumption` (limits are
  numbers or absent, and callbacks set those of options that are no sets),
  `ValuesAssumption` (values are of the type of their option). `OptionsAreCurrent` (`ResolvedIsCurrent`), for any layers,
  options, configs, hashes and blend settings, and any number of threads and
  callbacks that set options. `Resolve` is never expanded: what counts is that the
  resolved value of an option that is not dirty is that function of its queue and its
  limits. The inductive invariant adds that the queues and the resolved values are functions, so
  that a queue an action rebuilds without changing is the same queue. `MarkedStep`
  is the argument all steps share: a step is harmless if each queue it changes
  belongs to an option it leaves dirty, and if what was dirty stays dirty or is
  recorded as lost. There is then one lemma per operation; the longest are those in
  which the set of marked options and the set of changed queues are computed
  separately (`ApplyLayers`, `Reload`, `Release`, `RemoveRedundant`), where the proof is
  that the first contains the second.
  `OptionTypes`, `BlendHolds` (`BlendIsCaptured`): `BInv` adds the types of the layers,
  that only dynamic layers are ever absent or off, and that every queue `Fits`
  its layers' settings wherever no value was missed.
  `ResolutionHolds` (`ResolvesAsDescribed`) and `RedundantIsSafe`
  (`RedundantHasNoEffect`) are about what resolving computes. The library's induction
  theorems cannot be used here, so `Induct` proves induction from 0 to n over a set
  from the least-number principle (`NatLessThanWellFounded`), and `Iterates` that the
  recursive functions exist; `BlendSteps`, `LerpSteps` and `MergeSteps` turn each
  resolution into the sequence of its intermediate results. Then `BlendIsNested`: after each
  layer, the sum so far and the throughput times the nested interpolation of the rest
  make the whole, less what was cut off, which is that throughput times a mean of the
  remaining values and so at most `Largest` over `Cutoff`. `MergedOpinions`: after each layer the set has, of each hash, the
  opinion of the strongest layer so far that has one. `RedundantNumber`: the queues with
  and without the value agree below the layer, at it, because
  `s * x + (1 - s) * x = x`, and hence above it. `RedundantPlain` needs that there is a
  weaker layer with a say. With limits there are three cases: where the weaker layers
  resolve to something within them the two queues agree before clamping; where they do
  not and nobody blends over them, the layer mixes their value with that value clamped,
  and clamping the mixture gives the latter again; the rest is `Misjudged`. For these, `VInv` adds to `BInv` that values have their
  option's type, that strengths stay between 0 and 1, and that nobody changes the
  settings of the default layer. The arithmetic is exact, as in the model.

Only model-checked, and why: liveness (and ENABLED), which is out of this prover's
reach. Every safety property and action property that a run checks is a theorem. The
two violations in section 3 are TLC's.

## 5. What is left out of the modelled parts

* data queue: batches over several commands (`begin_batch`, `end_batch`), data copied in
  place (`begin_data_blob` with a later `end_data_blob`), the blocking queue of the
  build option `USE_BLOCKING_QUEUE`;
* responses: the module channel, and data beyond the UID;
* present semaphore: the value that `syncOnPresent` returns;
* lifecycle: the search for the server's executable, hooks, the keyboard state;
* shared heap: the pitch of surfaces, statistics; contents change at `lock`, not at every write;
* command stream: the pool of chunks, their flags, the exception that ends the process;
* submission queue: frame interpolation (DLFG), Reflex markers, the recreation of
  the swap chain, the recycling of command lists, Aftermath's dump;
* thread pool: affinity masks other than "all workers", the contents of lambdas;
* texture streaming: the RTX IO variant, the branch for continuous integration, options
  other than the default ones, how the budget chooses the mips (any number may be
  asked for), the table of textures;
* options: floats (strengths and values are integers on a scale), vectors (a clamp
  by component), clearing a single hash from stronger layers, saving and
  exporting, migration of values, the choice of the layer to edit.

The memory model is sequential consistency throughout; the fences in the ring are
represented by the order of its steps (a step out of order is one of the faulty
variants the models are tested with).

Definitions marked "Faulty" are variants of the one that follows them, with a
plausible bug. They are part of no specification; each property of each passing run
has one that breaks it, listed in `PROJECT.json` under "mutants".

### Not modelled

Most of the repository is not a protocol between actors: the shader compilers and the
front ends translate one call into another; the render passes, upscalers and the
denoisers set up GPU work; `imgui`, `implot`, xxHash, Tracy, glm and MathLib are
vendored. These are some nine tenths of its lines, and the models say nothing about
them. Of what remains, scene, instance and acceleration structure management and the
memory allocator are stateful but sequential, and their hard parts are geometry and
sizes.

## 6. Plan

Done: the bridge's channels, lifecycle, frames and heap; dxvk's command stream and
submission queue; the thread pool, texture streaming and option layers; every
safety property proved.

1. The blocking circular queue as another implementation of `BoundedFifo`.
2. The data queue over `AtomicCircularQueue` itself instead of the sequence, and a common
   specification of "a call is answered by its own response" over both directions.
3. Lifetimes of instances and their replacements in the scene manager.

New modules replace the least telling of the present runs where the time to check
them all would grow too long; an invariant that has become a theorem needs a run only
to keep its instance honest.
