-------------------------- MODULE TextureStreaming --------------------------
(***************************************************************************)
(* Streaming of material textures (rtx_texture_manager.cpp without RTX IO  *)
(* and with the default options, rtx_texture.cpp, rtx_staging_ring.h).     *)
(* The render thread decides how many mips a texture should have and       *)
(* schedules its load; a synchronous load stages the mips at once, an      *)
(* asynchronous one is left to the AsyncRunner's thread, which stages it   *)
(* in a ring of limited size.  What is staged waits in m_readyTextures     *)
(* until the render thread uploads it, once a frame.  A loader thread      *)
(* creates textures, the file watch asks for hot reloads, and the GPU      *)
(* tells when it has read a staged slice.                                  *)
(*                                                                         *)
(* The contents of an asset are its version; each hot reload makes a new   *)
(* one, and reading it may fail.  A range of mips is as large as the       *)
(* number of its mips.                                                     *)
(***************************************************************************)
EXTENDS Naturals, Sequences, FiniteSets, SequencesExt

CONSTANTS
  Textures,
  Blocking,      \* the textures that a load or a draw may be unable to wait for
  Unreadable,    \* the textures whose files may be missing or damaged
  NoTexture,     \* a model value: the runner holds no texture
  AllMips,       \* how many mips an asset has
  RingBudget,    \* the size of the staging ring
  MaxReady,      \* MAX_TEXTURE_UPLOADS_PER_FRAME
  MaxReloads     \* bound: how often the files of the textures change

\* WAR_doesAssetFitIntoFixedAllocator: what does not fit is loaded synchronously
ASSUME SizeAssumption ==
  /\ NoTexture \notin Textures /\ Unreadable \subseteq Textures
  /\ AllMips \in Nat \ {0} /\ MaxReady \in Nat \ {0} /\ MaxReloads \in Nat
  /\ RingBudget \in Nat /\ RingBudget >= AllMips

\* What is staged, and then shown, if the asset could not be read; versions count
\* from 1
Unread == 0

NoSlice == [from |-> 0, size |-> 0]
NoItem == [tex |-> NoTexture, mips |-> 0, version |-> Unread, slice |-> NoSlice]

VARIABLES
  tex,          \* of each texture: m_state, m_canDemote, m_requestedMips,
                \* the version of m_assetData, and the mips and version of the image
  toProcess,    \* m_texturesToProcess
  ready,        \* m_readyTextures
  uploading,    \* what the render thread retrieved and has not uploaded yet
  runner,       \* the AsyncRunner's thread: where it is, its item, what it has staged
  ring,         \* the RtxStagingRing: m_offset and the use counts of its buffer
  onGpu,        \* slices that submitted command lists read
  assetLock,    \* is m_assetInfoMutex held by the runner?
  reloads,      \* m_hotreloadRequests
  shutdown,     \* m_requiresShutdown
  missed        \* history: a reload came when the old asset was staged already

vars == <<tex, toProcess, ready, uploading, runner, ring, onGpu, assetLock,
          reloads, shutdown, missed>>

Init ==
  /\ tex = [t \in Textures |-> [state |-> "absent", canDemote |-> TRUE, requested |-> 1,
                                version |-> 1, mips |-> 0, shows |-> Unread]]
  /\ toProcess = {} /\ ready = << >> /\ uploading = << >>
  /\ runner = [pc |-> "top", tex |-> NoTexture, inUse |-> FALSE, staged |-> NoItem]
  /\ ring = [offset |-> 0, writers |-> 0, readers |-> 0]
  /\ onGpu = {} /\ assetLock = FALSE /\ reloads = {} /\ shutdown = FALSE /\ missed = {}
-----------------------------------------------------------------------------
(* ManagedTexture *)

\* requestMips: at least one mip, and all of them if the texture cannot be demoted
Requested(x, n) == IF x.canDemote /\ n > 0 THEN n ELSE IF x.canDemote THEN 1 ELSE AllMips

\* dmaCopyDataToStaging: what was read, or no mips at all
Read(t, version) == IF t \in Unreadable THEN {version, Unread} ELSE {version}

\* makeStagingForTextureAsset with the unlimited allocator
StagedNow(t, x) ==
  [tex : {t}, mips : {x.requested}, version : Read(t, x.version), slice : {NoSlice}]

\* queueAdd
QueueAdd(t, x, async) ==
  /\ tex' = [tex EXCEPT ![t] = x]
  /\ IF async THEN toProcess' = toProcess \cup {t} /\ UNCHANGED ready
     ELSE (\E r \in StagedNow(t, x) : ready' = Append(ready, r)) /\ UNCHANGED toProcess

\* Faulty: a texture that is queued already is queued again
ScheduleAgain(t, x, async, forceUnload) ==
  IF ~forceUnload /\ x.state = "vidmem" /\ x.mips = x.requested
  THEN tex' = [tex EXCEPT ![t] = x] /\ UNCHANGED <<toProcess, ready>>
  ELSE QueueAdd(t, [x EXCEPT !.state = "queued"], async)

\* scheduleTextureLoad for a texture whose fields were set to x: nothing to do if
\* it is queued already, or if it has the mips it should have
ScheduleTextureLoad(t, x, async, forceUnload) ==
  IF \/ x.state = "queued"
     \/ ~forceUnload /\ x.state = "vidmem" /\ x.mips = x.requested
  THEN tex' = [tex EXCEPT ![t] = x] /\ UNCHANGED <<toProcess, ready>>
  ELSE QueueAdd(t, [x EXCEPT !.state = "queued"], async)
-----------------------------------------------------------------------------
(* The loader, and the file watch *)

\* preloadTextureAsset
Preload(t, forceLoad) ==
  LET x == [tex[t] EXCEPT !.canDemote = ~forceLoad, !.state = "initialized"]
  IN /\ tex[t].state = "absent" /\ ~shutdown /\ (forceLoad => t \in Blocking)
     /\ ScheduleTextureLoad(t, [x EXCEPT !.requested = Requested(x, 1)], FALSE, FALSE)
     /\ UNCHANGED <<uploading, runner, ring, onGpu, assetLock, reloads, shutdown, missed>>

RequestHotReload(t) ==
  /\ tex[t].state # "absent"
  /\ FoldFunction(+, 0, [u \in Textures |-> tex[u].version]) + Cardinality(reloads \cup {t})
       <= Cardinality(Textures) + MaxReloads
  /\ reloads' = reloads \cup {t}
  /\ UNCHANGED <<tex, toProcess, ready, uploading, runner, ring, onGpu, assetLock,
                 shutdown, missed>>
-----------------------------------------------------------------------------
(* The render thread *)

Rendering == uploading = << >> /\ ~shutdown

\* The part of garbageCollection for one texture
Collect(t, n) ==
  LET x == tex[t]
  IN /\ Rendering /\ x.state # "absent" /\ x.canDemote
     /\ ScheduleTextureLoad(t, [x EXCEPT !.requested = Requested(x, n)], TRUE, FALSE)
     /\ UNCHANGED <<uploading, runner, ring, onGpu, assetLock, reloads, shutdown, missed>>

\* preserveTexture for a draw that cannot wait: the texture is never demoted again
Preserve(t) ==
  LET x == [tex[t] EXCEPT !.canDemote = FALSE]
  IN /\ Rendering /\ x.state # "absent" /\ t \in Blocking
     /\ ScheduleTextureLoad(t, [x EXCEPT !.requested = AllMips], FALSE, FALSE)
     /\ UNCHANGED <<uploading, runner, ring, onGpu, assetLock, reloads, shutdown, missed>>

\* demoteTexture in manageBudgetWithPriority
Demote(t) ==
  LET x == tex[t]
  IN /\ Rendering /\ x.state # "absent" /\ x.canDemote
     /\ ScheduleTextureLoad(t, [x EXCEPT !.requested = Requested(x, 0)], FALSE, FALSE)
     /\ UNCHANGED <<uploading, runner, ring, onGpu, assetLock, reloads, shutdown, missed>>

Staged(t) ==
  \/ runner.staged.tex = t
  \/ \E i \in DOMAIN ready : ready[i].tex = t

Reload(t, forceUnload) ==
  LET x == [tex[t] EXCEPT !.version = @ + 1]
  IN /\ Rendering /\ t \in reloads /\ ~assetLock
     /\ reloads' = reloads \ {t}
     /\ ScheduleTextureLoad(t, [x EXCEPT !.requested = Requested(x, 0)], FALSE, forceUnload)
     /\ missed' = IF x.state = "queued"
                  THEN missed \cup ({t} \cap { u \in Textures : Staged(u) }) ELSE missed \ {t}
     /\ UNCHANGED <<uploading, runner, ring, onGpu, assetLock, shutdown>>

\* Faulty: a loaded texture with the right number of mips keeps its image
HotReloadUnforced(t) == Reload(t, FALSE)

\* processAllHotReloadRequests for one request, under m_assetInfoMutex.  The
\* request is gone whether or not the load could be scheduled.
HotReload(t) == Reload(t, TRUE)

\* retrieveReadyToUploadTextures, at the start of submitTexturesToDeviceLocal
Retrieve ==
  /\ Rendering /\ ready # << >>
  /\ uploading' = ready /\ ready' = << >>
  /\ UNCHANGED <<tex, toProcess, runner, ring, onGpu, assetLock, reloads, shutdown, missed>>

UploadAndRelease(released) ==
  LET r == Head(uploading)
  IN /\ uploading # << >>
     /\ uploading' = Tail(uploading)
     /\ tex' = [tex EXCEPT ![r.tex].mips = r.mips, ![r.tex].shows = r.version,
                           ![r.tex].state = "vidmem"]
     /\ onGpu' = IF r.version = Unread THEN onGpu ELSE onGpu \cup ({r.slice} \ {NoSlice})
     /\ ring' = IF r.slice = NoSlice THEN ring
                ELSE [ring EXCEPT !.readers = IF r.version = Unread THEN @ ELSE @ + 1,
                                  !.writers = @ - released]
     /\ UNCHANGED <<toProcess, ready, runner, assetLock, reloads, shutdown, missed>>

\* Faulty: without onSliceSubmitToCmd
UploadUnreleased == UploadAndRelease(0)

\* One round of its loop: a new image, the copy, which tracks the slice as read by
\* the command list if there is a mip to copy, and then onSliceSubmitToCmd.  The
\* texture counts as loaded, also when nothing was read.
Upload == UploadAndRelease(1)

Completes(s, released) ==
  /\ s \in onGpu
  /\ onGpu' = onGpu \ {s}
  /\ ring' = [ring EXCEPT !.readers = @ - released]
  /\ UNCHANGED <<tex, toProcess, ready, uploading, runner, assetLock, reloads, shutdown, missed>>

\* Faulty: the tracker keeps what the command list used
GpuCompletesKept(s) == Completes(s, 0)

\* The GPU is done with a command list, and the tracker releases what it used
GpuCompletes(s) == Completes(s, 1)

\* The destructor of the AsyncRunner, up to the join
Shutdown ==
  /\ Rendering /\ shutdown' = TRUE
  /\ UNCHANGED <<tex, toProcess, ready, uploading, runner, ring, onGpu, assetLock,
                 reloads, missed>>
-----------------------------------------------------------------------------
(* asyncLoop *)

\* The wait for something to do; only then does it look at the shutdown
TakeItem ==
  /\ runner.pc = "top"
  /\ \/ /\ shutdown /\ runner' = [runner EXCEPT !.pc = "ended"] /\ UNCHANGED toProcess
     \/ /\ ~shutdown /\ runner' = [runner EXCEPT !.pc = "wait"] /\ UNCHANGED toProcess
  /\ UNCHANGED <<tex, ready, uploading, ring, onGpu, assetLock, reloads, shutdown, missed>>

WaitForItem ==
  /\ runner.pc = "wait" /\ toProcess # {}
  /\ \/ /\ shutdown /\ runner' = [runner EXCEPT !.pc = "ended"] /\ UNCHANGED toProcess
     \/ /\ ~shutdown
        /\ \E t \in toProcess :
             /\ runner' = [runner EXCEPT !.pc = "limit", !.tex = t]
             /\ toProcess' = toProcess \ {t}
  /\ UNCHANGED <<tex, ready, uploading, ring, onGpu, assetLock, reloads, shutdown, missed>>

\* Do not over-commit the uploads of a frame
WaitForRoom ==
  /\ runner.pc = "limit" /\ Len(ready) < MaxReady
  /\ runner' = [runner EXCEPT !.pc = "alloc"]
  /\ UNCHANGED <<tex, toProcess, ready, uploading, ring, onGpu, assetLock, reloads,
                 shutdown, missed>>

\* alloc: isInUse loads the count of the writers first ...
AllocWriters ==
  /\ runner.pc = "alloc" /\ ~assetLock
  /\ assetLock' = TRUE
  /\ runner' = [runner EXCEPT !.pc = "readers", !.inUse = ring.writers > 0]
  /\ UNCHANGED <<tex, toProcess, ready, uploading, ring, onGpu, reloads, shutdown, missed>>

Alloc(inUse) ==
  LET t == runner.tex
      start == IF inUse THEN ring.offset ELSE 0
      size == tex[t].requested
  IN /\ runner.pc = "readers"
     /\ assetLock' = FALSE
     /\ IF start + size > RingBudget
        THEN /\ ring' = [ring EXCEPT !.offset = start]
             /\ runner' = [runner EXCEPT !.pc = "alloc", !.inUse = FALSE]
        ELSE /\ ring' = [ring EXCEPT !.offset = start + size, !.writers = @ + 1]
             /\ \E v \in Read(t, tex[t].version) :
                  runner' = [pc |-> "push", tex |-> NoTexture, inUse |-> FALSE,
                             staged |-> [tex |-> t, mips |-> size, version |-> v,
                                         slice |-> [from |-> start, size |-> size]]]
     /\ UNCHANGED <<tex, toProcess, ready, uploading, onGpu, reloads, shutdown, missed>>

\* Faulty: isInUse asked for DxvkAccess::Write
AllocUnread == Alloc(runner.inUse)

\* ... and then the count of the readers; a buffer nobody uses starts again at 0.
\* If there is no room, the loop yields and tries again.
AllocReaders == Alloc(runner.inUse \/ ring.readers > 0)

PushReady ==
  /\ runner.pc = "push"
  /\ ready' = Append(ready, runner.staged)
  /\ runner' = [runner EXCEPT !.pc = "top", !.staged = NoItem]
  /\ UNCHANGED <<tex, toProcess, uploading, ring, onGpu, assetLock, reloads,
                 shutdown, missed>>
-----------------------------------------------------------------------------
AsyncLoop ==
  TakeItem \/ WaitForItem \/ WaitForRoom \/ AllocWriters \/ AllocReaders \/ PushReady

Submit == Retrieve \/ Upload

Next ==
  \/ \E t \in Textures, forceLoad \in BOOLEAN : Preload(t, forceLoad)
  \/ \E t \in Textures, n \in 0 .. AllMips : Collect(t, n)
  \/ \E t \in Textures : RequestHotReload(t) \/ Preserve(t) \/ Demote(t) \/ HotReload(t)
  \/ Submit \/ Shutdown
  \/ \E s \in onGpu : GpuCompletes(s)
  \/ AsyncLoop

Spec == Init /\ [][Next]_vars

\* Frames go on until the destructor, the runner's thread runs (at the lowest
\* priority, but it runs), and the GPU completes what was submitted.
FairSpec ==
  Spec /\ WF_vars(Submit) /\ WF_vars(AsyncLoop) /\ WF_vars(\E s \in onGpu : GpuCompletes(s))
-----------------------------------------------------------------------------
(* Properties *)

\* The type invariant
TypeOK ==
  /\ toProcess \subseteq Textures
  /\ \A t \in Textures : tex[t].requested \in 1 .. AllMips /\ tex[t].mips \in 0 .. AllMips
  /\ ring.offset \in 0 .. RingBudget

\* What is staged, from the runner to the upload
StagedItems == <<runner.staged>> \o ready \o uploading

Disjoint(a, b) == a.from + a.size <= b.from \/ b.from + b.size <= a.from

\* No part of the staging ring is given out again while a staged texture waits in
\* it or the GPU may still read it (RtxStagingRing: the temporary reference until
\* the command list has its own, and the order in which isInUse loads the counts).
SlicesDisjoint ==
  LET waiting == [i \in DOMAIN StagedItems |-> StagedItems[i].slice]
  IN /\ \A i, j \in DOMAIN waiting : i # j => Disjoint(waiting[i], waiting[j])
     /\ \A i \in DOMAIN waiting, s \in onGpu : Disjoint(waiting[i], s)
     /\ \A s, u \in onGpu : s # u => Disjoint(s, u)

\* How often a texture is in a list
In(list, t) == Cardinality({ i \in DOMAIN list : list[i].tex = t })

Pending(t) ==
  (IF t \in toProcess THEN 1 ELSE 0) + (IF runner.tex = t THEN 1 ELSE 0)
  + (IF runner.staged.tex = t THEN 1 ELSE 0) + In(ready, t) + In(uploading, t)

\* A texture that is queued for upload is in exactly one place on its way to the
\* GPU, and scheduleTextureLoad can leave it there; a loaded one is in none.
QueuedIsPending ==
  \A t \in Textures : Pending(t) = IF tex[t].state = "queued" THEN 1 ELSE 0

\* A loaded texture shows its newest asset, also after a hot reload, unless the
\* reload came between the staging of the old asset and its upload (then the old
\* mips are copied into an image made for the new asset, and nothing asks again),
\* or nothing at all, after a read that failed.
ShowsNewestAsset ==
  \A t \in Textures :
    tex[t].state = "vidmem" => tex[t].shows \in Read(t, tex[t].version) \/ t \in missed

\* The set has no order, and the runner may take another texture again and again
Overtaken(t) == t \in toProcess /\ runner.tex \notin {NoTexture, t}

\* What is queued is uploaded, although the ring must be empty before it starts
\* again and the runner holds back when enough is ready.  Nothing says that the
\* runner does not prefer others: the first of an unordered set is next.
QueuedIsUploaded ==
  \A t \in Textures :
    tex[t].state = "queued"
      ~> (tex[t].state = "vidmem" \/ shutdown \/ Overtaken(t))

\* The runner waits where the shutdown does not reach it: for something to do, for
\* an upload that makes room, or for the GPU to leave the ring
Parked ==
  \/ runner.pc = "wait" /\ toProcess = {}
  \/ runner.pc = "limit" /\ Len(ready) >= MaxReady
  \/ runner.pc \in {"alloc", "readers"} /\ ring.writers > 0

\* Otherwise the thread ends, and the destructor can join it.
ShutdownReturns == shutdown ~> (runner.pc = "ended" \/ Parked)
==============================================================================
