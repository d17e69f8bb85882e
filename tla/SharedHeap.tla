------------------------------ MODULE SharedHeap ------------------------------
(***************************************************************************)
(* The heap both processes map, through which the client hands the server  *)
(* the contents of locked buffers (SharedHeap::Instance), and the resources *)
(* that use it (LockableBuffer, Direct3DSurface9_LSS).                      *)
(*                                                                         *)
(* The client alone places allocations.  The server learns of segments,    *)
(* allocations and deallocations through the command ring, and answers a   *)
(* deallocation only by setting the state of the allocation's first chunk  *)
(* in memory both map.  Sizes are counted in chunks.  The client's calls   *)
(* come one at a time, under the device lock.                              *)
(***************************************************************************)
EXTENDS Integers, Sequences, FiniteSetsExt, Functions

CONSTANTS
  Buffers,        \* the resources that use the heap
  Size,           \* Size[b]: what b allocates
  LockKinds,      \* the lock flags used: "discard", "none", "readonly"
  SegmentSize,    \* sharedHeapDefaultSegmentSize
  HeapSize,       \* kMax32BitHeapSize
  K,              \* commands the ring holds
  MaxUid,         \* bound: allocations made
  MaxLocks,       \* bound: locks of a resource held at once
  Timeouts,       \* TRUE when the search for free chunks can time out
  MappingMayFail  \* TRUE when the system may refuse to map a segment

ASSUME HeapAssumption ==
  /\ Size \in [Buffers -> Nat \ {0}]
  /\ LockKinds \subseteq {"discard", "none", "readonly"}
  /\ SegmentSize \in Nat \ {0, 1} /\ HeapSize \in Nat /\ SegmentSize <= HeapSize
  /\ K \in Nat \ {0, 1} /\ MaxUid \in Nat /\ MaxLocks \in Nat
  /\ Timeouts \in BOOLEAN /\ MappingMayFail \in BOOLEAN

Invalid == -1
Chunks == 0 .. HeapSize - 1
NoAllocation == [first |-> Invalid, final |-> Invalid]

(* map[key] = value.                                                       *)
With(map, key, value) ==
  [k \in DOMAIN map \cup {key} |-> IF k = key THEN value ELSE map[k]]

VARIABLES
  \* the client's instance
  segments,           \* its segments: the first chunk of each, and how many
  defaultSegmentSize,
  cache,              \* allocation id -> first chunk
  allocations,        \* first chunk -> final chunk
  nextUid,
  \* the client's resources
  bufferId,           \* each one's allocation
  lockInfos,          \* each one's locks, oldest first
  \* the client's allocate() in progress
  pc, request, alloc, nFailedIterations,
  terminated,
  \* shared memory
  chunkState, contents,
  ring,
  \* the server's instance
  serverSegments, serverCache

instance == <<segments, defaultSegmentSize, cache, allocations, nextUid>>
resources == <<bufferId, lockInfos>>
call == <<pc, request, alloc, nFailedIterations>>
server == <<serverSegments, serverCache>>
vars == <<instance, resources, call, terminated, chunkState, contents, ring, server>>

(* m_nChunks, which is where the next segment begins.                      *)
nChunks(segs) == IF segs = <<>> THEN 0 ELSE segs[Len(segs)].base + segs[Len(segs)].size

AddSegment(segs, n) == Append(segs, [base |-> nChunks(segs), size |-> n])

Init ==
  /\ segments = AddSegment(<<>>, SegmentSize) /\ defaultSegmentSize = SegmentSize
  /\ cache = <<>> /\ allocations = <<>> /\ nextUid = 0
  /\ bufferId = [b \in Buffers |-> Invalid]
  /\ lockInfos = [b \in Buffers |-> <<>>]
  /\ pc = "idle" /\ request = <<>> /\ alloc = NoAllocation
  /\ nFailedIterations = 0 /\ terminated = FALSE
  /\ chunkState = [c \in Chunks |-> "Unallocated"]
  /\ contents = [c \in Chunks |-> Invalid]
  /\ ring = <<[op |-> "AddSeg", arg |-> SegmentSize]>>
  /\ serverSegments = <<>> /\ serverCache = <<>>

---------------------------------------------------------------------------
(* Placement.                                                              *)

(* chunkIdToSegId.                                                         *)
Inside(seg, c) == seg.base <= c /\ c < seg.base + seg.size
SegmentOf(segs, c) == CHOOSE i \in DOMAIN segs : Inside(segs[i], c)

createAllocation(first, n) == [first |-> first, final |-> first + n - 1]

isValidAllocation(a) ==
  /\ a.first \in 0 .. nChunks(segments) - 1
  /\ a.final \in a.first .. nChunks(segments) - 1
  /\ SegmentOf(segments, a.first) = SegmentOf(segments, a.final)

(* The end of the last allocation before chunk c.                          *)
FinalBefore(c) == Max({Invalid} \cup {allocations[f] : f \in {g \in DOMAIN allocations : g < c}})

(* Faulty: one chunk too few is enough. *)
findFreeInMiddleShort(n) ==
  LET after == {f \in DOMAIN allocations : f - (FinalBefore(f) + 1) >= n - 1}
  IN  IF after = {} THEN NoAllocation
      ELSE createAllocation(FinalBefore(Min(after)) + 1, n)

(* findFreeInMiddle: the first gap long enough, whatever segments it spans. *)
findFreeInMiddle(n) ==
  LET after == {f \in DOMAIN allocations : f - (FinalBefore(f) + 1) >= n}
  IN  IF after = {} THEN NoAllocation
      ELSE createAllocation(FinalBefore(Min(after)) + 1, n)

findFreeOnEnd(n) ==
  createAllocation(allocations[Max(DOMAIN allocations)] + 1, n)

(* An allocation's chunks.                                                 *)
ChunksOf(id) == cache[id] .. allocations[cache[id]]

Written(id, chunks) == [c \in Chunks |-> IF c \in chunks THEN id ELSE contents[c]]

---------------------------------------------------------------------------
(* The client's resources.                                                 *)

(* lock() of a buffer that has memory: hand out the same memory.           *)
Lock(b) ==
  /\ pc = "idle" /\ ~terminated
  /\ Len(lockInfos[b]) < MaxLocks
  /\ bufferId[b] # Invalid
  /\ \E kind \in LockKinds \ {"discard"} :
       /\ lockInfos' = [lockInfos EXCEPT ![b] =
            Append(@, [id |-> bufferId[b], discarded |-> Invalid,
                       readonly |-> kind = "readonly"])]
       /\ contents' = IF kind = "readonly" THEN contents
                      ELSE Written(bufferId[b], ChunksOf(bufferId[b]))
  /\ UNCHANGED <<instance, bufferId, call, terminated, chunkState, ring,
                 server>>

(* The default segment size, doubled until it fits n chunks.               *)
Doublings(n) ==
  {d \in defaultSegmentSize .. defaultSegmentSize + 2 * n :
     /\ n <= d /\ (d = defaultSegmentSize \/ d < 2 * n)
     /\ \E i \in 0 .. n : d = defaultSegmentSize * 2 ^ i}

(* lock() that needs an allocation: the first one, or a discarding one.    *)
(* allocate() raises the default segment size to fit.                      *)
LockAllocates(b) ==
  /\ pc = "idle" /\ ~terminated
  /\ nextUid < MaxUid /\ Len(lockInfos[b]) < MaxLocks
  /\ \E kind \in LockKinds :
       /\ bufferId[b] = Invalid \/ kind = "discard"
       /\ request' = [buffer |-> b, discarded |-> bufferId[b],
                      readonly |-> kind = "readonly"]
  /\ \E n \in Doublings(Size[b]) : defaultSegmentSize' = n
  /\ nFailedIterations' = 0
  /\ pc' = "finding"
  /\ UNCHANGED <<segments, cache, allocations, nextUid, resources, alloc,
                 terminated, chunkState, contents, ring, server>>

(* unlock(): send the data's whereabouts, then deallocate what a           *)
(* discarding lock replaced.                                               *)
Unlock(b) ==
  /\ pc = "idle" /\ ~terminated
  /\ lockInfos[b] # <<>>
  /\ LET lock == Head(lockInfos[b])
         unlock == [op |-> "Unlock", arg |-> lock.id]
         dealloc == [op |-> "Dealloc", arg |-> lock.discarded]
     IN  ring' = IF lock.readonly THEN ring
                 ELSE IF lock.discarded = Invalid THEN Append(ring, unlock)
                 ELSE ring \o <<unlock, dealloc>>
  /\ Len(ring') <= K
  /\ lockInfos' = [lockInfos EXCEPT ![b] = Tail(@)]
  /\ UNCHANGED <<instance, bufferId, call, terminated, chunkState, contents,
                 server>>

(* The resource is destroyed, and another may be created in its place.     *)
Destroy(b) ==
  /\ pc = "idle" /\ ~terminated
  /\ lockInfos[b] = <<>> /\ bufferId[b] # Invalid
  /\ Len(ring) < K
  /\ ring' = Append(ring, [op |-> "Dealloc", arg |-> bufferId[b]])
  /\ bufferId' = [bufferId EXCEPT ![b] = Invalid]
  /\ UNCHANGED <<instance, lockInfos, call, terminated, chunkState, contents,
                 server>>

---------------------------------------------------------------------------
(* findAllocation, one action per turn of its loop.                        *)

Needed == Size[request.buffer]

Found(a) == alloc' = a /\ pc' = "found"

(* The trivial case: nothing is allocated, and chunk 0 is taken without a  *)
(* look at the segment's size.                                             *)
FindFirst ==
  /\ pc = "finding"
  /\ DOMAIN allocations = {}
  /\ Found(createAllocation(0, Needed))
  /\ UNCHANGED <<instance, resources, request, nFailedIterations, terminated,
                 chunkState, contents, ring, server>>

FreePlaces == {a \in {findFreeInMiddle(Needed), findFreeOnEnd(Needed)} : isValidAllocation(a)}

FindFree ==
  /\ pc = "finding"
  /\ DOMAIN allocations # {} /\ FreePlaces # {}
  /\ Found(IF isValidAllocation(findFreeInMiddle(Needed))
           THEN findFreeInMiddle(Needed) ELSE findFreeOnEnd(Needed))
  /\ UNCHANGED <<instance, resources, request, nFailedIterations, terminated,
                 chunkState, contents, ring, server>>

(* Faulty: free what no resource uses, without asking the server. *)
freeUnused ==
  LET ids == {id \in DOMAIN cache : \A b \in Buffers : bufferId[b] # id}
      firsts == {cache[id] : id \in ids}
  IN  /\ cache' = Restrict(cache, DOMAIN cache \ ids)
      /\ allocations' = Restrict(allocations, DOMAIN allocations \ firsts)
      /\ chunkState' = [c \in Chunks |-> IF c \in firsts THEN "Unallocated" ELSE chunkState[c]]

(* freeDeallocations: what the server has let go is free again.            *)
freeDeallocations ==
  LET ids == {id \in DOMAIN cache : chunkState[cache[id]] = "Deallocated"}
      firsts == {cache[id] : id \in ids}
  IN  /\ cache' = Restrict(cache, DOMAIN cache \ ids)
      /\ allocations' = Restrict(allocations, DOMAIN allocations \ firsts)
      /\ chunkState' = [c \in Chunks |-> IF c \in firsts THEN "Unallocated" ELSE chunkState[c]]

NewSegmentSize == Min({HeapSize - nChunks(segments), defaultSegmentSize})

(* A turn without result: free, and after the third one also grow.         *)
FindNothing ==
  /\ pc = "finding"
  /\ DOMAIN allocations # {} /\ FreePlaces = {}
  /\ nFailedIterations # 2 \/ NewSegmentSize <= 1
  /\ freeDeallocations
  /\ nFailedIterations' = Min({nFailedIterations + 1, 3})
  /\ UNCHANGED <<segments, defaultSegmentSize, nextUid, resources, pc,
                 request, alloc, terminated, contents, ring, server>>

(* Faulty: the server is not told. *)
GrowSilently ==
  /\ pc = "finding"
  /\ DOMAIN allocations # {} /\ FreePlaces = {}
  /\ nFailedIterations = 2 /\ NewSegmentSize > 1
  /\ freeDeallocations
  /\ segments' = AddSegment(segments, NewSegmentSize)
  /\ Found(createAllocation(nChunks(segments), Needed))
  /\ UNCHANGED <<defaultSegmentSize, nextUid, resources, request,
                 nFailedIterations, terminated, contents, ring, server>>

(* addNewHeapSegment: map it, tell the server, allocate at its beginning.  *)
Grow ==
  /\ pc = "finding"
  /\ DOMAIN allocations # {} /\ FreePlaces = {}
  /\ nFailedIterations = 2 /\ NewSegmentSize > 1
  /\ Len(ring) < K
  /\ freeDeallocations
  /\ segments' = AddSegment(segments, NewSegmentSize)
  /\ ring' = Append(ring, [op |-> "AddSeg", arg |-> NewSegmentSize])
  /\ Found(createAllocation(nChunks(segments), Needed))
  /\ UNCHANGED <<defaultSegmentSize, nextUid, resources, request,
                 nFailedIterations, terminated, contents, server>>

(* SharedMemory's constructor reports failure with "throw;" while there is *)
(* no exception to rethrow.                                                *)
GrowFails ==
  /\ MappingMayFail
  /\ pc = "finding"
  /\ DOMAIN allocations # {} /\ FreePlaces = {}
  /\ nFailedIterations = 2 /\ NewSegmentSize > 1
  /\ freeDeallocations
  /\ terminated' = TRUE /\ pc' = "terminated"
  /\ UNCHANGED <<segments, defaultSegmentSize, nextUid, resources, request,
                 alloc, nFailedIterations, contents, ring, server>>

FindTimesOut ==
  /\ Timeouts
  /\ pc = "finding"
  /\ DOMAIN allocations # {} /\ FreePlaces = {}
  /\ freeDeallocations
  /\ Found(NoAllocation)
  /\ UNCHANGED <<segments, defaultSegmentSize, nextUid, resources, request,
                 nFailedIterations, terminated, contents, ring, server>>

(* The rest of allocate(): record it, tell the server, ...                 *)
Allocate ==
  /\ pc = "found"
  /\ isValidAllocation(alloc)
  /\ Len(ring) < K
  /\ nextUid' = nextUid + 1
  /\ cache' = With(cache, nextUid, alloc.first)
  /\ allocations' = With(allocations, alloc.first, alloc.final)
  /\ ring' = Append(ring, [op |-> "Alloc", arg |-> nextUid, chunk |-> alloc.first])
  /\ pc' = "sent"
  /\ UNCHANGED <<segments, defaultSegmentSize, resources, request, alloc,
                 nFailedIterations, terminated, chunkState, contents, server>>

(* ... then mark the chunk; and the rest of lock().                        *)
FinishLock ==
  /\ pc = "sent"
  /\ chunkState' = [chunkState EXCEPT ![alloc.first] = "Allocated"]
  /\ LET id == nextUid - 1 IN
       /\ bufferId' = [bufferId EXCEPT ![request.buffer] = id]
       /\ lockInfos' = [lockInfos EXCEPT ![request.buffer] =
            Append(@, [id |-> id, discarded |-> request.discarded,
                       readonly |-> request.readonly])]
       /\ contents' = Written(id, alloc.first .. alloc.final)
  /\ pc' = "idle" /\ request' = <<>> /\ alloc' = NoAllocation
  /\ nFailedIterations' = 0
  /\ UNCHANGED <<instance, terminated, ring, server>>

(* No valid allocation: lock() fails, its buffer id already overwritten;   *)
(* what a discarding lock was to replace is nobody's from here on.         *)
LockFails ==
  /\ pc = "found"
  /\ ~isValidAllocation(alloc)
  /\ bufferId' = [bufferId EXCEPT ![request.buffer] = Invalid]
  /\ pc' = "idle" /\ request' = <<>> /\ alloc' = NoAllocation
  /\ nFailedIterations' = 0
  /\ UNCHANGED <<instance, lockInfos, terminated, chunkState, contents, ring,
                 server>>

---------------------------------------------------------------------------
(* The server, command by command.                                         *)

Take(op) ==
  /\ ring # <<>> /\ Head(ring).op = op
  /\ ring' = Tail(ring)
  /\ UNCHANGED <<instance, resources, call, terminated, contents>>

ServerAddSeg ==
  /\ Take("AddSeg")
  /\ serverSegments' = AddSegment(serverSegments, Head(ring).arg)
  /\ UNCHANGED <<chunkState, serverCache>>

ServerAlloc ==
  /\ Take("Alloc")
  /\ serverCache' = With(serverCache, Head(ring).arg, Head(ring).chunk)
  /\ UNCHANGED <<chunkState, serverSegments>>

(* The server copies the buffer's contents out of the heap.                *)
ServerUnlock ==
  /\ Take("Unlock")
  /\ UNCHANGED <<chunkState, server>>

ServerDealloc ==
  /\ Take("Dealloc")
  /\ LET id == Head(ring).arg IN
       /\ chunkState' = [chunkState EXCEPT ![serverCache[id]] = "Deallocated"]
       /\ serverCache' = Restrict(serverCache, DOMAIN serverCache \ {id})
  /\ UNCHANGED serverSegments

Next ==
  \/ \E b \in Buffers : Lock(b) \/ LockAllocates(b) \/ Unlock(b) \/ Destroy(b)
  \/ FindFirst \/ FindFree \/ FindNothing \/ Grow \/ GrowFails \/ FindTimesOut
  \/ Allocate \/ FinishLock \/ LockFails
  \/ ServerAddSeg \/ ServerAlloc \/ ServerUnlock \/ ServerDealloc

Spec == Init /\ [][Next]_vars

---------------------------------------------------------------------------

Ids == 0 .. MaxUid - 1
Commands == [op : {"AddSeg", "Unlock", "Dealloc"}, arg : Nat]
              \cup [op : {"Alloc"}, arg : Ids, chunk : Chunks]

(* Types; the segments never exceed the heap.                              *)
TypeOK ==
  /\ segments \in Seq([base : Nat, size : Nat \ {0}]) /\ nChunks(segments) <= HeapSize
  /\ defaultSegmentSize \in Nat
  /\ DOMAIN cache \subseteq Ids /\ Range(cache) \subseteq Chunks
  /\ DOMAIN allocations \subseteq Chunks /\ Range(allocations) \subseteq Chunks
  /\ nextUid \in 0 .. MaxUid
  /\ bufferId \in [Buffers -> Ids \cup {Invalid}]
  /\ \A b \in Buffers : Len(lockInfos[b]) <= MaxLocks
  /\ pc \in {"idle", "finding", "found", "sent", "terminated"}
  /\ nFailedIterations \in 0 .. 3 /\ terminated \in BOOLEAN
  /\ chunkState \in [Chunks -> {"Unallocated", "Allocated", "Deallocated"}]
  /\ contents \in [Chunks -> Ids \cup {Invalid}]
  /\ ring \in Seq(Commands) /\ Len(ring) <= K

(* Allocations never overlap, and none crosses from one mapping into the   *)
(* next, whose memory is elsewhere.                                        *)
AllocationsDisjoint ==
  \A f \in DOMAIN allocations :
    /\ isValidAllocation([first |-> f, final |-> allocations[f]])
    /\ \A g \in DOMAIN allocations : f < g => allocations[f] < g

(* What the server will copy for an Unlock in the ring is what the client  *)
(* wrote into that buffer: no chunk of it has been given to another one,   *)
(* or will be before the command is executed.                              *)
UnlockedDataIntact ==
  \A i \in 1 .. Len(ring) : ring[i].op = "Unlock" =>
    /\ ring[i].arg \in DOMAIN cache
    /\ \A c \in ChunksOf(ring[i].arg) : contents[c] = ring[i].arg

(* The server can follow every command it takes: the buffer's chunk is one *)
(* it knows, in a segment it has mapped, where the client has it.          *)
ServerResolves ==
  ring # <<>> /\ Head(ring).op \in {"Unlock", "Dealloc"} =>
    LET id == Head(ring).arg IN
    /\ id \in DOMAIN serverCache \cap DOMAIN cache
    /\ serverCache[id] = cache[id]
    /\ serverCache[id] < nChunks(serverSegments)
    /\ \A i \in 1 .. Len(serverSegments) : serverSegments[i] = segments[i]
==============================================================================
