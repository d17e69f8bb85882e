--------------------------- MODULE SharedHeapProofs ---------------------------
(***************************************************************************)
(* Proofs about the shared heap, for any buffers, sizes and segments, any  *)
(* number of allocations and locks, with time-outs and refused mappings.   *)
(*                                                                         *)
(* The client places allocations and the server gives them back, and they  *)
(* agree about one because the ring tells its story in order (Sent): Alloc *)
(* before the first Unlock, Dealloc after the last.  That the client sends *)
(* them so is the discipline of the locks (Used).                          *)
(***************************************************************************)
EXTENDS SharedHeap, SequenceTheorems, WellFoundedInduction, TLAPS

Busy == pc \in {"finding", "found", "sent"}
Requests == [buffer : Buffers, discarded : Ids \cup {Invalid}, readonly : BOOLEAN]
Locks == [id : Ids, discarded : Ids \cup {Invalid}, readonly : BOOLEAN]
Segments == [base : Nat, size : Nat \ {0}]

IsMap(f) == f = [x \in DOMAIN f |-> f[x]]

Shapes ==
  /\ segments # <<>> /\ serverSegments \in Seq(Segments)
  /\ IsMap(cache) /\ IsMap(allocations) /\ IsMap(serverCache)
  /\ lockInfos \in [Buffers -> Seq(Locks)]
  /\ Busy => request \in Requests /\ Len(lockInfos[request.buffer]) < MaxLocks
  /\ alloc \in [first : Int, final : Int]
  /\ pc \in {"finding", "found"} => nextUid < MaxUid

\* Segments follow each other without a gap, and every chunk is in one
Layout(segs) ==
  /\ \A i \in DOMAIN segs : segs[i].base + segs[i].size <= nChunks(segs)
  /\ \A i, j \in DOMAIN segs : i < j => segs[i].base + segs[i].size <= segs[j].base
  /\ \A c \in 0 .. nChunks(segs) - 1 : \E i \in DOMAIN segs : Inside(segs[i], c)
  /\ segs # <<>> => segs[1].base = 0
  /\ \A i \in DOMAIN segs \ {1} : segs[i].base = segs[i - 1].base + segs[i - 1].size

\* The chunks from first to final are in one segment
Valid(segs, first, final) ==
  /\ first \in 0 .. nChunks(segs) - 1 /\ final \in first .. nChunks(segs) - 1
  /\ SegmentOf(segs, first) = SegmentOf(segs, final)

\* None of the chunks from first to final is allocated
Free(map, first, final) == \A f \in DOMAIN map : map[f] < first \/ final < f

Apart(segs, map) ==
  \A f \in DOMAIN map :
    Valid(segs, f, map[f]) /\ \A g \in DOMAIN map : f < g => map[f] < g

\* Each allocation has its identifier
Named(ids, map, next) ==
  /\ \A id \in DOMAIN ids : id < next /\ ids[id] \in DOMAIN map
  /\ \A id, jd \in DOMAIN ids : ids[id] = ids[jd] => id = jd
  /\ \A f \in DOMAIN map : \E id \in DOMAIN ids : ids[id] = f

Last(n) == n - 1

\* The place that was found is free, and then taken
Promised ==
  /\ pc = "found" /\ Valid(segments, alloc.first, alloc.final) =>
       Free(allocations, alloc.first, alloc.final)
  /\ pc = "sent" =>
       /\ Last(nextUid) \in DOMAIN cache /\ alloc.first = cache[Last(nextUid)]
       /\ alloc.final = allocations[alloc.first] /\ chunkState[alloc.first] # "Deallocated"

Placed ==
  /\ Apart(segments, allocations) /\ Named(cache, allocations, nextUid)
  /\ \A c \in Chunks : chunkState[c] = "Deallocated" => c \in DOMAIN allocations
  /\ Promised

\* The allocation is complete, and its memory is not given back yet
Settled(id) == id \in DOMAIN cache /\ ~(pc = "sent" /\ id = Last(nextUid))
Live(id) == Settled(id) /\ chunkState[cache[id]] # "Deallocated"

Kept == \A id \in DOMAIN cache : Settled(id) => \A c \in ChunksOf(id) : contents[c] = id

\* x comes before y
Precedes(q, x, y) == \E i, j \in DOMAIN q : i < j /\ q[i] = x /\ q[j] = y

\* The buffer may still write to the allocation, or deallocate it
Uses(b, id) ==
  \/ bufferId[b] = id
  \/ \E x \in Range(lockInfos[b]) : id \in {x.id, x.discarded}
  \/ Busy /\ request.buffer = b /\ request.discarded = id

\* What a lock replaces is used by earlier locks at most, and replaced once
Replaced(b) ==
  /\ \A x \in Range(lockInfos[b]) : x.discarded # Invalid =>
       /\ x.discarded # bufferId[b] /\ x.discarded # x.id
       /\ Busy /\ request.buffer = b => x.discarded # request.discarded
  /\ \A x, y \in Range(lockInfos[b]) :
       Precedes(lockInfos[b], x, y) /\ x.discarded # Invalid =>
         x.discarded # y.id /\ x.discarded # y.discarded

Used ==
  /\ \A b \in Buffers, id \in Ids : Uses(b, id) =>
       Live(id) /\ \A x \in Range(ring) : x.op = "Dealloc" => x.arg # id
  /\ \A b1, b2 \in Buffers, id \in Ids : Uses(b1, id) /\ Uses(b2, id) => b1 = b2
  /\ \A b \in Buffers : Replaced(b)

\* About an allocation, Alloc comes first and Dealloc last
Ordered(x, y) ==
  x.op # "AddSeg" /\ y.op # "AddSeg" /\ x.arg = y.arg => x.op # "Dealloc" /\ y.op # "Alloc"

Sent ==
  /\ \A x \in Range(ring) :
       /\ x.op \in {"Unlock", "Dealloc"} => Live(x.arg)
       /\ x.op = "Alloc" => /\ x.arg \in DOMAIN cache /\ x.chunk = cache[x.arg]
                            /\ chunkState[x.chunk] # "Deallocated"
  /\ \A x, y \in Range(ring) : Precedes(ring, x, y) => Ordered(x, y)

\* n[i] is how many segments the server has when it takes command i
Mapped(n, r, segs, servers) ==
  /\ n[1] = Len(servers) /\ n[Len(r) + 1] = Len(segs)
  /\ \A i \in DOMAIN servers : i \in DOMAIN segs /\ servers[i] = segs[i]
  /\ \A i \in DOMAIN r :
       /\ r[i].op = "AddSeg" => n[i + 1] = n[i] + 1 /\ r[i].arg = segs[n[i] + 1].size
       /\ r[i].op # "AddSeg" => n[i + 1] = n[i]
       /\ r[i].op = "Alloc" =>
            n[i] > 0 /\ r[i].chunk < segs[n[i]].base + segs[n[i]].size

Mapping(r, segs, servers) ==
  \E n \in [1 .. Len(r) + 1 -> 0 .. Len(segs)] : Mapped(n, r, segs, servers)

Reached(map, servers) ==
  \A id \in DOMAIN map : map[id] \in Chunks /\ map[id] < nChunks(servers)

Known ==
  /\ \A id \in DOMAIN cache :
       \/ chunkState[cache[id]] = "Deallocated"
       \/ id \in DOMAIN serverCache /\ serverCache[id] = cache[id]
       \/ \E x \in Range(ring) : x.op = "Alloc" /\ x.arg = id
  /\ Reached(serverCache, serverSegments)
  /\ Mapping(ring, segments, serverSegments)

IInv == TypeOK /\ Shapes /\ Layout(segments) /\ Placed /\ Kept /\ Used /\ Sent /\ Known

-----------------------------------------------------------------------------
(* Sequences, and the largest of a bounded set *)

LEMMA AfterAppend ==
  ASSUME NEW S, NEW q \in Seq(S), NEW e \in S
  PROVE  /\ Append(q, e) \in Seq(S) /\ Range(Append(q, e)) = Range(q) \cup {e}
         /\ \A x, y : Precedes(Append(q, e), x, y) =>
              Precedes(q, x, y) \/ (x \in Range(q) /\ y = e)
<1> DEFINE r == Append(q, e)
<1>1. /\ r \in Seq(S) /\ DOMAIN r = 1 .. Len(q) + 1 /\ DOMAIN q = 1 .. Len(q) /\ Len(q) \in Nat
      /\ r[Len(q) + 1] = e /\ \A i \in 1 .. Len(q) : r[i] = q[i]
  BY AppendProperties
<1> HIDE DEF r
<1>2. Range(r) = Range(q) \cup {e}
  BY <1>1 DEF Range
<1>3. ASSUME NEW x, NEW y, Precedes(r, x, y), y # e \/ x \notin Range(q)
      PROVE  Precedes(q, x, y)
  <2>1. PICK i, j \in 1 .. Len(q) + 1 : i < j /\ r[i] = x /\ r[j] = y
    BY <1>1, <1>3 DEF Precedes
  <2>2. i \in 1 .. Len(q) /\ x \in Range(q)
    BY <1>1, <2>1 DEF Range
  <2>3. j \in 1 .. Len(q)
    BY <1>1, <1>3, <2>1, <2>2
  <2> QED
    BY <1>1, <2>1, <2>2, <2>3 DEF Precedes
<1> QED
  BY <1>1, <1>2, <1>3 DEF r

LEMMA AfterTail ==
  ASSUME NEW S, NEW q \in Seq(S), q # <<>>
  PROVE  /\ Head(q) \in S /\ Tail(q) \in Seq(S) /\ Head(q) \in Range(q) /\ Len(Tail(q)) <= Len(q)
         /\ Range(Tail(q)) \subseteq Range(q)
         /\ \A x \in Range(q) : x = Head(q) \/ x \in Range(Tail(q))
         /\ \A y \in Range(Tail(q)) : Precedes(q, Head(q), y)
         /\ \A x, y : Precedes(Tail(q), x, y) => Precedes(q, x, y)
<1> DEFINE r == Tail(q)
<1>1. /\ r \in Seq(S) /\ Len(r) = Len(q) - 1 /\ Len(q) \in Nat \ {0} /\ Len(r) \in Nat
      /\ DOMAIN q = 1 .. Len(q) /\ DOMAIN r = 1 .. Len(r) /\ Head(q) = q[1] /\ Head(q) \in S
      /\ \A i \in 1 .. Len(r) : r[i] = q[i + 1]
  BY HeadTailProperties
<1> HIDE DEF r
<1>2. Range(r) \subseteq Range(q) /\ Head(q) \in Range(q) /\ Len(r) <= Len(q)
  BY <1>1 DEF Range
<1>3. \A x \in Range(q) : x = Head(q) \/ x \in Range(r)
  <2> SUFFICES ASSUME NEW i \in 1 .. Len(q), i # 1
               PROVE  q[i] \in Range(r)
    BY <1>1 DEF Range
  <2>1. i - 1 \in 1 .. Len(r) /\ r[i - 1] = q[i]
    BY <1>1
  <2> QED
    BY <1>1, <2>1 DEF Range
<1>4. \A y \in Range(r) : Precedes(q, Head(q), y)
  <2> SUFFICES ASSUME NEW i \in 1 .. Len(r)
               PROVE  Precedes(q, Head(q), r[i])
    BY <1>1 DEF Range
  <2>1. i + 1 \in DOMAIN q /\ 1 \in DOMAIN q /\ 1 < i + 1 /\ q[i + 1] = r[i]
    BY <1>1
  <2> QED
    BY <1>1, <2>1 DEF Precedes
<1>5. ASSUME NEW x, NEW y, Precedes(r, x, y)
      PROVE  Precedes(q, x, y)
  <2>1. PICK i, j \in 1 .. Len(r) : i < j /\ r[i] = x /\ r[j] = y
    BY <1>1, <1>5 DEF Precedes
  <2>2. i + 1 \in DOMAIN q /\ j + 1 \in DOMAIN q /\ i + 1 < j + 1 /\ q[i + 1] = x /\ q[j + 1] = y
    BY <1>1, <2>1
  <2> QED
    BY <2>2 DEF Precedes
<1> QED
  BY <1>1, <1>2, <1>3, <1>4, <1>5 DEF r

LEMMA LeastNat ==
  ASSUME NEW T \in SUBSET Nat, T # {}
  PROVE  \E x \in T : \A y \in T : x <= y
<1> DEFINE R == OpToRel(<, Nat)
<1>1. IsWellFoundedOn(R, Nat)
  BY NatLessThanWellFounded
<1>2. \A x, y \in Nat : <<x, y>> \in R <=> x < y
  BY DEF OpToRel
<1> HIDE DEF R
<1>3. \E x \in T : \A y \in T : ~ (<<y, x>> \in R)
  BY <1>1, WFMin, Zenon
<1>4. PICK x \in T : \A y \in T : ~ (<<y, x>> \in R)
  BY <1>3
<1>5. \A y \in T : x <= y
  <2> SUFFICES ASSUME NEW y \in T PROVE x <= y
    OBVIOUS
  <2>1. ~ (y < x)
    BY <1>2, <1>4, x \in Nat, y \in Nat, Zenon
  <2> QED
    BY <2>1, x \in Nat, y \in Nat
<1> QED
  BY <1>5

LEMMA Largest ==
  ASSUME NEW T \in SUBSET Int, NEW top \in Int, T # {}, \A y \in T : y <= top
  PROVE  Max(T) \in T /\ \A y \in T : y <= Max(T)
<1> DEFINE U == {n \in Nat : top - n \in T}
<1>1. U \in SUBSET Nat /\ U # {}
  <2>1. PICK y \in T : TRUE
    OBVIOUS
  <2>2. top - y \in Nat /\ top - (top - y) = y
    BY <2>1
  <2> QED
    BY <2>2
<1>2. PICK n \in U : \A m \in U : n <= m
  BY <1>1, LeastNat
<1>3. \A y \in T : top - y \in U
  OBVIOUS
<1>4. top - n \in T /\ \A y \in T : top - n >= y
  BY <1>2, <1>3
<1>5. Max(T) \in T /\ \A y \in T : Max(T) >= y
  BY <1>4, Zenon DEF Max
<1> QED
  BY <1>5

LEMMA Lowest ==
  ASSUME NEW T \in SUBSET Nat, T # {}
  PROVE  Min(T) \in T /\ \A y \in T : Min(T) <= y
<1>1. PICK n \in T : \A m \in T : n <= m
  BY LeastNat
<1> QED
  BY <1>1, Zenon DEF Min

-----------------------------------------------------------------------------
(* Segments and places *)

LEMMA SegmentType ==
  ASSUME NEW segs \in Seq(Segments), NEW i \in DOMAIN segs
  PROVE  segs[i].base \in Nat /\ segs[i].size \in Nat /\ segs[i].size > 0 /\ i \in Nat
<1>1. segs[i] \in Segments /\ i \in Nat
  OBVIOUS
<1> QED
  BY <1>1 DEF Segments

\* A new segment begins where the last one ends
LEMMA SegmentNext ==
  ASSUME NEW segs \in Seq(Segments), NEW n \in Nat \ {0}
  PROVE  /\ AddSegment(segs, n) \in Seq(Segments) /\ AddSegment(segs, n) # <<>>
         /\ nChunks(AddSegment(segs, n)) = nChunks(segs) + n
         /\ nChunks(segs) \in Nat /\ Len(AddSegment(segs, n)) = Len(segs) + 1
         /\ AddSegment(segs, n)[Len(segs) + 1] = [base |-> nChunks(segs), size |-> n]
         /\ \A i \in 1 .. Len(segs) : AddSegment(segs, n)[i] = segs[i]
<1> DEFINE t == AddSegment(segs, n)
           m == nChunks(segs)
           e == [base |-> m, size |-> n]
<1>1. Len(segs) \in Nat /\ segs # <<>> <=> Len(segs) > 0
  BY EmptySeq
<1>2. m \in Nat /\ e \in Segments
  <2>1. CASE segs = <<>>
    BY <2>1 DEF nChunks, Segments
  <2>2. CASE segs # <<>>
    <3>1. Len(segs) \in DOMAIN segs
      BY <1>1, <2>2
    <3> QED
      BY <2>2, <3>1, SegmentType DEF nChunks, Segments
  <2> QED
    BY <2>1, <2>2
<1>3. /\ t \in Seq(Segments) /\ Len(t) = Len(segs) + 1 /\ t[Len(segs) + 1] = e
      /\ DOMAIN t = 1 .. Len(segs) + 1 /\ \A i \in 1 .. Len(segs) : t[i] = segs[i]
  BY <1>2, AppendProperties DEF AddSegment
<1>4. nChunks(t) = m + n /\ t # <<>>
  BY <1>1, <1>2, <1>3 DEF nChunks
<1> QED
  BY <1>2, <1>3, <1>4

LEMMA SegmentAdded ==
  ASSUME NEW segs \in Seq(Segments), NEW n \in Nat \ {0}, Layout(segs)
  PROVE  Layout(AddSegment(segs, n))
<1> DEFINE t == AddSegment(segs, n)
           m == nChunks(segs)
           e == [base |-> m, size |-> n]
<1>1. Len(segs) \in Nat /\ DOMAIN segs = 1 .. Len(segs) /\ segs # <<>> <=> Len(segs) > 0
  BY EmptySeq
<1>2. m \in Nat
  BY SegmentNext
<1>3. /\ t \in Seq(Segments) /\ Len(t) = Len(segs) + 1 /\ t[Len(segs) + 1] = e
      /\ \A i \in 1 .. Len(segs) : t[i] = segs[i]
  BY SegmentNext
<1>4. nChunks(t) = m + n /\ t # <<>>
  BY SegmentNext
<1>5. \A i \in DOMAIN segs : segs[i].base \in Nat /\ segs[i].size \in Nat /\ segs[i].size > 0
  BY SegmentType
<1> HIDE DEF t, m
<1>6. Layout(t)
  <2>1. \A i \in DOMAIN t : t[i].base + t[i].size <= nChunks(t)
    BY <1>1, <1>2, <1>3, <1>4, <1>5 DEF Layout, m
  <2>2. \A i, j \in DOMAIN t : i < j => t[i].base + t[i].size <= t[j].base
    <3> SUFFICES ASSUME NEW i \in 1 .. Len(segs) + 1, NEW j \in 1 .. Len(segs) + 1, i < j
                 PROVE  t[i].base + t[i].size <= t[j].base
      BY <1>3
    <3>1. i \in DOMAIN segs
      BY <1>1
    <3>2. CASE j \in DOMAIN segs
      BY <1>1, <1>3, <3>1, <3>2 DEF Layout
    <3>3. CASE j \notin DOMAIN segs
      <4>1. j = Len(segs) + 1 /\ t[j].base = m /\ t[i] = segs[i]
        BY <1>1, <1>3, <3>1, <3>3
      <4> QED
        BY <3>1, <4>1 DEF Layout, m
    <3> QED
      BY <3>2, <3>3
  <2>3. \A c \in 0 .. nChunks(t) - 1 : \E i \in DOMAIN t : Inside(t[i], c)
    <3> SUFFICES ASSUME NEW c \in 0 .. m + n - 1
                 PROVE  \E i \in DOMAIN t : Inside(t[i], c)
      <4>1. 0 .. nChunks(t) - 1 = 0 .. m + n - 1
        BY <1>2, <1>4
      <4> QED
        BY <4>1, Zenon
    <3>1. CASE c < m
      <4>1. PICK i \in DOMAIN segs : Inside(segs[i], c)
        BY <1>2, <3>1 DEF Layout, m
      <4> QED
        BY <1>1, <1>3, <4>1
    <3>2. CASE c >= m
      BY <1>1, <1>2, <1>3, <3>2 DEF Inside
    <3> QED
      BY <1>2, <3>1, <3>2
  <2>4. t[1].base = 0
    <3>1. CASE segs = <<>>
      BY <1>1, <1>3, <3>1 DEF m, nChunks
    <3>2. CASE segs # <<>>
      BY <1>1, <1>3, <3>2 DEF Layout
    <3> QED
      BY <3>1, <3>2
  <2>5. \A i \in DOMAIN t \ {1} : t[i].base = t[i - 1].base + t[i - 1].size
    <3> SUFFICES ASSUME NEW i \in 2 .. Len(segs) + 1
                 PROVE  t[i].base = t[i - 1].base + t[i - 1].size
      BY <1>1, <1>3
    <3>1. CASE i = Len(segs) + 1
      BY <1>1, <1>3, <3>1 DEF m, nChunks
    <3>2. CASE i # Len(segs) + 1
      <4>1. i \in DOMAIN segs \ {1} /\ i \in 1 .. Len(segs) /\ i - 1 \in 1 .. Len(segs)
        BY <1>1, <3>2
      <4> QED
        BY <1>3, <4>1 DEF Layout
    <3> QED
      BY <3>1, <3>2
  <2> QED
    BY <2>1, <2>2, <2>3, <2>4, <2>5 DEF Layout
<1> QED
  BY <1>6 DEF t

\* The segment of a chunk
LEMMA TheSegment ==
  ASSUME NEW segs \in Seq(Segments), Layout(segs), NEW i \in DOMAIN segs, NEW c \in Nat,
         Inside(segs[i], c)
  PROVE  SegmentOf(segs, c) = i
<1>1. \A j \in DOMAIN segs : segs[j].base \in Nat /\ segs[j].size \in Nat /\ j \in Nat
  BY SegmentType
<1>2. \A j \in DOMAIN segs : Inside(segs[j], c) => j = i
  <2> SUFFICES ASSUME NEW j \in DOMAIN segs, Inside(segs[j], c), j # i
               PROVE  FALSE
    OBVIOUS
  <2>1. i < j \/ j < i
    BY <1>1
  <2> QED
    BY <1>1, <2>1 DEF Layout, Inside
<1> QED
  BY <1>2 DEF SegmentOf

LEMMA ValidStays ==
  ASSUME NEW segs \in Seq(Segments), Layout(segs), NEW n \in Nat \ {0},
         NEW first, NEW final, Valid(segs, first, final)
  PROVE  Valid(AddSegment(segs, n), first, final)
<1> DEFINE t == AddSegment(segs, n)
<1>1. /\ t \in Seq(Segments) /\ Layout(t) /\ nChunks(t) = nChunks(segs) + n /\ nChunks(segs) \in Nat
      /\ \A i \in DOMAIN segs : i \in DOMAIN t /\ t[i] = segs[i]
  <2>1. /\ t \in Seq(Segments) /\ nChunks(t) = nChunks(segs) + n /\ nChunks(segs) \in Nat
        /\ Len(t) = Len(segs) + 1 /\ \A i \in 1 .. Len(segs) : t[i] = segs[i]
    BY SegmentNext
  <2>2. Layout(t)
    BY SegmentAdded
  <2> HIDE DEF t
  <2> QED
    BY <2>1, <2>2
<1>2. first \in 0 .. nChunks(segs) - 1 /\ final \in 0 .. nChunks(segs) - 1 /\ first <= final
  BY <1>1 DEF Valid
<1> HIDE DEF t
<1>3. \A c \in 0 .. nChunks(segs) - 1 : SegmentOf(t, c) = SegmentOf(segs, c)
  <2> SUFFICES ASSUME NEW c \in 0 .. nChunks(segs) - 1
               PROVE  SegmentOf(t, c) = SegmentOf(segs, c)
    OBVIOUS
  <2>1. c \in Nat
    BY <1>1
  <2>2. PICK i \in DOMAIN segs : Inside(segs[i], c)
    BY DEF Layout
  <2>3. i \in DOMAIN t /\ Inside(t[i], c)
    BY <1>1, <2>2
  <2> QED
    BY <1>1, <2>1, <2>2, <2>3, TheSegment
<1> QED
  BY <1>1, <1>2, <1>3 DEF Valid, t

-----------------------------------------------------------------------------
(* Allocations *)

LEMMA ApartType ==
  ASSUME NEW segs \in Seq(Segments), Layout(segs), NEW map, Apart(segs, map), NEW f \in DOMAIN map
  PROVE  f \in Nat /\ map[f] \in Nat /\ f <= map[f] /\ map[f] < nChunks(segs) /\ nChunks(segs) \in Nat
<1>1. nChunks(segs) \in Nat
  BY SegmentNext, 1 \in Nat \ {0}
<1>2. Valid(segs, f, map[f])
  BY DEF Apart
<1> QED
  BY <1>1, <1>2 DEF Valid

LEMMA ApartWith ==
  ASSUME NEW segs \in Seq(Segments), Layout(segs), NEW map, Apart(segs, map),
         NEW first \in Int, NEW final \in Int, Valid(segs, first, final), Free(map, first, final)
  PROVE  Apart(segs, With(map, first, final)) /\ first \notin DOMAIN map
<1> DEFINE w == With(map, first, final)
<1>1. first <= final /\ first \in Nat /\ final \in Nat
  <2>1. nChunks(segs) \in Nat
    BY SegmentNext, 1 \in Nat \ {0}
  <2> QED
    BY <2>1 DEF Valid
<1>2. \A f \in DOMAIN map : f \in Nat /\ map[f] \in Nat /\ f <= map[f]
  BY ApartType
<1>3. first \notin DOMAIN map
  BY <1>1, <1>2 DEF Free
<1>4. DOMAIN w = DOMAIN map \cup {first} /\ w[first] = final /\ \A f \in DOMAIN map : w[f] = map[f]
  BY <1>3 DEF With
<1> HIDE DEF w
<1>5. ASSUME NEW f \in DOMAIN w
      PROVE  Valid(segs, f, w[f])
  BY <1>4, <1>5 DEF Apart
<1>6. ASSUME NEW f \in DOMAIN w, NEW g \in DOMAIN w, f < g
      PROVE  w[f] < g
  <2>1. CASE f \in DOMAIN map /\ g \in DOMAIN map
    BY <1>4, <1>6, <2>1 DEF Apart
  <2>2. CASE f = first /\ g \in DOMAIN map
    BY <1>1, <1>2, <1>4, <1>6, <2>2 DEF Free
  <2>3. CASE f \in DOMAIN map /\ g = first
    BY <1>1, <1>2, <1>4, <1>6, <2>3 DEF Free
  <2> QED
    BY <1>1, <1>4, <1>6, <2>1, <2>2, <2>3
<1> QED
  BY <1>3, <1>5, <1>6 DEF Apart, w

LEMMA ApartRestrict ==
  ASSUME NEW segs, NEW map, Apart(segs, map), NEW S \in SUBSET DOMAIN map
  PROVE  Apart(segs, Restrict(map, S))
<1>1. DOMAIN Restrict(map, S) = S /\ \A f \in S : Restrict(map, S)[f] = map[f] /\ f \in DOMAIN map
  BY DEF Restrict
<1> QED
  BY <1>1, Zenon DEF Apart

LEMMA ApartGrows ==
  ASSUME NEW segs \in Seq(Segments), Layout(segs), NEW n \in Nat \ {0}, NEW map, Apart(segs, map)
  PROVE  Apart(AddSegment(segs, n), map)
  BY ValidStays DEF Apart

LEMMA NamedWith ==
  ASSUME NEW ids, NEW map, NEW n \in Nat, DOMAIN ids \subseteq Nat, Named(ids, map, n),
         NEW first, NEW final, first \notin DOMAIN map
  PROVE  Named(With(ids, n, first), With(map, first, final), n + 1) /\ n \notin DOMAIN ids
<1> DEFINE w == With(ids, n, first)
           m == With(map, first, final)
<1>1. n \notin DOMAIN ids /\ \A id \in DOMAIN ids : id < n + 1
  BY DEF Named
<1>2. DOMAIN w = DOMAIN ids \cup {n} /\ w[n] = first /\ \A id \in DOMAIN ids : w[id] = ids[id]
  BY <1>1 DEF With
<1>3. DOMAIN m = DOMAIN map \cup {first}
  BY DEF With
<1> HIDE DEF w, m
<1>4. \A id \in DOMAIN w : id < n + 1 /\ w[id] \in DOMAIN m
  BY <1>1, <1>2, <1>3 DEF Named
<1>5. \A id, jd \in DOMAIN w : w[id] = w[jd] => id = jd
  BY <1>2 DEF Named
<1>6. \A f \in DOMAIN m : \E id \in DOMAIN w : w[id] = f
  BY <1>2, <1>3 DEF Named
<1> QED
  BY <1>1, <1>4, <1>5, <1>6 DEF Named, w, m

LEMMA NamedRestrict ==
  ASSUME NEW ids, NEW map, NEW n, Named(ids, map, n), NEW G \in SUBSET DOMAIN ids
  PROVE  Named(Restrict(ids, DOMAIN ids \ G), Restrict(map, DOMAIN map \ {ids[id] : id \in G}), n)
<1> DEFINE w == Restrict(ids, DOMAIN ids \ G)
           F == {ids[id] : id \in G}
           m == Restrict(map, DOMAIN map \ F)
<1>1. DOMAIN w = DOMAIN ids \ G /\ \A id \in DOMAIN w : w[id] = ids[id]
  BY DEF Restrict
<1>2. DOMAIN m = DOMAIN map \ F
  BY DEF Restrict
<1>3. \A id \in DOMAIN ids : ids[id] \in F => id \in G
  BY DEF Named
<1>4. \A id \in G : ids[id] \in F
  OBVIOUS
<1> HIDE DEF w, F, m
<1>5. \A id \in DOMAIN w : id < n /\ w[id] \in DOMAIN m
  BY <1>1, <1>2, <1>3, Zenon DEF Named
<1>6. \A id, jd \in DOMAIN w : w[id] = w[jd] => id = jd
  BY <1>1 DEF Named
<1>7. \A f \in DOMAIN m : \E id \in DOMAIN w : w[id] = f
  BY <1>1, <1>2, <1>4 DEF Named
<1> QED
  BY <1>5, <1>6, <1>7, Zenon DEF Named, w, m, F

LEMMA MiddleIsFree ==
  ASSUME segments \in Seq(Segments), Layout(segments), Apart(segments, allocations),
         NEW n \in Nat \ {0}
  PROVE  /\ findFreeInMiddle(n) \in [first : Int, final : Int]
         /\ Valid(segments, findFreeInMiddle(n).first, findFreeInMiddle(n).final) =>
              Free(allocations, findFreeInMiddle(n).first, findFreeInMiddle(n).final)
<1> DEFINE A == DOMAIN allocations
           B(c) == {Invalid} \cup {allocations[f] : f \in {g \in A : g < c}}
           after == {f \in A : f - (FinalBefore(f) + 1) >= n}
           m == Min(after)
<1>1. \A f \in A : f \in Nat /\ allocations[f] \in Nat /\ f <= allocations[f]
                   /\ allocations[f] < nChunks(segments) /\ nChunks(segments) \in Nat
  BY ApartType
<1>2. ASSUME NEW c \in A
      PROVE  FinalBefore(c) \in Int /\ \A g \in A : g < c => allocations[g] <= FinalBefore(c)
  <2>1. B(c) \in SUBSET Int /\ B(c) # {}
    BY <1>1 DEF Invalid
  <2>2. nChunks(segments) \in Int /\ \A y \in B(c) : y <= nChunks(segments)
    BY <1>1, <1>2 DEF Invalid
  <2>3. Max(B(c)) \in B(c) /\ \A y \in B(c) : y <= Max(B(c))
    <3> HIDE DEF B
    <3> QED
      BY <2>1, <2>2, Largest
  <2>4. \A g \in A : g < c => allocations[g] \in B(c)
    OBVIOUS
  <2>5. FinalBefore(c) = Max(B(c))
    BY DEF FinalBefore
  <2> QED
    BY <2>1, <2>3, <2>4, <2>5
<1>3. CASE after = {}
  <2>1. findFreeInMiddle(n) = NoAllocation
    BY <1>3 DEF findFreeInMiddle
  <2>2. findFreeInMiddle(n) \in [first : Int, final : Int] /\ findFreeInMiddle(n).first = -1
    BY <2>1 DEF NoAllocation, Invalid
  <2>3. -1 \notin 0 .. nChunks(segments) - 1
    OBVIOUS
  <2> QED
    BY <2>2, <2>3 DEF Valid
<1>4. CASE after # {}
  <2>1. m \in after
    <3>1. after \in SUBSET Nat
      BY <1>1
    <3> HIDE DEF after
    <3> QED
      BY <1>4, <3>1, Lowest
  <2>2. findFreeInMiddle(n) = createAllocation(FinalBefore(m) + 1, n)
    BY <1>4 DEF findFreeInMiddle
  <2>3. m \in A /\ m \in Nat /\ FinalBefore(m) \in Int /\ m - (FinalBefore(m) + 1) >= n
    BY <1>1, <1>2, <2>1
  <2> DEFINE e == FinalBefore(m)
  <2>4. \A g \in A : g < m => allocations[g] <= e
    BY <1>2, <2>3
  <2> HIDE DEF m, e, after
  <2>5. findFreeInMiddle(n) = [first |-> e + 1, final |-> e + 1 + n - 1] /\ e \in Int /\ m - (e + 1) >= n
    BY <2>2, <2>3 DEF createAllocation, e
  <2>6. Free(allocations, e + 1, e + 1 + n - 1)
    BY <1>1, <2>3, <2>4, <2>5 DEF Free
  <2> QED
    BY <2>5, <2>6
<1> QED
  BY <1>3, <1>4

LEMMA EndIsFree ==
  ASSUME segments \in Seq(Segments), Layout(segments), Apart(segments, allocations),
         DOMAIN allocations # {}, NEW n \in Nat \ {0}
  PROVE  /\ findFreeOnEnd(n) \in [first : Int, final : Int]
         /\ Free(allocations, findFreeOnEnd(n).first, findFreeOnEnd(n).final)
<1> DEFINE A == DOMAIN allocations
           m == Max(A)
<1>1. \A f \in A : f \in Nat /\ allocations[f] \in Nat /\ f <= allocations[f]
                   /\ allocations[f] < nChunks(segments) /\ nChunks(segments) \in Nat
  BY ApartType
<1>2. m \in A /\ \A f \in A : f <= m
  <2>1. A \in SUBSET Int /\ nChunks(segments) \in Int /\ \A y \in A : y <= nChunks(segments)
    BY <1>1
  <2> HIDE DEF A
  <2> QED
    BY <2>1, Largest DEF A
<1>3. \A f, g \in A : f < g => allocations[f] < g
  BY DEF Apart
<1>4. findFreeOnEnd(n) = [first |-> allocations[m] + 1, final |-> allocations[m] + 1 + n - 1]
  BY DEF findFreeOnEnd, createAllocation
<1> HIDE DEF m
<1>5. \A f \in A : allocations[f] < allocations[m] + 1
  <2> SUFFICES ASSUME NEW f \in A PROVE allocations[f] < allocations[m] + 1
    OBVIOUS
  <2>1. CASE f = m
    BY <1>1, <2>1
  <2>2. CASE f # m
    BY <1>1, <1>2, <1>3, <2>2
  <2> QED
    BY <2>1, <2>2
<1> QED
  BY <1>1, <1>2, <1>4, <1>5 DEF Free

-----------------------------------------------------------------------------
(* The segments the server knows *)

LEMMA MappingAppend ==
  ASSUME NEW segs \in Seq(Segments), NEW servers \in Seq(Segments), segs # <<>>,
         NEW r \in Seq(Commands), NEW e \in Commands, Mapping(r, segs, servers),
         e.op # "AddSeg", e.op = "Alloc" => e.chunk < nChunks(segs)
  PROVE  Mapping(Append(r, e), segs, servers)
<1> DEFINE L == Len(r)
           q == Append(r, e)
<1>1. PICK n \in [1 .. L + 1 -> 0 .. Len(segs)] : Mapped(n, r, segs, servers)
  BY DEF Mapping
<1> DEFINE m == [i \in 1 .. L + 2 |-> IF i <= L + 1 THEN n[i] ELSE Len(segs)]
<1>2. /\ L \in Nat /\ Len(segs) \in Nat /\ Len(segs) > 0 /\ Len(q) = L + 1 /\ DOMAIN q = 1 .. L + 1
      /\ DOMAIN r = 1 .. L /\ q[L + 1] = e /\ \A i \in 1 .. L : q[i] = r[i]
  BY AppendProperties, EmptySeq
<1>3. m \in [1 .. L + 2 -> 0 .. Len(segs)] /\ m[L + 2] = Len(segs) /\ \A i \in 1 .. L + 1 : m[i] = n[i]
  BY <1>2
<1> HIDE DEF L, q, m
<1>4. \A i \in 1 .. L :
        /\ q[i].op = "AddSeg" => m[i + 1] = m[i] + 1 /\ q[i].arg = segs[m[i] + 1].size
        /\ q[i].op # "AddSeg" => m[i + 1] = m[i]
        /\ q[i].op = "Alloc" => m[i] > 0 /\ q[i].chunk < segs[m[i]].base + segs[m[i]].size
  <2> SUFFICES ASSUME NEW i \in 1 .. L
               PROVE  /\ q[i] = r[i] /\ m[i] = n[i] /\ m[i + 1] = n[i + 1] /\ i \in DOMAIN r
    BY <1>1 DEF Mapped
  <2> QED
    BY <1>2, <1>3
<1>5. m[L + 1] = Len(segs) /\ m[L + 2] = Len(segs) /\ m[1] = Len(servers)
  <2>1. n[L + 1] = Len(segs) /\ n[1] = Len(servers)
    BY <1>1 DEF Mapped, L
  <2>2. L + 1 \in 1 .. L + 1 /\ 1 \in 1 .. L + 1
    BY <1>2
  <2> QED
    BY <1>3, <2>1, <2>2
<1>6. e.op = "Alloc" => e.chunk < segs[Len(segs)].base + segs[Len(segs)].size
  BY DEF nChunks
<1>7. Mapped(m, q, segs, servers)
  <2>1. \A i \in DOMAIN q :
          /\ q[i].op = "AddSeg" => m[i + 1] = m[i] + 1 /\ q[i].arg = segs[m[i] + 1].size
          /\ q[i].op # "AddSeg" => m[i + 1] = m[i]
          /\ q[i].op = "Alloc" => m[i] > 0 /\ q[i].chunk < segs[m[i]].base + segs[m[i]].size
    <3> SUFFICES ASSUME NEW i \in 1 .. L + 1
                 PROVE  /\ q[i].op = "AddSeg" => m[i + 1] = m[i] + 1 /\ q[i].arg = segs[m[i] + 1].size
                        /\ q[i].op # "AddSeg" => m[i + 1] = m[i]
                        /\ q[i].op = "Alloc" =>
                             m[i] > 0 /\ q[i].chunk < segs[m[i]].base + segs[m[i]].size
      BY <1>2
    <3>1. CASE i = L + 1
      <4>1. q[i] = e /\ m[i] = Len(segs) /\ m[i + 1] = Len(segs)
        BY <1>2, <1>5, <3>1
      <4> QED
        BY <1>2, <1>6, <4>1
    <3>2. CASE i # L + 1
      <4>1. i \in 1 .. L
        BY <1>2, <3>2
      <4> QED
        BY <1>4, <4>1
    <3> QED
      BY <3>1, <3>2
  <2>2. m[Len(q) + 1] = Len(segs)
    <3>1. Len(q) + 1 = L + 2
      BY <1>2
    <3> QED
      BY <1>5, <3>1
  <2> QED
    BY <1>1, <1>5, <2>1, <2>2 DEF Mapped
<1>8. m \in [1 .. Len(q) + 1 -> 0 .. Len(segs)]
  <2>1. Len(q) + 1 = L + 2
    BY <1>2
  <2> QED
    BY <1>3, <2>1
<1> QED
  BY <1>7, <1>8 DEF Mapping, q

LEMMA MappingAdd ==
  ASSUME NEW segs \in Seq(Segments), NEW servers \in Seq(Segments), Layout(segs),
         NEW r \in Seq(Commands), NEW k \in Nat \ {0}, Mapping(r, segs, servers)
  PROVE  Mapping(Append(r, [op |-> "AddSeg", arg |-> k]), AddSegment(segs, k), servers)
<1> DEFINE L == Len(r)
           e == [op |-> "AddSeg", arg |-> k]
           q == Append(r, e)
           t == AddSegment(segs, k)
<1>1. PICK n \in [1 .. L + 1 -> 0 .. Len(segs)] : Mapped(n, r, segs, servers)
  BY DEF Mapping
<1> DEFINE m == [i \in 1 .. L + 2 |-> IF i <= L + 1 THEN n[i] ELSE Len(segs) + 1]
<1>2. /\ L \in Nat /\ Len(segs) \in Nat /\ Len(q) = L + 1 /\ DOMAIN q = 1 .. L + 1
      /\ DOMAIN r = 1 .. L /\ q[L + 1] = e /\ \A i \in 1 .. L : q[i] = r[i]
  <2>1. e \in Commands
    BY DEF Commands
  <2> QED
    BY <2>1, AppendProperties
<1>3. /\ m \in [1 .. L + 2 -> 0 .. Len(segs) + 1] /\ m[L + 2] = Len(segs) + 1
      /\ \A i \in 1 .. L + 1 : m[i] = n[i]
  BY <1>2
<1>4. /\ Len(t) = Len(segs) + 1 /\ t[Len(segs) + 1].size = k /\ DOMAIN segs = 1 .. Len(segs)
      /\ \A i \in 1 .. Len(segs) : i \in DOMAIN t /\ t[i] = segs[i]
  <2>1. /\ Len(t) = Len(segs) + 1 /\ t[Len(segs) + 1] = [base |-> nChunks(segs), size |-> k]
        /\ t \in Seq(Segments) /\ \A i \in 1 .. Len(segs) : t[i] = segs[i]
    BY SegmentNext
  <2> HIDE DEF t
  <2>2. t[Len(segs) + 1].size = k /\ DOMAIN segs = 1 .. Len(segs)
    BY <2>1
  <2> QED
    BY <2>1, <2>2
<1>5. m[L + 1] = Len(segs) /\ m[1] = Len(servers)
  BY <1>1, <1>2, <1>3 DEF Mapped
<1>6. e.op = "AddSeg" /\ e.arg = k
  OBVIOUS
<1> HIDE DEF L, q, m, t, e
<1>7. \A i \in DOMAIN q :
          /\ q[i].op = "AddSeg" => m[i + 1] = m[i] + 1 /\ q[i].arg = t[m[i] + 1].size
          /\ q[i].op # "AddSeg" => m[i + 1] = m[i]
          /\ q[i].op = "Alloc" => m[i] > 0 /\ q[i].chunk < t[m[i]].base + t[m[i]].size
  <2> SUFFICES ASSUME NEW i \in 1 .. L + 1
               PROVE  /\ q[i].op = "AddSeg" => m[i + 1] = m[i] + 1 /\ q[i].arg = t[m[i] + 1].size
                      /\ q[i].op # "AddSeg" => m[i + 1] = m[i]
                      /\ q[i].op = "Alloc" => m[i] > 0 /\ q[i].chunk < t[m[i]].base + t[m[i]].size
    BY <1>2
  <2>1. CASE i = L + 1
    <3>1. q[i] = e /\ m[i] = Len(segs) /\ m[i + 1] = Len(segs) + 1
      BY <1>2, <1>3, <1>5, <2>1
    <3> QED
      BY <1>4, <1>6, <3>1
  <2>2. CASE i # L + 1
    <3>1. i \in 1 .. L /\ i + 1 \in 1 .. L + 1 /\ i \in 1 .. L + 1
      BY <1>2, <2>2
    <3>2. q[i] = r[i] /\ m[i] = n[i] /\ m[i + 1] = n[i + 1] /\ i \in DOMAIN r
      BY <1>2, <1>3, <3>1
    <3>3. n[i] \in 0 .. Len(segs) /\ n[i + 1] \in 0 .. Len(segs)
      BY <1>2, <3>1 DEF L
    <3>4. /\ r[i].op = "AddSeg" => n[i + 1] = n[i] + 1 /\ r[i].arg = segs[n[i] + 1].size
          /\ r[i].op # "AddSeg" => n[i + 1] = n[i]
          /\ r[i].op = "Alloc" => n[i] > 0 /\ r[i].chunk < segs[n[i]].base + segs[n[i]].size
      BY <1>1, <3>2 DEF Mapped
    <3>5. r[i].op = "AddSeg" => t[n[i] + 1] = segs[n[i] + 1]
      BY <1>2, <1>4, <3>3, <3>4
    <3>6. r[i].op = "Alloc" => t[n[i]] = segs[n[i]]
      BY <1>2, <1>4, <3>3, <3>4
    <3> QED
      BY <3>2, <3>4, <3>5, <3>6
  <2> QED
    BY <2>1, <2>2
<1>8. Mapped(m, q, t, servers)
  <2>1. m[Len(q) + 1] = Len(t)
    <3>1. Len(q) + 1 = L + 2
      BY <1>2
    <3> QED
      BY <1>3, <1>4, <3>1
  <2>2. \A i \in DOMAIN servers : i \in DOMAIN t /\ servers[i] = t[i]
    BY <1>1, <1>4 DEF Mapped
  <2> QED
    BY <1>5, <1>7, <2>1, <2>2 DEF Mapped
<1>9. m \in [1 .. Len(q) + 1 -> 0 .. Len(t)]
  <2>1. Len(q) + 1 = L + 2
    BY <1>2
  <2> QED
    BY <1>3, <1>4, <2>1
<1> QED
  BY <1>8, <1>9 DEF Mapping, q, t, e

\* The server takes a command
LEMMA MappingTail ==
  ASSUME NEW segs \in Seq(Segments), NEW servers \in Seq(Segments), Layout(segs),
         NEW r \in Seq(Commands), r # <<>>, Mapping(r, segs, servers)
  PROVE  /\ Head(r).op # "AddSeg" => Mapping(Tail(r), segs, servers)
         /\ Head(r).op = "AddSeg" =>
              /\ Head(r).arg \in Nat \ {0}
              /\ Mapping(Tail(r), segs, AddSegment(servers, Head(r).arg))
         /\ Head(r).op = "Alloc" => Head(r).chunk < nChunks(servers)
<1> DEFINE L == Len(r)
           q == Tail(r)
           h == Head(r)
           s == Len(servers)
           u == AddSegment(servers, h.arg)
<1>1. PICK n \in [1 .. L + 1 -> 0 .. Len(segs)] : Mapped(n, r, segs, servers)
  BY DEF Mapping
<1> DEFINE m == [i \in 1 .. L |-> n[i + 1]]
<1>2. /\ L \in Nat /\ L > 0 /\ Len(segs) \in Nat /\ Len(q) = L - 1 /\ DOMAIN q = 1 .. L - 1
      /\ DOMAIN r = 1 .. L /\ h = r[1] /\ \A i \in 1 .. L - 1 : q[i] = r[i + 1]
      /\ s \in Nat /\ DOMAIN servers = 1 .. s /\ DOMAIN segs = 1 .. Len(segs)
  BY HeadTailProperties, EmptySeq
<1>3. m \in [1 .. L -> 0 .. Len(segs)] /\ \A i \in 1 .. L : m[i] = n[i + 1]
  BY <1>2
<1>4. /\ n[1] = s /\ m[L] = Len(segs) /\ \A i \in 1 .. s : i \in DOMAIN segs /\ servers[i] = segs[i]
      /\ h.op = "AddSeg" => m[1] = s + 1 /\ h.arg = segs[s + 1].size
      /\ h.op # "AddSeg" => m[1] = s
      /\ h.op = "Alloc" => s > 0 /\ h.chunk < segs[s].base + segs[s].size
  <2>1. /\ n[1] = s /\ n[L + 1] = Len(segs)
        /\ \A i \in DOMAIN servers : i \in DOMAIN segs /\ servers[i] = segs[i]
    BY <1>1 DEF Mapped
  <2>2. /\ r[1].op = "AddSeg" => n[1 + 1] = n[1] + 1 /\ r[1].arg = segs[n[1] + 1].size
        /\ r[1].op # "AddSeg" => n[1 + 1] = n[1]
        /\ r[1].op = "Alloc" => n[1] > 0 /\ r[1].chunk < segs[n[1]].base + segs[n[1]].size
    <3>1. 1 \in DOMAIN r
      BY <1>2
    <3> QED
      BY <1>1, <3>1, Zenon DEF Mapped
  <2>3. m[1] = n[1 + 1] /\ m[L] = n[L + 1]
    BY <1>2
  <2> HIDE DEF m, L, h, s
  <2> QED
    BY <1>2, <2>1, <2>2, <2>3
<1> HIDE DEF L, q, m, h, s, u
<1>5. \A i \in DOMAIN q :
          /\ q[i].op = "AddSeg" => m[i + 1] = m[i] + 1 /\ q[i].arg = segs[m[i] + 1].size
          /\ q[i].op # "AddSeg" => m[i + 1] = m[i]
          /\ q[i].op = "Alloc" => m[i] > 0 /\ q[i].chunk < segs[m[i]].base + segs[m[i]].size
  <2> SUFFICES ASSUME NEW i \in 1 .. L - 1
               PROVE  /\ q[i].op = "AddSeg" => m[i + 1] = m[i] + 1 /\ q[i].arg = segs[m[i] + 1].size
                      /\ q[i].op # "AddSeg" => m[i + 1] = m[i]
                      /\ q[i].op = "Alloc" =>
                           m[i] > 0 /\ q[i].chunk < segs[m[i]].base + segs[m[i]].size
    BY <1>2
  <2> DEFINE j == i + 1
  <2>1. i \in 1 .. L /\ j \in 1 .. L
    BY <1>2
  <2>2. q[i] = r[j] /\ m[i] = n[j] /\ m[i + 1] = n[j + 1] /\ j \in DOMAIN r
    BY <1>2, <1>3, <2>1
  <2> HIDE DEF j
  <2>3. /\ r[j].op = "AddSeg" => n[j + 1] = n[j] + 1 /\ r[j].arg = segs[n[j] + 1].size
        /\ r[j].op # "AddSeg" => n[j + 1] = n[j]
        /\ r[j].op = "Alloc" => n[j] > 0 /\ r[j].chunk < segs[n[j]].base + segs[n[j]].size
    BY <1>1, <2>2, Zenon DEF Mapped
  <2> QED
    BY <2>2, <2>3, Zenon
<1>6. Len(q) + 1 = L
  BY <1>2
<1>7. ASSUME h.op # "AddSeg" PROVE Mapping(q, segs, servers)
  <2>1. Mapped(m, q, segs, servers)
    BY <1>2, <1>4, <1>5, <1>6, <1>7 DEF Mapped, s
  <2> QED
    BY <1>3, <1>6, <2>1 DEF Mapping
<1>8. ASSUME h.op = "AddSeg" PROVE h.arg \in Nat \ {0} /\ Mapping(q, segs, u)
  <2>1. s + 1 \in 1 .. Len(segs)
    <3>1. m[1] \in 0 .. Len(segs)
      BY <1>2, <1>3
    <3> QED
      BY <1>2, <1>4, <1>8, <3>1
  <2>2. segs[s + 1].size \in Nat /\ segs[s + 1].size > 0 /\ segs[s + 1] \in Segments
    BY <1>2, <2>1, SegmentType
  <2>3. h.arg \in Nat \ {0} /\ h.arg = segs[s + 1].size
    BY <1>4, <1>8, <2>2
  <2>4. nChunks(servers) = segs[s + 1].base
    <3>1. CASE s = 0
      <4>1. servers = <<>> /\ segs # <<>>
        BY <1>2, <2>1, <3>1, EmptySeq DEF s
      <4> QED
        BY <3>1, <4>1 DEF nChunks, Layout
    <3>2. CASE s # 0
      <4>1. servers # <<>> /\ s \in 1 .. s /\ s + 1 \in DOMAIN segs \ {1} /\ (s + 1) - 1 = s
        BY <1>2, <2>1, <3>2, EmptySeq DEF s
      <4>2. segs[s + 1].base = segs[(s + 1) - 1].base + segs[(s + 1) - 1].size
        BY <4>1, Zenon DEF Layout
      <4>3. nChunks(servers) = servers[s].base + servers[s].size
        BY <4>1 DEF nChunks, s
      <4> QED
        BY <1>4, <4>1, <4>2, <4>3
    <3> QED
      BY <3>1, <3>2
  <2>5. [base |-> nChunks(servers), size |-> h.arg] = segs[s + 1]
    BY <2>2, <2>3, <2>4 DEF Segments
  <2>6. /\ Len(u) = s + 1 /\ DOMAIN u = 1 .. s + 1 /\ u[s + 1] = segs[s + 1]
        /\ \A i \in 1 .. s : u[i] = servers[i]
    <3>1. [base |-> nChunks(servers), size |-> h.arg] \in Segments
      BY <2>2, <2>5
    <3> QED
      BY <1>2, <2>5, <3>1, AppendProperties DEF u, AddSegment, s
  <2>7. \A i \in DOMAIN u : i \in DOMAIN segs /\ u[i] = segs[i]
    <3> SUFFICES ASSUME NEW i \in 1 .. s + 1 PROVE i \in DOMAIN segs /\ u[i] = segs[i]
      BY <2>6
    <3>1. i = s + 1 \/ i \in 1 .. s
      BY <1>2
    <3> QED
      BY <1>2, <1>4, <2>1, <2>6, <3>1
  <2>8. Mapped(m, q, segs, u)
    BY <1>4, <1>5, <1>6, <1>8, <2>6, <2>7 DEF Mapped
  <2> QED
    BY <1>3, <1>6, <2>3, <2>8 DEF Mapping
<1>9. ASSUME h.op = "Alloc" PROVE h.chunk < nChunks(servers)
  <2>1. servers # <<>> /\ s \in 1 .. s
    BY <1>2, <1>4, <1>9, EmptySeq DEF s
  <2>2. nChunks(servers) = segs[s].base + segs[s].size
    BY <1>4, <2>1 DEF nChunks, s
  <2> QED
    BY <1>4, <1>9, <2>2
<1> QED
  BY <1>7, <1>8, <1>9 DEF h, q, u

-----------------------------------------------------------------------------
(* What most steps leave alone *)

LEMMA Basics ==
  ASSUME IInv
  PROVE  /\ segments \in Seq(Segments) /\ Layout(segments) /\ segments # <<>>
         /\ nChunks(segments) \in Nat /\ nChunks(segments) <= HeapSize
         /\ ring \in Seq(Commands) /\ serverSegments \in Seq(Segments)
         /\ lockInfos \in [Buffers -> Seq(Locks)]
         /\ DOMAIN cache \subseteq Ids /\ DOMAIN allocations \subseteq Chunks
         /\ \A id \in DOMAIN cache : cache[id] \in DOMAIN allocations /\ cache[id] \in Chunks
         /\ \A id, jd \in DOMAIN cache : cache[id] = cache[jd] => id = jd
         /\ Invalid \notin Ids /\ Ids \subseteq Nat /\ HeapSize \in Nat
<1>1. segments \in Seq(Segments)
  BY DEF IInv, TypeOK, Segments
<1>2. nChunks(segments) \in Nat
  BY <1>1, SegmentNext, 1 \in Nat \ {0}
<1>3. \A id \in DOMAIN cache : cache[id] \in DOMAIN allocations /\ cache[id] \in Chunks
  BY DEF IInv, TypeOK, Placed, Named
<1>4. Invalid \notin Ids /\ Ids \subseteq Nat /\ HeapSize \in Nat
  BY HeapAssumption DEF Invalid, Ids
<1> QED
  BY <1>1, <1>2, <1>3, <1>4 DEF IInv, TypeOK, Shapes, Placed, Named

\* Two allocations have no chunk in common
LEMMA ChunksApart ==
  ASSUME IInv, NEW id \in DOMAIN cache
  PROVE  /\ ChunksOf(id) \subseteq Chunks
         /\ \A jd \in DOMAIN cache : id # jd => ChunksOf(id) \cap ChunksOf(jd) = {}
<1>1. \A f \in DOMAIN allocations :
        /\ f \in Nat /\ allocations[f] \in Nat /\ f <= allocations[f]
        /\ allocations[f] < nChunks(segments)
  BY Basics, ApartType DEF IInv, Placed
<1>2. \A f, g \in DOMAIN allocations : f < g => allocations[f] < g
  BY DEF IInv, Placed, Apart
<1>3. cache[id] \in DOMAIN allocations
  BY Basics
<1>4. ChunksOf(id) \subseteq Chunks
  BY <1>1, <1>3, Basics DEF ChunksOf, Chunks
<1>5. ASSUME NEW jd \in DOMAIN cache, id # jd
      PROVE  ChunksOf(id) \cap ChunksOf(jd) = {}
  <2> DEFINE f == cache[id]
             g == cache[jd]
  <2>1. f \in DOMAIN allocations /\ g \in DOMAIN allocations /\ f # g
    BY <1>5, Basics
  <2>2. f < g \/ g < f
    BY <1>1, <2>1
  <2> QED
    BY <1>1, <1>2, <2>1, <2>2 DEF ChunksOf
<1> QED
  BY <1>4, <1>5

LEMMA PrecedesIn ==
  ASSUME NEW q, NEW x, NEW y, Precedes(q, x, y)
  PROVE  x \in Range(q) /\ y \in Range(q)
  BY DEF Precedes, Range

LEMMA UsedStays ==
  ASSUME Used, UNCHANGED <<bufferId, lockInfos>>, Busy' => Busy /\ request' = request,
         \A b \in Buffers, id \in Ids : Uses(b, id) => Live(id)',
         \A x \in Range(ring') : x.op = "Dealloc" => x \in Range(ring)
  PROVE  Used'
<1>1. \A b \in Buffers, id \in Ids : Uses(b, id)' => Uses(b, id)
  BY DEF Uses
<1>2. ASSUME NEW b \in Buffers, NEW id \in Ids, Uses(b, id)'
      PROVE  Live(id)' /\ \A x \in Range(ring') : x.op = "Dealloc" => x.arg # id
  BY <1>1, <1>2 DEF Used
<1>3. \A b1, b2 \in Buffers, id \in Ids : Uses(b1, id)' /\ Uses(b2, id)' => b1 = b2
  BY <1>1 DEF Used
<1>4. \A b \in Buffers : Replaced(b)'
  BY DEF Used, Replaced
<1> QED
  BY <1>2, <1>3, <1>4 DEF Used

LEMMA SentStays ==
  ASSUME Sent,
         \A x \in Range(ring') : x \in Range(ring) \/ x.op = "AddSeg",
         \A x, y : Precedes(ring', x, y) => Precedes(ring, x, y) \/ Ordered(x, y),
         \A x \in Range(ring') : x \in Range(ring) /\ x.op \in {"Unlock", "Dealloc"} =>
           Live(x.arg)',
         \A x \in Range(ring') : x \in Range(ring) /\ x.op = "Alloc" =>
           /\ x.arg \in DOMAIN cache' /\ cache'[x.arg] = cache[x.arg]
           /\ chunkState'[x.chunk] # "Deallocated"
  PROVE  Sent'
<1>1. ASSUME NEW x \in Range(ring')
      PROVE  /\ x.op \in {"Unlock", "Dealloc"} => Live(x.arg)'
             /\ x.op = "Alloc" => /\ x.arg \in DOMAIN cache' /\ x.chunk = cache'[x.arg]
                                  /\ chunkState'[x.chunk] # "Deallocated"
  <2>1. CASE x \in Range(ring)
    BY <2>1 DEF Sent
  <2>2. CASE x.op = "AddSeg"
    BY <2>2
  <2> QED
    BY <2>1, <2>2
<1>2. ASSUME NEW x, NEW y, Precedes(ring', x, y)
      PROVE  Ordered(x, y)
  BY <1>2, PrecedesIn DEF Sent
<1> QED
  BY <1>1, <1>2 DEF Sent

\* The client's steps that leave its heap and the server alone, and the reverse
LEMMA HeapStays ==
  ASSUME IInv, UNCHANGED <<segments, cache, allocations, nextUid, chunkState, pc, alloc>>
  PROVE  /\ Layout(segments)' /\ Placed' /\ \A id : Settled(id)' = Settled(id) /\ Live(id)' = Live(id)
  BY DEF IInv, Placed, Promised, Settled, Live

-----------------------------------------------------------------------------
(* The server *)

LEMMA TakeBasics ==
  ASSUME IInv, NEW op, Take(op)
  PROVE  /\ Head(ring) \in Commands /\ Head(ring).op = op /\ ring' \in Seq(Commands)
         /\ ring # <<>> /\ ring' = Tail(ring) /\ Len(ring') <= K
         /\ Head(ring) \in Range(ring) /\ Range(ring') \subseteq Range(ring)
         /\ \A x \in Range(ring) : x = Head(ring) \/ x \in Range(ring')
         /\ \A y \in Range(ring') : Ordered(Head(ring), y)
         /\ \A x, y : Precedes(ring', x, y) => Precedes(ring, x, y)
         /\ UNCHANGED <<segments, defaultSegmentSize, cache, allocations, nextUid, bufferId,
                        lockInfos, pc, request, alloc, nFailedIterations, terminated, contents>>
<1>1. ring \in Seq(Commands) /\ ring # <<>> /\ ring' = Tail(ring) /\ Len(ring) <= K
  BY DEF Take, IInv, TypeOK
<1>2. /\ Head(ring) \in Commands /\ Tail(ring) \in Seq(Commands) /\ Head(ring) \in Range(ring)
      /\ Len(Tail(ring)) <= Len(ring) /\ Range(Tail(ring)) \subseteq Range(ring)
      /\ \A x \in Range(ring) : x = Head(ring) \/ x \in Range(Tail(ring))
      /\ \A y \in Range(Tail(ring)) : Precedes(ring, Head(ring), y)
      /\ \A x, y : Precedes(Tail(ring), x, y) => Precedes(ring, x, y)
  BY <1>1, AfterTail
<1>3. \A y \in Range(Tail(ring)) : Ordered(Head(ring), y)
  BY <1>2, PrecedesIn DEF IInv, Sent
<1>4. Len(Tail(ring)) <= K
  <2>1. Len(ring) \in Nat /\ Len(Tail(ring)) \in Nat /\ K \in Nat
    BY <1>1, <1>2, HeapAssumption
  <2> QED
    BY <1>1, <1>2, <2>1
<1> QED
  BY <1>1, <1>2, <1>3, <1>4 DEF Take, instance, resources, call

\* What a server step leaves alone, unless it gives memory back
LEMMA ServerKeeps ==
  ASSUME IInv, NEW op, Take(op), chunkState' = chunkState, IsMap(serverCache'),
         serverSegments' \in Seq(Segments)
  PROVE  TypeOK' /\ Shapes' /\ Layout(segments)' /\ Placed' /\ Kept' /\ Used' /\ Sent'
<1>1. TypeOK'
  BY TakeBasics DEF IInv, TypeOK
<1>2. Shapes'
  BY TakeBasics DEF IInv, Shapes, Busy
<1>3. /\ Layout(segments)' /\ Placed'
      /\ \A id : Settled(id)' = Settled(id) /\ Live(id)' = Live(id)
  BY TakeBasics, HeapStays
<1>4. Kept'
  <2>1. \A id : ChunksOf(id)' = ChunksOf(id)
    BY TakeBasics DEF ChunksOf
  <2> QED
    BY <1>3, <2>1, TakeBasics DEF IInv, Kept
<1>5. Used'
  BY <1>3, TakeBasics, UsedStays DEF IInv, Used, Busy
<1>6. Sent'
  BY <1>3, TakeBasics, SentStays DEF IInv, Sent
<1> QED
  BY <1>1, <1>2, <1>3, <1>4, <1>5, <1>6

LEMMA ServerAddSegKeeps ==
  ASSUME IInv, ServerAddSeg
  PROVE  IInv'
<1> DEFINE h == Head(ring)
<1>1. Take("AddSeg") /\ serverSegments' = AddSegment(serverSegments, h.arg)
      /\ chunkState' = chunkState /\ serverCache' = serverCache
  BY DEF ServerAddSeg
<1>2. h.op = "AddSeg" /\ ring # <<>> /\ ring' = Tail(ring)
      /\ UNCHANGED <<segments, cache>>
      /\ \A x \in Range(ring) : x = h \/ x \in Range(ring')
  BY <1>1, TakeBasics
<1>3. h.arg \in Nat \ {0}
      /\ Mapping(Tail(ring), segments, AddSegment(serverSegments, h.arg))
  BY <1>2, Basics, MappingTail DEF IInv, Known
<1> HIDE DEF h
<1>4. /\ serverSegments' \in Seq(Segments) /\ nChunks(serverSegments) \in Nat
      /\ nChunks(AddSegment(serverSegments, h.arg)) = nChunks(serverSegments) + h.arg
  BY <1>1, <1>3, Basics, SegmentNext
<1>5. Reached(serverCache, AddSegment(serverSegments, h.arg))
  <2> SUFFICES ASSUME NEW id \in DOMAIN serverCache
               PROVE  /\ serverCache[id] \in Chunks
                      /\ serverCache[id] < nChunks(AddSegment(serverSegments, h.arg))
    BY DEF Reached
  <2>1. serverCache[id] \in Chunks /\ serverCache[id] < nChunks(serverSegments)
    BY DEF IInv, Known, Reached
  <2>2. serverCache[id] \in Int
    BY <2>1, Basics DEF Chunks
  <2> QED
    BY <1>3, <1>4, <2>1, <2>2
<1>6. Known'
  <2>1. \A id \in DOMAIN cache :
          \/ chunkState[cache[id]] = "Deallocated"
          \/ id \in DOMAIN serverCache /\ serverCache[id] = cache[id]
          \/ \E x \in Range(ring') : x.op = "Alloc" /\ x.arg = id
    BY <1>2 DEF IInv, Known
  <2> QED
    BY <1>1, <1>2, <1>3, <1>5, <2>1 DEF Known
<1> QED
  BY <1>1, <1>4, <1>6, ServerKeeps DEF IInv, Shapes

LEMMA ServerAllocKeeps ==
  ASSUME IInv, ServerAlloc
  PROVE  IInv'
<1> DEFINE h == Head(ring)
<1>1. Take("Alloc") /\ serverCache' = With(serverCache, h.arg, h.chunk)
      /\ chunkState' = chunkState /\ serverSegments' = serverSegments
  BY DEF ServerAlloc
<1>2. /\ h.op = "Alloc" /\ ring # <<>> /\ ring' = Tail(ring) /\ h \in Commands /\ h \in Range(ring)
      /\ UNCHANGED <<segments, cache>>
      /\ \A x \in Range(ring) : x = h \/ x \in Range(ring')
  BY <1>1, TakeBasics
<1>3. /\ h.chunk < nChunks(serverSegments) /\ Mapping(Tail(ring), segments, serverSegments)
      /\ h.chunk \in Chunks /\ h.arg \in DOMAIN cache /\ h.chunk = cache[h.arg]
  <2>1. h.chunk \in Chunks
    BY <1>2 DEF Commands
  <2> QED
    BY <1>2, <2>1, Basics, MappingTail DEF IInv, Known, Sent
<1> HIDE DEF h
<1>4. /\ DOMAIN serverCache' = DOMAIN serverCache \cup {h.arg} /\ serverCache'[h.arg] = h.chunk
      /\ \A id \in DOMAIN serverCache \ {h.arg} : serverCache'[id] = serverCache[id]
      /\ IsMap(serverCache')
  BY <1>1 DEF With, IsMap
<1>5. Reached(serverCache', serverSegments')
  BY <1>1, <1>3, <1>4 DEF IInv, Known, Reached
<1>6. Known'
  <2>1. \A id \in DOMAIN cache :
          \/ chunkState[cache[id]] = "Deallocated"
          \/ id \in DOMAIN serverCache' /\ serverCache'[id] = cache[id]
          \/ \E x \in Range(ring') : x.op = "Alloc" /\ x.arg = id
    <3> SUFFICES ASSUME NEW id \in DOMAIN cache, id # h.arg
                 PROVE  \/ chunkState[cache[id]] = "Deallocated"
                        \/ id \in DOMAIN serverCache' /\ serverCache'[id] = cache[id]
                        \/ \E x \in Range(ring') : x.op = "Alloc" /\ x.arg = id
      BY <1>3, <1>4
    <3> QED
      BY <1>2, <1>4 DEF IInv, Known
  <2> QED
    BY <1>1, <1>2, <1>3, <1>5, <2>1 DEF Known
<1> QED
  BY <1>1, <1>4, <1>6, ServerKeeps DEF IInv, Shapes

LEMMA ServerUnlockKeeps ==
  ASSUME IInv, ServerUnlock
  PROVE  IInv'
<1>1. Take("Unlock") /\ UNCHANGED <<chunkState, serverSegments, serverCache>>
  BY DEF ServerUnlock, server
<1>2. /\ Head(ring).op = "Unlock" /\ ring # <<>> /\ ring' = Tail(ring)
      /\ UNCHANGED <<segments, cache>>
      /\ \A x \in Range(ring) : x = Head(ring) \/ x \in Range(ring')
  BY <1>1, TakeBasics
<1>3. Mapping(Tail(ring), segments, serverSegments)
  BY <1>2, Basics, MappingTail DEF IInv, Known
<1>4. Known'
  BY <1>1, <1>2, <1>3 DEF IInv, Known
<1> QED
  BY <1>1, <1>4, ServerKeeps DEF IInv, Shapes

LEMMA ServerDeallocKeeps ==
  ASSUME IInv, ServerDealloc
  PROVE  IInv'
<1> DEFINE h == Head(ring)
           id == h.arg
           c == cache[id]
<1>1. Take("Dealloc") /\ chunkState' = [chunkState EXCEPT ![serverCache[id]] = "Deallocated"]
      /\ serverSegments' = serverSegments
      /\ serverCache' = Restrict(serverCache, DOMAIN serverCache \ {id})
  BY DEF ServerDealloc
<1>2. /\ h.op = "Dealloc" /\ h \in Range(ring) /\ ring' = Tail(ring) /\ ring # <<>>
      /\ ring' \in Seq(Commands) /\ Len(ring') <= K /\ Range(ring') \subseteq Range(ring)
      /\ \A x \in Range(ring) : x = h \/ x \in Range(ring')
      /\ \A y \in Range(ring') : Ordered(h, y)
      /\ \A x, y : Precedes(ring', x, y) => Precedes(ring, x, y)
      /\ UNCHANGED <<segments, defaultSegmentSize, cache, allocations, nextUid, bufferId,
                     lockInfos, pc, request, alloc, nFailedIterations, terminated, contents>>
  BY <1>1, TakeBasics
<1>3. Mapping(Tail(ring), segments, serverSegments)
  BY <1>2, Basics, MappingTail DEF IInv, Known
<1> HIDE DEF h
<1>4. Live(id) /\ id \in DOMAIN cache /\ c \in Chunks /\ c \in DOMAIN allocations
      /\ chunkState[c] # "Deallocated"
  <2>1. Live(id)
    BY <1>2 DEF IInv, Sent
  <2> QED
    BY <2>1, Basics DEF Live, Settled
<1>5. \A y \in Range(ring') : y.op # "AddSeg" => y.arg # id
  BY <1>2 DEF Ordered
<1>6. id \in DOMAIN serverCache /\ serverCache[id] = c
  <2>1. \A x \in Range(ring) : x.op = "Alloc" => x.arg # id
    BY <1>2, <1>5
  <2> QED
    BY <1>4, <2>1 DEF IInv, Known
<1>7. /\ chunkState \in [Chunks -> {"Unallocated", "Allocated", "Deallocated"}]
      /\ chunkState' = [chunkState EXCEPT ![c] = "Deallocated"]
      /\ chunkState'[c] = "Deallocated" /\ \A x \in Chunks \ {c} : chunkState'[x] = chunkState[x]
  BY <1>1, <1>4, <1>6 DEF IInv, TypeOK
<1>8. \A jd \in DOMAIN cache \ {id} : cache[jd] \in Chunks \ {c}
  BY <1>4, Basics
<1>9. \A jd : /\ Settled(jd)' = Settled(jd)
              /\ jd # id /\ Live(jd) => Live(jd)'
  BY <1>2, <1>7, <1>8 DEF Settled, Live
<1> HIDE DEF id, c
<1>10. /\ DOMAIN serverCache' = DOMAIN serverCache \ {id} /\ IsMap(serverCache')
       /\ \A jd \in DOMAIN serverCache' : serverCache'[jd] = serverCache[jd]
  BY <1>1 DEF Restrict, IsMap
<1>11. TypeOK'
  <2>1. chunkState' \in [Chunks -> {"Unallocated", "Allocated", "Deallocated"}]
    BY <1>7
  <2> QED
    BY <1>2, <2>1 DEF IInv, TypeOK
<1>12. Shapes' /\ Layout(segments)'
  BY <1>1, <1>2, <1>10, Basics DEF IInv, Shapes, Busy
<1>13. Placed'
  <2>1. \A x \in Chunks : chunkState'[x] = "Deallocated" => x \in DOMAIN allocations
    BY <1>4, <1>7 DEF IInv, Placed
  <2>2. ASSUME pc = "sent"
        PROVE  chunkState'[alloc.first] # "Deallocated"
    <3>1. /\ Last(nextUid) \in DOMAIN cache \ {id} /\ alloc.first = cache[Last(nextUid)]
          /\ chunkState[alloc.first] # "Deallocated"
      BY <1>4, <2>2 DEF IInv, Placed, Promised, Live, Settled
    <3> QED
      BY <1>7, <1>8, <3>1
  <2>3. Promised'
    BY <1>2, <2>2 DEF IInv, Placed, Promised
  <2> QED
    BY <1>2, <2>1, <2>3 DEF IInv, Placed
<1>14. Kept'
  <2>1. \A jd : ChunksOf(jd)' = ChunksOf(jd)
    BY <1>2 DEF ChunksOf
  <2> QED
    BY <1>2, <1>9, <2>1 DEF IInv, Kept
<1>15. Used'
  <2>1. \A b \in Buffers, jd \in Ids : Uses(b, jd) => Live(jd)'
    <3> SUFFICES ASSUME NEW b \in Buffers, NEW jd \in Ids, Uses(b, jd)
                 PROVE  Live(jd)'
      OBVIOUS
    <3>1. Live(jd) /\ jd # id
      BY <1>2 DEF IInv, Used, id
    <3> QED
      BY <1>9, <3>1
  <2> QED
    BY <1>2, <2>1, UsedStays DEF IInv, Busy
<1>16. Sent'
  <2>1. \A x \in Range(ring') : x \in Range(ring) /\ x.op \in {"Unlock", "Dealloc"} =>
           Live(x.arg)'
    BY <1>5, <1>9 DEF IInv, Sent
  <2>2. \A x \in Range(ring') : x \in Range(ring) /\ x.op = "Alloc" =>
           /\ x.arg \in DOMAIN cache' /\ cache'[x.arg] = cache[x.arg]
           /\ chunkState'[x.chunk] # "Deallocated"
    <3> SUFFICES ASSUME NEW x \in Range(ring'), x \in Range(ring), x.op = "Alloc"
                 PROVE  /\ x.arg \in DOMAIN cache' /\ cache'[x.arg] = cache[x.arg]
                        /\ chunkState'[x.chunk] # "Deallocated"
      OBVIOUS
    <3>1. /\ x.arg \in DOMAIN cache /\ x.chunk = cache[x.arg] /\ x.arg # id
          /\ chunkState[x.chunk] # "Deallocated"
      BY <1>5 DEF IInv, Sent
    <3>2. chunkState'[x.chunk] = chunkState[x.chunk]
      BY <1>7, <1>8, <3>1
    <3> QED
      BY <1>2, <3>1, <3>2
  <2> QED
    BY <1>2, <2>1, <2>2, SentStays DEF IInv, Sent
<1>17. Known'
  <2>1. \A jd \in DOMAIN cache :
          \/ chunkState'[cache[jd]] = "Deallocated"
          \/ jd \in DOMAIN serverCache' /\ serverCache'[jd] = cache[jd]
          \/ \E x \in Range(ring') : x.op = "Alloc" /\ x.arg = jd
    <3> SUFFICES ASSUME NEW jd \in DOMAIN cache, jd # id
                 PROVE  \/ chunkState'[cache[jd]] = "Deallocated"
                        \/ jd \in DOMAIN serverCache' /\ serverCache'[jd] = cache[jd]
                        \/ \E x \in Range(ring') : x.op = "Alloc" /\ x.arg = jd
      BY <1>7 DEF c
    <3>1. chunkState'[cache[jd]] = chunkState[cache[jd]]
      BY <1>7, <1>8
    <3>2. \/ chunkState[cache[jd]] = "Deallocated"
          \/ jd \in DOMAIN serverCache /\ serverCache[jd] = cache[jd]
          \/ \E x \in Range(ring) : x.op = "Alloc" /\ x.arg = jd
      BY DEF IInv, Known
    <3> QED
      BY <1>2, <1>10, <3>1, <3>2
  <2>2. Reached(serverCache', serverSegments')
    BY <1>1, <1>10 DEF IInv, Known, Reached
  <2> QED
    BY <1>1, <1>2, <1>3, <2>1, <2>2 DEF Known
<1> QED
  BY <1>11, <1>12, <1>13, <1>14, <1>15, <1>16, <1>17 DEF IInv

-----------------------------------------------------------------------------
(* The client's resources *)

\* What a step that neither places nor frees leaves alone
LEMMA ClientKeeps ==
  ASSUME IInv, UNCHANGED <<segments, cache, allocations, nextUid, chunkState, pc, alloc>>,
         UNCHANGED <<serverSegments, serverCache, request>>, pc = "idle",
         \A x \in Range(ring) : x \in Range(ring')
  PROVE  /\ Layout(segments)' /\ Placed'
         /\ \A id : ChunksOf(id)' = ChunksOf(id)
         /\ \A id : Settled(id)' = Settled(id) /\ Live(id)' = Live(id)
         /\ lockInfos' \in [Buffers -> Seq(Locks)] => Shapes'
         /\ Mapping(ring', segments, serverSegments) => Known'
<1>1. /\ Layout(segments)' /\ Placed'
      /\ \A id : Settled(id)' = Settled(id) /\ Live(id)' = Live(id)
  BY HeapStays
<1>2. \A id : ChunksOf(id)' = ChunksOf(id)
  BY DEF ChunksOf
<1>3. lockInfos' \in [Buffers -> Seq(Locks)] => Shapes'
  BY DEF IInv, Shapes, Busy
<1>4. Mapping(ring', segments, serverSegments) => Known'
  BY DEF IInv, Known
<1> QED
  BY <1>1, <1>2, <1>3, <1>4

LEMMA LockKeeps ==
  ASSUME IInv, NEW b \in Buffers, Lock(b)
  PROVE  IInv'
<1> DEFINE id == bufferId[b]
<1>1. PICK kind \in LockKinds \ {"discard"} :
        /\ lockInfos' = [lockInfos EXCEPT ![b] =
             Append(@, [id |-> id, discarded |-> Invalid, readonly |-> kind = "readonly"])]
        /\ contents' = IF kind = "readonly" THEN contents ELSE Written(id, ChunksOf(id))
  BY DEF Lock
<1> DEFINE e == [id |-> id, discarded |-> Invalid, readonly |-> kind = "readonly"]
<1>2. /\ pc = "idle" /\ Len(lockInfos[b]) < MaxLocks /\ id # Invalid
      /\ UNCHANGED <<segments, defaultSegmentSize, cache, allocations, nextUid, bufferId,
                     pc, request, alloc, nFailedIterations, terminated, chunkState, ring,
                     serverSegments, serverCache>>
  BY DEF Lock, instance, call, server
<1>3. id \in Ids /\ Live(id) /\ id \in DOMAIN cache /\ e \in Locks
  <2>1. id \in Ids
    BY <1>2 DEF IInv, TypeOK
  <2>2. Live(id)
    BY <2>1 DEF IInv, Used, Uses
  <2> QED
    BY <2>1, <2>2 DEF Live, Settled, Locks
<1>4. e.id = id /\ e.discarded = Invalid
  OBVIOUS
<1> HIDE DEF e, id
<1>5. /\ lockInfos' \in [Buffers -> Seq(Locks)] /\ lockInfos \in [Buffers -> Seq(Locks)]
      /\ \A d \in Buffers : d # b => lockInfos'[d] = lockInfos[d]
      /\ Len(lockInfos'[b]) = Len(lockInfos[b]) + 1 /\ lockInfos'[b] = Append(lockInfos[b], e)
  <2>1. lockInfos \in [Buffers -> Seq(Locks)] /\ lockInfos[b] \in Seq(Locks)
    BY Basics
  <2>2. lockInfos' = [lockInfos EXCEPT ![b] = Append(@, e)]
    BY <1>1 DEF e
  <2>3. Append(lockInfos[b], e) \in Seq(Locks) /\ Len(Append(lockInfos[b], e)) = Len(lockInfos[b]) + 1
    BY <1>3, <2>1, AppendProperties
  <2> QED
    BY <2>1, <2>2, <2>3
<1>6. /\ Range(lockInfos'[b]) = Range(lockInfos[b]) \cup {e}
      /\ \A x, y : Precedes(lockInfos'[b], x, y) =>
           Precedes(lockInfos[b], x, y) \/ (x \in Range(lockInfos[b]) /\ y = e)
  BY <1>3, <1>5, AfterAppend
<1>7. /\ Layout(segments)' /\ Placed' /\ Shapes' /\ Known'
      /\ \A jd : ChunksOf(jd)' = ChunksOf(jd)
      /\ \A jd : Settled(jd)' = Settled(jd) /\ Live(jd)' = Live(jd)
  BY <1>2, <1>5, ClientKeeps DEF IInv, Known
<1>8. contents \in [Chunks -> Ids \cup {Invalid}] /\ contents' \in [Chunks -> Ids \cup {Invalid}]
      /\ \A c \in Chunks : contents'[c] = contents[c] \/ (c \in ChunksOf(id) /\ contents'[c] = id)
  <2>1. contents \in [Chunks -> Ids \cup {Invalid}]
    BY DEF IInv, TypeOK
  <2>2. CASE kind = "readonly"
    BY <1>1, <2>1, <2>2
  <2>3. CASE kind # "readonly"
    <3>1. contents' = [c \in Chunks |-> IF c \in ChunksOf(id) THEN id ELSE contents[c]]
      BY <1>1, <2>3 DEF Written, id
    <3> QED
      BY <1>3, <2>1, <3>1
  <2> QED
    BY <2>2, <2>3, <2>1
<1>9. TypeOK'
  <2>1. \A d \in Buffers : Len(lockInfos'[d]) <= MaxLocks
    <3>1. Len(lockInfos'[b]) <= MaxLocks
      <4>1. Len(lockInfos[b]) \in Nat /\ MaxLocks \in Nat
        BY <1>5, HeapAssumption
      <4> QED
        BY <1>2, <1>5, <4>1
    <3> QED
      BY <1>5, <3>1 DEF IInv, TypeOK
  <2> QED
    BY <1>2, <1>8, <2>1 DEF IInv, TypeOK
<1>10. Kept'
  <2> SUFFICES ASSUME NEW jd \in DOMAIN cache, Settled(jd), NEW c \in ChunksOf(jd)
               PROVE  contents'[c] = jd
    BY <1>2, <1>7 DEF Kept
  <2>1. contents[c] = jd /\ c \in Chunks
    BY ChunksApart DEF IInv, Kept
  <2>2. c \in ChunksOf(id) => jd = id
    BY <1>3, ChunksApart
  <2> QED
    BY <1>8, <2>1, <2>2
<1>11. Used'
  <2>1. \A d \in Buffers, jd \in Ids : Uses(d, jd)' => Uses(d, jd)
    <3> SUFFICES ASSUME NEW d \in Buffers, NEW jd \in Ids, Uses(d, jd)'
                 PROVE  Uses(d, jd)
      OBVIOUS
    <3>1. CASE d = b
      <4>1. jd # Invalid
        BY Basics
      <4>2. jd \in {e.id, e.discarded} => jd = bufferId[b]
        BY <1>4, <4>1 DEF id
      <4> QED
        BY <1>2, <1>6, <3>1, <4>2 DEF Uses, Busy
    <3>2. CASE d # b
      BY <1>2, <1>5, <3>2 DEF Uses, Busy
    <3> QED
      BY <3>1, <3>2
  <2>2. \A d \in Buffers : Replaced(d)'
    <3> SUFFICES ASSUME NEW d \in Buffers
                 PROVE  Replaced(d)'
      OBVIOUS
    <3>0. Replaced(d)
      BY DEF IInv, Used
    <3>1. CASE d = b
      <4>1. \A x \in Range(lockInfos'[b]) : x.discarded # Invalid =>
              x.discarded # bufferId[b] /\ x.discarded # x.id
        BY <1>4, <1>6, <3>0, <3>1 DEF Replaced
      <4>2. \A x, y \in Range(lockInfos'[b]) :
              Precedes(lockInfos'[b], x, y) /\ x.discarded # Invalid =>
                x.discarded # y.id /\ x.discarded # y.discarded
        <5> SUFFICES ASSUME NEW x, NEW y, Precedes(lockInfos'[b], x, y), x.discarded # Invalid
                     PROVE  x.discarded # y.id /\ x.discarded # y.discarded
          OBVIOUS
        <5>1. CASE Precedes(lockInfos[b], x, y)
          BY <3>0, <3>1, <5>1, PrecedesIn DEF Replaced
        <5>2. CASE x \in Range(lockInfos[b]) /\ y = e
          BY <1>4, <3>0, <3>1, <5>2 DEF Replaced, id
        <5> QED
          BY <1>6, <5>1, <5>2
      <4> QED
        BY <1>2, <3>1, <4>1, <4>2 DEF Replaced, Busy
    <3>2. CASE d # b
      BY <1>2, <1>5, <3>0, <3>2 DEF Replaced, Busy
    <3> QED
      BY <3>1, <3>2
  <2>3. ASSUME NEW d \in Buffers, NEW jd \in Ids, Uses(d, jd)'
        PROVE  Live(jd)' /\ \A x \in Range(ring') : x.op = "Dealloc" => x.arg # jd
    <3>1. Uses(d, jd)
      BY <2>1, <2>3
    <3> QED
      BY <1>2, <1>7, <3>1 DEF IInv, Used
  <2>4. \A b1, b2 \in Buffers, jd \in Ids : Uses(b1, jd)' /\ Uses(b2, jd)' => b1 = b2
    BY <2>1 DEF IInv, Used
  <2> QED
    BY <2>2, <2>3, <2>4 DEF Used
<1>12. Sent'
  BY <1>2, <1>7 DEF IInv, Sent
<1> QED
  BY <1>7, <1>9, <1>10, <1>11, <1>12 DEF IInv

LEMMA LockAllocatesKeeps ==
  ASSUME IInv, NEW b \in Buffers, LockAllocates(b)
  PROVE  IInv'
<1>1. /\ pc = "idle" /\ pc' = "finding" /\ nextUid < MaxUid /\ nFailedIterations' = 0
      /\ Len(lockInfos[b]) < MaxLocks
      /\ UNCHANGED <<segments, cache, allocations, nextUid, bufferId, lockInfos, alloc,
                     terminated, chunkState, contents, ring, serverSegments, serverCache>>
  BY DEF LockAllocates, resources, server
<1>2. /\ request' \in Requests /\ request'.buffer = b /\ request'.discarded = bufferId[b]
  <2>1. PICK kind : request' = [buffer |-> b, discarded |-> bufferId[b],
                                readonly |-> kind = "readonly"]
    BY DEF LockAllocates
  <2>2. bufferId[b] \in Ids \cup {Invalid}
    BY DEF IInv, TypeOK
  <2> QED
    BY <2>1, <2>2 DEF Requests
<1>3. defaultSegmentSize' \in Nat
  <2>1. PICK n \in Doublings(Size[b]) : defaultSegmentSize' = n
    BY DEF LockAllocates
  <2>2. Size[b] \in Nat /\ defaultSegmentSize \in Nat
    BY HeapAssumption DEF IInv, TypeOK
  <2>3. n \in defaultSegmentSize .. defaultSegmentSize + 2 * Size[b]
    BY <2>1 DEF Doublings
  <2>4. n \in Nat
    BY <2>2, <2>3
  <2> QED
    BY <2>1, <2>4
<1>4. ~Busy /\ Busy' /\ \A id : Settled(id)' = Settled(id) /\ Live(id)' = Live(id)
  BY <1>1 DEF Busy, Settled, Live
<1>5. TypeOK' /\ Shapes' /\ Layout(segments)'
  <2>1. TypeOK'
    BY <1>1, <1>3 DEF IInv, TypeOK
  <2>2. Shapes' /\ Layout(segments)'
    BY <1>1, <1>2 DEF IInv, Shapes
  <2> QED
    BY <2>1, <2>2
<1>6. Placed' /\ Kept'
  <2>1. \A id : ChunksOf(id)' = ChunksOf(id)
    BY <1>1 DEF ChunksOf
  <2> QED
    BY <1>1, <1>4, <2>1 DEF IInv, Placed, Promised, Kept
<1>7. Used'
  <2>1. \A d \in Buffers, id \in Ids : Uses(d, id)' => Uses(d, id)
    BY <1>1, <1>2, <1>4 DEF Uses
  <2>2. ASSUME NEW d \in Buffers, NEW id \in Ids, Uses(d, id)'
        PROVE  Live(id)' /\ \A x \in Range(ring') : x.op = "Dealloc" => x.arg # id
    <3>1. Uses(d, id)
      BY <2>1, <2>2
    <3> QED
      BY <1>1, <1>4, <3>1 DEF IInv, Used
  <2>3. \A b1, b2 \in Buffers, id \in Ids : Uses(b1, id)' /\ Uses(b2, id)' => b1 = b2
    BY <2>1 DEF IInv, Used
  <2>4. \A d \in Buffers : Replaced(d)'
    BY <1>1, <1>2 DEF IInv, Used, Replaced
  <2> QED
    BY <2>2, <2>3, <2>4 DEF Used
<1>8. Sent' /\ Known'
  BY <1>1, <1>4 DEF IInv, Sent, Known
<1> QED
  BY <1>5, <1>6, <1>7, <1>8 DEF IInv

LEMMA DestroyKeeps ==
  ASSUME IInv, NEW b \in Buffers, Destroy(b)
  PROVE  IInv'
<1> DEFINE id == bufferId[b]
           e == [op |-> "Dealloc", arg |-> id]
<1>1. /\ pc = "idle" /\ lockInfos[b] = <<>> /\ id # Invalid /\ Len(ring) < K
      /\ ring' = Append(ring, e) /\ bufferId' = [bufferId EXCEPT ![b] = Invalid]
      /\ UNCHANGED <<segments, defaultSegmentSize, cache, allocations, nextUid, lockInfos,
                     pc, request, alloc, nFailedIterations, terminated, chunkState, contents,
                     serverSegments, serverCache>>
  BY DEF Destroy, instance, call, server
<1>2. id \in Ids /\ Uses(b, id) /\ Live(id) /\ bufferId \in [Buffers -> Ids \cup {Invalid}]
      /\ \A x \in Range(ring) : x.op = "Dealloc" => x.arg # id
  <2>1. id \in Ids /\ Uses(b, id) /\ bufferId \in [Buffers -> Ids \cup {Invalid}]
    BY <1>1 DEF IInv, TypeOK, Uses
  <2> QED
    BY <2>1 DEF IInv, Used
<1>3. e \in Commands /\ e.op = "Dealloc" /\ e.arg = id
  <2>1. id \in Nat
    BY <1>2, Basics
  <2> QED
    BY <2>1 DEF Commands
<1>4. /\ bufferId' \in [Buffers -> Ids \cup {Invalid}] /\ bufferId'[b] = Invalid
      /\ \A d \in Buffers : d # b => bufferId'[d] = bufferId[d]
  BY <1>1, <1>2
<1> HIDE DEF id, e
<1>5. /\ ring' \in Seq(Commands) /\ Range(ring') = Range(ring) \cup {e}
      /\ \A x, y : Precedes(ring', x, y) => Precedes(ring, x, y) \/ (x \in Range(ring) /\ y = e)
  BY <1>1, <1>3, Basics, AfterAppend
<1>6. Mapping(ring', segments, serverSegments)
  BY <1>1, <1>3, Basics, MappingAppend DEF IInv, Known
<1>7. /\ Layout(segments)' /\ Placed' /\ Shapes' /\ Known'
      /\ \A jd : ChunksOf(jd)' = ChunksOf(jd)
      /\ \A jd : Settled(jd)' = Settled(jd) /\ Live(jd)' = Live(jd)
  BY <1>1, <1>5, <1>6, Basics, ClientKeeps
<1>8. TypeOK'
  <2>1. Len(ring') <= K
    <3>1. Len(ring') = Len(ring) + 1 /\ Len(ring) \in Nat /\ K \in Nat
      BY <1>1, <1>3, Basics, AppendProperties, HeapAssumption
    <3> QED
      BY <1>1, <3>1
  <2> QED
    BY <1>1, <1>4, <1>5, <2>1 DEF IInv, TypeOK
<1>9. Kept'
  BY <1>1, <1>7 DEF IInv, Kept
<1>10. Used'
  <2>1. \A d \in Buffers, jd \in Ids : Uses(d, jd)' => Uses(d, jd) /\ jd # id
    <3> SUFFICES ASSUME NEW d \in Buffers, NEW jd \in Ids, Uses(d, jd)'
                 PROVE  Uses(d, jd) /\ jd # id
      OBVIOUS
    <3>1. CASE d = b
      <4>1. jd # Invalid /\ Range(lockInfos[b]) = {} /\ ~Busy /\ ~Busy'
        BY <1>1, Basics DEF Busy, Range
      <4> QED
        BY <1>1, <1>4, <3>1, <4>1 DEF Uses
    <3>2. CASE d # b
      <4>1. Uses(d, jd)
        BY <1>1, <1>4, <3>2 DEF Uses, Busy
      <4> QED
        BY <1>2, <3>2, <4>1 DEF IInv, Used
    <3> QED
      BY <3>1, <3>2
  <2>2. ASSUME NEW d \in Buffers, NEW jd \in Ids, Uses(d, jd)'
        PROVE  Live(jd)' /\ \A x \in Range(ring') : x.op = "Dealloc" => x.arg # jd
    <3>1. Uses(d, jd) /\ jd # id
      BY <2>1, <2>2
    <3> QED
      BY <1>3, <1>5, <1>7, <3>1 DEF IInv, Used
  <2>3. \A b1, b2 \in Buffers, jd \in Ids : Uses(b1, jd)' /\ Uses(b2, jd)' => b1 = b2
    BY <2>1 DEF IInv, Used
  <2>4. ASSUME NEW d \in Buffers PROVE Replaced(d)'
    <3>1. Replaced(d)
      BY DEF IInv, Used
    <3>2. CASE d = b
      <4>1. Range(lockInfos[b]) = {} /\ Range(lockInfos'[b]) = {}
        BY <1>1 DEF Range
      <4> QED
        BY <3>2, <4>1 DEF Replaced
    <3>3. CASE d # b
      BY <1>1, <1>4, <3>1, <3>3 DEF Replaced, Busy
    <3> QED
      BY <3>2, <3>3
  <2> QED
    BY <2>2, <2>3, <2>4 DEF Used
<1>11. Sent'
  <2>1. ASSUME NEW x \in Range(ring)
        PROVE  Ordered(x, e)
    BY <1>2, <1>3, <2>1 DEF Ordered
  <2>2. \A x \in Range(ring') :
       /\ x.op \in {"Unlock", "Dealloc"} => Live(x.arg)'
       /\ x.op = "Alloc" => /\ x.arg \in DOMAIN cache' /\ x.chunk = cache'[x.arg]
                            /\ chunkState'[x.chunk] # "Deallocated"
    BY <1>1, <1>2, <1>3, <1>5, <1>7 DEF IInv, Sent
  <2>3. ASSUME NEW x, NEW y, Precedes(ring', x, y)
        PROVE  Ordered(x, y)
    <3>1. CASE Precedes(ring, x, y)
      BY <3>1, PrecedesIn DEF IInv, Sent
    <3>2. CASE x \in Range(ring) /\ y = e
      BY <2>1, <3>2
    <3> QED
      BY <1>5, <2>3, <3>1, <3>2
  <2> QED
    BY <2>2, <2>3 DEF Sent
<1> QED
  BY <1>7, <1>8, <1>9, <1>10, <1>11 DEF IInv

\* unlock() adds the Unlock, and after it the Dealloc, or neither
UnlockOf(id) == [op |-> "Unlock", arg |-> id]
DeallocOf(id) == [op |-> "Dealloc", arg |-> id]

LEMMA UnlockSends ==
  ASSUME IInv, NEW b \in Buffers, Unlock(b), Head(lockInfos[b]) \in Locks
  PROVE  LET lock == Head(lockInfos[b])
             u == UnlockOf(lock.id)
             d == DeallocOf(lock.discarded)
         IN  /\ ring' \in Seq(Commands) /\ Mapping(ring', segments, serverSegments)
             /\ \A x \in Range(ring) : x \in Range(ring')
             /\ \A x \in Range(ring') :
                  x \in Range(ring) \/ x = u \/ (x = d /\ lock.discarded # Invalid)
             /\ \A x, y : Precedes(ring', x, y) =>
                  Precedes(ring, x, y) \/ (x \in Range(ring) /\ y \in {u, d}) \/ (x = u /\ y = d)
<1> DEFINE lock == Head(lockInfos[b])
           u == UnlockOf(lock.id)
           d == DeallocOf(lock.discarded)
           Goal ==
             /\ ring' \in Seq(Commands) /\ Mapping(ring', segments, serverSegments)
             /\ \A x \in Range(ring) : x \in Range(ring')
             /\ \A x \in Range(ring') :
                  x \in Range(ring) \/ x = u \/ (x = d /\ lock.discarded # Invalid)
             /\ \A x, y : Precedes(ring', x, y) =>
                  Precedes(ring, x, y) \/ (x \in Range(ring) /\ y \in {u, d}) \/ (x = u /\ y = d)
           r1 == Append(ring, u)
           r2 == Append(r1, d)
<1>1. ring' = IF lock.readonly THEN ring ELSE IF lock.discarded = Invalid THEN r1
              ELSE ring \o <<u, d>>
  BY DEF Unlock, UnlockOf, DeallocOf
<1>2. lock.id \in Nat /\ (lock.discarded # Invalid => lock.discarded \in Nat)
  BY Basics DEF Locks
<1>3. u \in Commands /\ u.op = "Unlock" /\ (lock.discarded # Invalid => d \in Commands) /\ d.op = "Dealloc"
  BY <1>2 DEF Commands, UnlockOf, DeallocOf
<1> HIDE DEF lock, u, d
<1>4. ring \in Seq(Commands) /\ Mapping(ring, segments, serverSegments)
  BY Basics DEF IInv, Known
<1>5. /\ r1 \in Seq(Commands) /\ Mapping(r1, segments, serverSegments)
      /\ Range(r1) = Range(ring) \cup {u}
      /\ \A x, y : Precedes(r1, x, y) => Precedes(ring, x, y) \/ (x \in Range(ring) /\ y = u)
  <2>1. r1 \in Seq(Commands) /\ Range(r1) = Range(ring) \cup {u}
        /\ \A x, y : Precedes(r1, x, y) => Precedes(ring, x, y) \/ (x \in Range(ring) /\ y = u)
    BY <1>3, <1>4, AfterAppend
  <2>2. Mapping(r1, segments, serverSegments)
    BY <1>3, <1>4, Basics, MappingAppend
  <2> QED
    BY <2>1, <2>2
<1>6. ring \o <<u, d>> = r2 \/ lock.discarded = Invalid
  BY <1>3, <1>4
<1> HIDE DEF r1
<1>7. lock.discarded # Invalid =>
        /\ r2 \in Seq(Commands) /\ Mapping(r2, segments, serverSegments)
        /\ Range(r2) = Range(r1) \cup {d}
        /\ \A x, y : Precedes(r2, x, y) => Precedes(r1, x, y) \/ (x \in Range(r1) /\ y = d)
  <2> SUFFICES ASSUME lock.discarded # Invalid
               PROVE  /\ r2 \in Seq(Commands) /\ Mapping(r2, segments, serverSegments)
                      /\ Range(r2) = Range(r1) \cup {d}
                      /\ \A x, y : Precedes(r2, x, y) =>
                           Precedes(r1, x, y) \/ (x \in Range(r1) /\ y = d)
    OBVIOUS
  <2>1. d \in Commands /\ d.op # "AddSeg" /\ d.op # "Alloc" /\ r1 \in Seq(Commands)
    BY <1>3, <1>5
  <2>2. /\ r2 \in Seq(Commands) /\ Range(r2) = Range(r1) \cup {d}
        /\ \A x, y : Precedes(r2, x, y) => Precedes(r1, x, y) \/ (x \in Range(r1) /\ y = d)
    BY <2>1, AfterAppend
  <2>3. Mapping(r2, segments, serverSegments)
    BY <1>5, <2>1, Basics, MappingAppend
  <2> QED
    BY <2>2, <2>3
<1> HIDE DEF r2
<1>8. Goal
  <2>1. CASE lock.readonly
    <3>1. ring' = ring
      BY <1>1, <2>1
    <3> QED
      BY <1>4, <3>1
  <2>2. CASE ~lock.readonly /\ lock.discarded = Invalid
    <3>1. ring' = r1
      BY <1>1, <2>2
    <3> QED
      BY <1>5, <3>1
  <2>3. CASE ~lock.readonly /\ lock.discarded # Invalid
    <3>1. ring' = r2
      BY <1>1, <1>6, <2>3
    <3> QED
      BY <1>5, <1>7, <2>3, <3>1
  <2> QED
    BY <2>1, <2>2, <2>3
<1> QED
  BY <1>8 DEF lock, u, d

LEMMA UnlockKeeps ==
  ASSUME IInv, NEW b \in Buffers, Unlock(b)
  PROVE  IInv'
<1> DEFINE lock == Head(lockInfos[b])
           u == UnlockOf(lock.id)
           d == DeallocOf(lock.discarded)
<1>1. /\ pc = "idle" /\ lockInfos[b] # <<>> /\ Len(ring') <= K
      /\ lockInfos' = [lockInfos EXCEPT ![b] = Tail(@)]
      /\ UNCHANGED <<segments, defaultSegmentSize, cache, allocations, nextUid, bufferId,
                     pc, request, alloc, nFailedIterations, terminated, chunkState, contents,
                     serverSegments, serverCache>>
  BY DEF Unlock, instance, call, server
<1>2. /\ lockInfos \in [Buffers -> Seq(Locks)] /\ lockInfos[b] \in Seq(Locks)
      /\ lock \in Locks /\ lock \in Range(lockInfos[b])
      /\ Tail(lockInfos[b]) \in Seq(Locks) /\ Len(Tail(lockInfos[b])) <= Len(lockInfos[b])
      /\ Range(Tail(lockInfos[b])) \subseteq Range(lockInfos[b])
      /\ \A y \in Range(Tail(lockInfos[b])) : Precedes(lockInfos[b], lock, y)
      /\ \A x, y : Precedes(Tail(lockInfos[b]), x, y) => Precedes(lockInfos[b], x, y)
  <2>1. lockInfos \in [Buffers -> Seq(Locks)] /\ lockInfos[b] \in Seq(Locks)
    BY Basics
  <2> QED
    BY <1>1, <2>1, AfterTail
<1>3. /\ lockInfos' \in [Buffers -> Seq(Locks)] /\ lockInfos'[b] = Tail(lockInfos[b])
      /\ \A c \in Buffers : c # b => lockInfos'[c] = lockInfos[c]
  BY <1>1, <1>2
<1> HIDE DEF lock
<1>4. u.op = "Unlock" /\ d.op = "Dealloc" /\ u.arg = lock.id /\ d.arg = lock.discarded
  BY DEF UnlockOf, DeallocOf
<1> HIDE DEF u, d
<1>5. /\ ring' \in Seq(Commands) /\ Mapping(ring', segments, serverSegments)
      /\ \A x \in Range(ring) : x \in Range(ring')
      /\ \A x \in Range(ring') : x \in Range(ring) \/ x = u \/ (x = d /\ lock.discarded # Invalid)
      /\ \A x, y : Precedes(ring', x, y) =>
           Precedes(ring, x, y) \/ (x \in Range(ring) /\ y \in {u, d}) \/ (x = u /\ y = d)
  BY <1>2, UnlockSends DEF lock, u, d
<1>6. /\ lock.id \in Ids /\ Uses(b, lock.id) /\ lock.discarded \in Ids \cup {Invalid}
      /\ lock.discarded # Invalid => Uses(b, lock.discarded)
  BY <1>2 DEF Locks, Uses
<1>7. /\ Live(lock.id) /\ \A x \in Range(ring) : x.op = "Dealloc" => x.arg # lock.id
      /\ lock.discarded # Invalid =>
           Live(lock.discarded) /\ \A x \in Range(ring) : x.op = "Dealloc" => x.arg # lock.discarded
  BY <1>6 DEF IInv, Used
<1>8. /\ Layout(segments)' /\ Placed' /\ Shapes' /\ Known'
      /\ \A jd : ChunksOf(jd)' = ChunksOf(jd)
      /\ \A jd : Settled(jd)' = Settled(jd) /\ Live(jd)' = Live(jd)
  BY <1>1, <1>3, <1>5, ClientKeeps
<1>9. TypeOK'
  <2>1. \A c \in Buffers : Len(lockInfos'[c]) <= MaxLocks
    <3>1. Len(lockInfos'[b]) <= MaxLocks
      <4>1. Len(lockInfos[b]) <= MaxLocks
        BY DEF IInv, TypeOK
      <4>2. Len(lockInfos[b]) \in Nat /\ Len(Tail(lockInfos[b])) \in Nat /\ MaxLocks \in Nat
        BY <1>2, HeapAssumption
      <4> QED
        BY <1>2, <1>3, <4>1, <4>2
    <3> QED
      BY <1>3, <3>1 DEF IInv, TypeOK
  <2> QED
    BY <1>1, <1>5, <2>1 DEF IInv, TypeOK
<1>10. Kept'
  BY <1>1, <1>8 DEF IInv, Kept
<1>11. Used'
  <2>1. \A c \in Buffers, jd \in Ids : Uses(c, jd)' => Uses(c, jd)
    <3>1. \A c \in Buffers : Range(lockInfos'[c]) \subseteq Range(lockInfos[c])
      BY <1>2, <1>3
    <3> QED
      BY <1>1, <3>1 DEF Uses, Busy
  <2>2. ASSUME NEW c \in Buffers, NEW jd \in Ids, Uses(c, jd)'
        PROVE  jd # lock.discarded
    <3> SUFFICES ASSUME jd = lock.discarded PROVE FALSE
      OBVIOUS
    <3>1. Uses(c, jd) /\ jd # Invalid
      BY <2>1, <2>2, Basics
    <3>2. c = b
      BY <1>6, <3>1 DEF IInv, Used
    <3>3. Replaced(b)
      BY DEF IInv, Used
    <3>4. jd # bufferId'[b]
      BY <1>1, <1>2, <3>1, <3>3 DEF Replaced
    <3>5. \A x \in Range(lockInfos'[b]) : jd # x.id /\ jd # x.discarded
      BY <1>2, <1>3, <3>1, <3>3 DEF Replaced
    <3> QED
      BY <1>1, <2>2, <3>2, <3>4, <3>5 DEF Uses, Busy
  <2>3. ASSUME NEW c \in Buffers, NEW jd \in Ids, Uses(c, jd)'
        PROVE  Live(jd)' /\ \A x \in Range(ring') : x.op = "Dealloc" => x.arg # jd
    <3>1. Uses(c, jd) /\ jd # lock.discarded
      BY <2>1, <2>2, <2>3
    <3> QED
      BY <1>5, <1>4, <1>8, <3>1 DEF IInv, Used
  <2>4. \A b1, b2 \in Buffers, jd \in Ids : Uses(b1, jd)' /\ Uses(b2, jd)' => b1 = b2
    BY <2>1 DEF IInv, Used
  <2>5. ASSUME NEW c \in Buffers PROVE Replaced(c)'
    <3>1. Replaced(c)
      BY DEF IInv, Used
    <3>2. CASE c = b
      BY <1>1, <1>2, <1>3, <3>1, <3>2 DEF Replaced, Busy
    <3>3. CASE c # b
      BY <1>1, <1>3, <3>1, <3>3 DEF Replaced, Busy
    <3> QED
      BY <3>2, <3>3
  <2> QED
    BY <2>3, <2>4, <2>5 DEF Used
<1>12. Sent'
  <2>1. ASSUME NEW x \in Range(ring)
        PROVE  Ordered(x, u) /\ Ordered(x, d)
    <3>1. Ordered(x, u)
      BY <1>4, <1>7, <2>1 DEF Ordered
    <3>2. Ordered(x, d)
      <4>1. CASE lock.discarded # Invalid
        BY <1>4, <1>7, <2>1, <4>1 DEF Ordered
      <4>2. CASE lock.discarded = Invalid
        <5>1. x.op = "Dealloc" => x.arg # Invalid
          BY <2>1, Basics DEF IInv, Sent, Live, Settled
        <5> QED
          BY <1>4, <4>2, <5>1 DEF Ordered
      <4> QED
        BY <4>1, <4>2
    <3> QED
      BY <3>1, <3>2
  <2>2. \A x \in Range(ring') :
       /\ x.op \in {"Unlock", "Dealloc"} => Live(x.arg)'
       /\ x.op = "Alloc" => /\ x.arg \in DOMAIN cache' /\ x.chunk = cache'[x.arg]
                            /\ chunkState'[x.chunk] # "Deallocated"
    BY <1>1, <1>5, <1>4, <1>7, <1>8 DEF IInv, Sent
  <2>3. ASSUME NEW x, NEW y, Precedes(ring', x, y)
        PROVE  Ordered(x, y)
    <3>1. CASE Precedes(ring, x, y)
      BY <3>1, PrecedesIn DEF IInv, Sent
    <3>2. CASE x \in Range(ring) /\ y \in {u, d}
      BY <2>1, <3>2
    <3>3. CASE x = u /\ y = d
      BY <1>4, <3>3 DEF Ordered
    <3> QED
      BY <1>5, <2>3, <3>1, <3>2, <3>3
  <2> QED
    BY <2>2, <2>3 DEF Sent
<1> QED
  BY <1>8, <1>9, <1>10, <1>11, <1>12 DEF IInv
-----------------------------------------------------------------------------
(* findAllocation *)

LEMMA NeededType ==
  ASSUME IInv, Busy
  PROVE  Needed \in Nat \ {0}
  BY HeapAssumption DEF IInv, Shapes, Requests, Needed

LEMMA FoundKeeps ==
  ASSUME IInv, pc = "finding", pc' = "found", NEW a \in [first : Int, final : Int], alloc' = a,
         Valid(segments, a.first, a.final) => Free(allocations, a.first, a.final),
         UNCHANGED <<instance, resources, request, nFailedIterations, terminated, chunkState,
                     contents, ring, server>>
  PROVE  IInv'
<1>1. UNCHANGED <<segments, defaultSegmentSize, cache, allocations, nextUid, bufferId, lockInfos,
                  request, nFailedIterations, terminated, chunkState, contents, ring,
                  serverSegments, serverCache>>
  BY DEF instance, resources, server
<1>2. Busy /\ Busy' /\ \A id : Settled(id)' = Settled(id) /\ Live(id)' = Live(id)
  BY <1>1 DEF Busy, Settled, Live
<1>3. TypeOK' /\ Shapes' /\ Layout(segments)'
  <2>1. TypeOK'
    BY <1>1 DEF IInv, TypeOK
  <2>2. Shapes' /\ Layout(segments)'
    BY <1>1, <1>2 DEF IInv, Shapes
  <2> QED
    BY <2>1, <2>2
<1>4. Placed'
  BY <1>1 DEF IInv, Placed, Promised
<1>5. Kept'
  <2>1. \A id : ChunksOf(id)' = ChunksOf(id)
    BY <1>1 DEF ChunksOf
  <2> QED
    BY <1>1, <1>2, <2>1 DEF IInv, Kept
<1>6. Used'
  <2>1. \A b \in Buffers, id \in Ids : Uses(b, id) => Live(id)'
    BY <1>2 DEF IInv, Used
  <2> QED
    BY <1>1, <1>2, <2>1, UsedStays DEF IInv
<1>7. Sent' /\ Known'
  BY <1>1, <1>2 DEF IInv, Sent, Known
<1> QED
  BY <1>3, <1>4, <1>5, <1>6, <1>7 DEF IInv

LEMMA FindFirstKeeps ==
  ASSUME IInv, FindFirst
  PROVE  IInv'
<1> DEFINE a == createAllocation(0, Needed)
<1>1. Needed \in Nat \ {0}
  BY NeededType DEF FindFirst, Busy
<1>2. a \in [first : Int, final : Int]
  BY <1>1 DEF createAllocation
<1>3. alloc' = a /\ pc' = "found"
  BY DEF FindFirst, Found
<1> HIDE DEF a
<1>4. Free(allocations, a.first, a.final)
  BY DEF FindFirst, Free
<1>5. pc = "finding" /\ UNCHANGED <<instance, resources, request, nFailedIterations, terminated,
                                    chunkState, contents, ring, server>>
  BY DEF FindFirst
<1> QED
  BY <1>2, <1>3, <1>4, <1>5, FoundKeeps

LEMMA FindFreeKeeps ==
  ASSUME IInv, FindFree
  PROVE  IInv'
<1> DEFINE m == findFreeInMiddle(Needed)
           e == findFreeOnEnd(Needed)
           a == IF isValidAllocation(m) THEN m ELSE e
<1>1. Needed \in Nat \ {0}
  BY NeededType DEF FindFree, Busy
<1>2. /\ m \in [first : Int, final : Int]
      /\ Valid(segments, m.first, m.final) => Free(allocations, m.first, m.final)
  BY <1>1, Basics, MiddleIsFree DEF IInv, Placed
<1>3. e \in [first : Int, final : Int] /\ Free(allocations, e.first, e.final)
  BY <1>1, Basics, EndIsFree DEF IInv, Placed, FindFree
<1>4. alloc' = a /\ pc' = "found"
  BY DEF FindFree, Found
<1>5. pc = "finding" /\ UNCHANGED <<instance, resources, request, nFailedIterations, terminated,
                                    chunkState, contents, ring, server>>
  BY DEF FindFree
<1> HIDE DEF m, e
<1>6. /\ a \in [first : Int, final : Int]
      /\ Valid(segments, a.first, a.final) => Free(allocations, a.first, a.final)
  BY <1>2, <1>3
<1> HIDE DEF a
<1> QED
  BY <1>4, <1>5, <1>6, FoundKeeps

\* What the server has given back is free, and the rest stays
LEMMA Freed ==
  ASSUME IInv, freeDeallocations
  PROVE  /\ IsMap(cache') /\ IsMap(allocations')
         /\ \A segs : Apart(segs, allocations) => Apart(segs, allocations')
         /\ Named(cache', allocations', nextUid)
         /\ DOMAIN cache' \subseteq DOMAIN cache /\ DOMAIN allocations' \subseteq DOMAIN allocations
         /\ \A id \in DOMAIN cache' : cache'[id] = cache[id]
         /\ \A f \in DOMAIN allocations' : allocations'[f] = allocations[f]
         /\ \A id \in DOMAIN cache : id \in DOMAIN cache' <=> chunkState[cache[id]] # "Deallocated"
         /\ chunkState' \in [Chunks -> {"Unallocated", "Allocated", "Deallocated"}]
         /\ \A c \in Chunks : chunkState'[c] # "Deallocated"
<1> DEFINE G == {id \in DOMAIN cache : chunkState[cache[id]] = "Deallocated"}
           F == {cache[id] : id \in G}
<1>1. /\ cache' = Restrict(cache, DOMAIN cache \ G)
      /\ allocations' = Restrict(allocations, DOMAIN allocations \ F)
      /\ chunkState' = [c \in Chunks |-> IF c \in F THEN "Unallocated" ELSE chunkState[c]]
  BY DEF freeDeallocations
<1>2. /\ IsMap(cache') /\ DOMAIN cache' = DOMAIN cache \ G
      /\ \A id \in DOMAIN cache' : cache'[id] = cache[id]
  BY <1>1 DEF Restrict, IsMap
<1>3. /\ IsMap(allocations') /\ DOMAIN allocations' = DOMAIN allocations \ F
      /\ \A f \in DOMAIN allocations' : allocations'[f] = allocations[f]
  BY <1>1 DEF Restrict, IsMap
<1>4. \A id \in DOMAIN cache : id \in DOMAIN cache' <=> chunkState[cache[id]] # "Deallocated"
  BY <1>2
<1>5. /\ chunkState' \in [Chunks -> {"Unallocated", "Allocated", "Deallocated"}]
      /\ \A c \in Chunks : chunkState'[c] # "Deallocated"
  <2>1. \A c \in Chunks : chunkState[c] = "Deallocated" => c \in F
    BY DEF IInv, Placed, Named
  <2>2. chunkState \in [Chunks -> {"Unallocated", "Allocated", "Deallocated"}]
    BY DEF IInv, TypeOK
  <2> HIDE DEF F
  <2> QED
    BY <1>1, <2>1, <2>2
<1>6. G \in SUBSET DOMAIN cache /\ DOMAIN allocations \ F \in SUBSET DOMAIN allocations
  OBVIOUS
<1>7. Named(cache', allocations', nextUid)
  <2>1. Named(cache, allocations, nextUid)
    BY DEF IInv, Placed
  <2> HIDE DEF G
  <2> QED
    BY <1>1, <1>6, <2>1, NamedRestrict
<1>8. \A segs : Apart(segs, allocations) => Apart(segs, allocations')
  BY <1>1, <1>6, ApartRestrict
<1> QED
  BY <1>2, <1>3, <1>4, <1>5, <1>7, <1>8

\* A turn that frees, and may have added a segment or found a place
LEMMA FreedKeeps ==
  ASSUME IInv, pc = "finding", freeDeallocations, pc' \in {"finding", "found", "terminated"},
         UNCHANGED <<defaultSegmentSize, nextUid, resources, request, contents, server>>,
         nFailedIterations' \in 0 .. 3, terminated' \in BOOLEAN,
         alloc' \in [first : Int, final : Int],
         segments' \in Seq(Segments), segments' # <<>>, Layout(segments'),
         nChunks(segments') <= HeapSize, Apart(segments', allocations),
         ring' \in Seq(Commands), Len(ring') <= K,
         \A x \in Range(ring) : x \in Range(ring'),
         \A x \in Range(ring') : x \in Range(ring) \/ x.op = "AddSeg",
         \A x, y : Precedes(ring', x, y) => Precedes(ring, x, y) \/ y.op = "AddSeg",
         Mapping(ring', segments', serverSegments),
         pc' = "found" /\ Valid(segments', alloc'.first, alloc'.final) =>
           Free(allocations', alloc'.first, alloc'.final)
  PROVE  IInv'
<1>1. UNCHANGED <<defaultSegmentSize, nextUid, bufferId, lockInfos, request, contents,
                  serverSegments, serverCache>>
  BY DEF resources, server
<1>2. /\ IsMap(cache') /\ IsMap(allocations') /\ Apart(segments', allocations')
      /\ Named(cache', allocations', nextUid)
      /\ DOMAIN cache' \subseteq DOMAIN cache /\ DOMAIN allocations' \subseteq DOMAIN allocations
      /\ \A id \in DOMAIN cache' : cache'[id] = cache[id]
      /\ \A f \in DOMAIN allocations' : allocations'[f] = allocations[f]
      /\ \A id \in DOMAIN cache : id \in DOMAIN cache' <=> chunkState[cache[id]] # "Deallocated"
      /\ chunkState' \in [Chunks -> {"Unallocated", "Allocated", "Deallocated"}]
      /\ \A c \in Chunks : chunkState'[c] # "Deallocated"
  BY Freed
<1>3. /\ Busy /\ nextUid < MaxUid
      /\ \A id : Settled(id) <=> id \in DOMAIN cache
      /\ \A id : Settled(id)' <=> id \in DOMAIN cache'
      /\ \A id : Live(id) => Live(id)'
  <2>1. Busy /\ nextUid < MaxUid
    BY DEF Busy, IInv, Shapes
  <2>2. \A id : Settled(id) <=> id \in DOMAIN cache
    BY DEF Settled
  <2>3. \A id : Settled(id)' <=> id \in DOMAIN cache'
    BY DEF Settled
  <2>4. \A id \in DOMAIN cache' : chunkState'[cache'[id]] # "Deallocated"
    BY <1>2, Basics
  <2> QED
    BY <1>2, <2>1, <2>2, <2>3, <2>4 DEF Live
<1>4. TypeOK'
  <2>1. DOMAIN cache' \subseteq Ids /\ Range(cache') \subseteq Chunks
    BY <1>2, Basics DEF Range
  <2>2. DOMAIN allocations' \subseteq Chunks /\ Range(allocations') \subseteq Chunks
    BY <1>2 DEF IInv, TypeOK, Range
  <2>3. segments' \in Seq([base : Nat, size : Nat \ {0}])
    BY DEF Segments
  <2> QED
    BY <1>1, <1>2, <2>1, <2>2, <2>3 DEF IInv, TypeOK
<1>5. Shapes'
  BY <1>1, <1>2, <1>3 DEF IInv, Shapes, Busy
<1>6. Layout(segments)' /\ Placed'
  <2>1. Promised'
    BY DEF Promised
  <2> QED
    BY <1>1, <1>2, <2>1 DEF Placed
<1>7. Kept'
  <2>1. \A id \in DOMAIN cache' : ChunksOf(id)' = ChunksOf(id)
    <3>1. \A id \in DOMAIN cache' : cache'[id] \in DOMAIN allocations'
      BY <1>2 DEF Named
    <3> QED
      BY <1>2, <3>1 DEF ChunksOf
  <2> QED
    BY <1>1, <1>2, <1>3, <2>1 DEF IInv, Kept
<1>8. Used'
  <2>1. \A b \in Buffers, id \in Ids : Uses(b, id) => Live(id)'
    BY <1>3 DEF IInv, Used
  <2>2. \A x \in Range(ring') : x.op = "Dealloc" => x \in Range(ring)
    OBVIOUS
  <2> QED
    BY <1>1, <1>3, <2>1, <2>2, UsedStays DEF IInv
<1>9. Sent'
  <2>1. \A x \in Range(ring') : x \in Range(ring) /\ x.op = "Alloc" =>
          /\ x.arg \in DOMAIN cache' /\ cache'[x.arg] = cache[x.arg]
          /\ chunkState'[x.chunk] # "Deallocated"
    BY <1>2, Basics DEF IInv, Sent
  <2>2. \A x \in Range(ring') : x \in Range(ring) /\ x.op \in {"Unlock", "Dealloc"} => Live(x.arg)'
    BY <1>3 DEF IInv, Sent
  <2>3. \A x, y : Precedes(ring', x, y) => Precedes(ring, x, y) \/ Ordered(x, y)
    BY DEF Ordered
  <2> QED
    BY <2>1, <2>2, <2>3, SentStays DEF IInv
<1>10. Known'
  <2>1. \A id \in DOMAIN cache' :
          \/ id \in DOMAIN serverCache /\ serverCache[id] = cache'[id]
          \/ \E x \in Range(ring') : x.op = "Alloc" /\ x.arg = id
    BY <1>2 DEF IInv, Known
  <2> QED
    BY <1>1, <2>1 DEF IInv, Known
<1> QED
  BY <1>4, <1>5, <1>6, <1>7, <1>8, <1>9, <1>10 DEF IInv

\* A turn that adds no segment
LEMMA TurnKeeps ==
  ASSUME IInv, pc = "finding", freeDeallocations, pc' \in {"finding", "found", "terminated"},
         UNCHANGED <<segments, defaultSegmentSize, nextUid, resources, request, contents, ring,
                     server>>,
         nFailedIterations' \in 0 .. 3, terminated' \in BOOLEAN,
         alloc' = alloc \/ alloc' = NoAllocation, pc' = "found" => alloc' = NoAllocation
  PROVE  IInv'
<1>1. /\ segments \in Seq(Segments) /\ segments # <<>> /\ Layout(segments)
      /\ nChunks(segments) <= HeapSize /\ Apart(segments, allocations)
      /\ ring \in Seq(Commands) /\ Len(ring) <= K /\ Mapping(ring, segments, serverSegments)
  BY Basics DEF IInv, TypeOK, Placed, Known
<1>2. alloc' \in [first : Int, final : Int]
  BY DEF IInv, Shapes, NoAllocation, Invalid
<1>3. ~Valid(segments, NoAllocation.first, NoAllocation.final)
  BY Basics DEF Valid, NoAllocation, Invalid
<1>4. /\ pc' = "found" /\ Valid(segments', alloc'.first, alloc'.final) =>
           Free(allocations', alloc'.first, alloc'.final)
  BY <1>3
<1> QED
  BY <1>1, <1>2, <1>4, FreedKeeps

LEMMA FindNothingKeeps ==
  ASSUME IInv, FindNothing
  PROVE  IInv'
<1>1. nFailedIterations \in 0 .. 3 /\ terminated \in BOOLEAN
  BY DEF IInv, TypeOK
<1>2. Min({nFailedIterations + 1, 3}) \in 0 .. 3
  <2> DEFINE T == {nFailedIterations + 1, 3}
  <2>1. T \in SUBSET Nat /\ T # {} /\ 3 \in T
    BY <1>1
  <2> HIDE DEF T
  <2>2. Min(T) \in T /\ Min(T) <= 3
    BY <2>1, Lowest
  <2> QED
    BY <2>1, <2>2 DEF T
<1> QED
  BY <1>1, <1>2, TurnKeeps DEF FindNothing

LEMMA GrowFailsKeeps ==
  ASSUME IInv, GrowFails
  PROVE  IInv'
<1>1. nFailedIterations \in 0 .. 3 /\ terminated \in BOOLEAN
  BY DEF IInv, TypeOK
<1> QED
  BY <1>1, TurnKeeps DEF GrowFails

LEMMA FindTimesOutKeeps ==
  ASSUME IInv, FindTimesOut
  PROVE  IInv'
<1>1. nFailedIterations \in 0 .. 3 /\ terminated \in BOOLEAN
  BY DEF IInv, TypeOK
<1> QED
  BY <1>1, TurnKeeps DEF FindTimesOut, Found

LEMMA GrowKeeps ==
  ASSUME IInv, Grow
  PROVE  IInv'
<1> DEFINE k == NewSegmentSize
           n == nChunks(segments)
           a == createAllocation(n, Needed)
           e == [op |-> "AddSeg", arg |-> k]
           t == AddSegment(segments, k)
<1>1. /\ pc = "finding" /\ Len(ring) < K /\ freeDeallocations /\ k > 1
      /\ segments' = t /\ ring' = Append(ring, e) /\ alloc' = a /\ pc' = "found"
      /\ UNCHANGED <<defaultSegmentSize, nextUid, resources, request, nFailedIterations,
                     terminated, contents, server>>
  BY DEF Grow, Found
<1>2. k \in Nat \ {0} /\ n \in Nat /\ n + k <= HeapSize
  <2> DEFINE T == {HeapSize - n, defaultSegmentSize}
  <2>1. n \in Nat /\ HeapSize \in Nat /\ n <= HeapSize
    BY Basics
  <2>2. T \in SUBSET Nat /\ T # {} /\ HeapSize - n \in T /\ k = Min(T)
    BY <2>1 DEF IInv, TypeOK, NewSegmentSize
  <2> HIDE DEF T, n
  <2>3. Min(T) \in T /\ Min(T) <= HeapSize - n
    BY <2>2, Lowest
  <2>4. k \in Nat /\ k <= HeapSize - n
    BY <2>2, <2>3
  <2> HIDE DEF k
  <2> QED
    BY <1>1, <2>1, <2>4
<1>3. Needed \in Nat \ {0}
  BY <1>1, NeededType DEF Busy
<1>4. a \in [first : Int, final : Int] /\ a.first = n
  BY <1>2, <1>3 DEF createAllocation
<1>5. e \in Commands /\ e.op = "AddSeg"
  BY <1>2 DEF Commands
<1>6. /\ segments \in Seq(Segments) /\ Layout(segments) /\ Apart(segments, allocations)
      /\ ring \in Seq(Commands) /\ Mapping(ring, segments, serverSegments)
      /\ serverSegments \in Seq(Segments)
  BY Basics DEF IInv, Placed, Known
<1>7. Mapping(Append(ring, e), t, serverSegments)
  BY <1>2, <1>6, MappingAdd
<1>8. /\ t \in Seq(Segments) /\ t # <<>> /\ nChunks(t) = n + k
      /\ Layout(t) /\ Apart(t, allocations)
  <2>1. Layout(t) /\ Apart(t, allocations)
    BY <1>2, <1>6, SegmentAdded, ApartGrows
  <2> QED
    BY <1>2, <1>6, <2>1, SegmentNext
<1>9. Free(allocations', a.first, a.final)
  <2>1. /\ DOMAIN allocations' \subseteq DOMAIN allocations
        /\ \A f \in DOMAIN allocations' : allocations'[f] = allocations[f]
    BY <1>1, Freed
  <2>2. \A f \in DOMAIN allocations : allocations[f] < n
    BY <1>6, ApartType
  <2> HIDE DEF a, n
  <2>3. \A f \in DOMAIN allocations' : allocations'[f] < a.first
    BY <1>4, <2>1, <2>2
  <2> QED
    BY <2>3 DEF Free
<1> HIDE DEF a, e, t, k, n
<1>10. /\ Append(ring, e) \in Seq(Commands) /\ Range(Append(ring, e)) = Range(ring) \cup {e}
       /\ \A x, y : Precedes(Append(ring, e), x, y) =>
            Precedes(ring, x, y) \/ (x \in Range(ring) /\ y = e)
  BY <1>5, <1>6, AfterAppend
<1>11. Len(Append(ring, e)) <= K
  <2>1. Len(Append(ring, e)) = Len(ring) + 1 /\ Len(ring) \in Nat /\ K \in Nat
    BY <1>5, <1>6, AppendProperties, HeapAssumption
  <2> QED
    BY <1>1, <2>1
<1>12. nFailedIterations \in 0 .. 3 /\ terminated \in BOOLEAN
  BY DEF IInv, TypeOK
<1>13. nChunks(t) <= HeapSize
  BY <1>2, <1>8
<1> QED
  BY <1>1, <1>4, <1>5, <1>7, <1>8, <1>9, <1>10, <1>11, <1>12, <1>13, FreedKeeps

-----------------------------------------------------------------------------
(* The rest of allocate() and lock() *)

LEMMA AllocateKeeps ==
  ASSUME IInv, Allocate
  PROVE  IInv'
<1> DEFINE id == nextUid
           f == alloc.first
           e == [op |-> "Alloc", arg |-> id, chunk |-> f]
<1>1. /\ pc = "found" /\ pc' = "sent" /\ isValidAllocation(alloc) /\ Len(ring) < K
      /\ nextUid' = nextUid + 1 /\ cache' = With(cache, id, f)
      /\ allocations' = With(allocations, f, alloc.final) /\ ring' = Append(ring, e)
      /\ UNCHANGED <<segments, defaultSegmentSize, bufferId, lockInfos, request, alloc,
                     nFailedIterations, terminated, chunkState, contents, serverSegments,
                     serverCache>>
  BY DEF Allocate, resources, server
<1>2. Valid(segments, f, alloc.final) /\ f \in Int /\ alloc.final \in Int
  BY <1>1 DEF isValidAllocation, Valid, IInv, Shapes
<1>3. /\ f \in Chunks /\ alloc.final \in Chunks /\ f < nChunks(segments)
      /\ id \in Ids /\ id \in Nat /\ id + 1 \in 0 .. MaxUid
  <2>1. f \in Chunks /\ alloc.final \in Chunks /\ f < nChunks(segments)
    BY <1>2, Basics DEF Valid, Chunks
  <2>2. id \in 0 .. MaxUid /\ id < MaxUid /\ MaxUid \in Nat
    BY <1>1, HeapAssumption DEF IInv, TypeOK, Shapes
  <2> QED
    BY <2>1, <2>2 DEF Ids
<1>4. Free(allocations, f, alloc.final)
  BY <1>1, <1>2 DEF IInv, Placed, Promised
<1>5. Apart(segments, allocations') /\ f \notin DOMAIN allocations
  BY <1>1, <1>2, <1>4, Basics, ApartWith DEF IInv, Placed
<1>6. Named(cache', allocations', id + 1) /\ id \notin DOMAIN cache
  BY <1>1, <1>3, <1>5, Basics, NamedWith DEF IInv, Placed
<1>7. /\ IsMap(cache') /\ DOMAIN cache' = DOMAIN cache \cup {id} /\ cache'[id] = f
      /\ \A jd \in DOMAIN cache : cache'[jd] = cache[jd]
      /\ IsMap(allocations') /\ DOMAIN allocations' = DOMAIN allocations \cup {f}
      /\ allocations'[f] = alloc.final
      /\ \A g \in DOMAIN allocations : allocations'[g] = allocations[g]
  BY <1>1, <1>5, <1>6 DEF With, IsMap
<1>8. e \in Commands /\ e.op = "Alloc" /\ e.chunk = f /\ e.arg = id
  BY <1>3 DEF Commands
<1>9. chunkState[f] # "Deallocated"
  BY <1>3, <1>5 DEF IInv, Placed
<1>10. Last(nextUid') = id
  BY <1>1, <1>3 DEF Last
<1> HIDE DEF id, f, e
<1>11. /\ ring' \in Seq(Commands) /\ Range(ring') = Range(ring) \cup {e}
       /\ \A x, y : Precedes(ring', x, y) => Precedes(ring, x, y) \/ (x \in Range(ring) /\ y = e)
  BY <1>1, <1>8, Basics, AfterAppend
<1>12. Mapping(ring', segments, serverSegments)
  BY <1>1, <1>3, <1>8, Basics, MappingAppend DEF IInv, Known
<1>13. /\ Busy /\ Busy'
       /\ \A jd : Settled(jd) <=> jd \in DOMAIN cache
       /\ \A jd : Settled(jd)' <=> jd \in DOMAIN cache
       /\ \A jd : Live(jd)' <=> Live(jd)
  <2>1. Busy /\ Busy'
    BY <1>1 DEF Busy
  <2>2. \A jd : Settled(jd) <=> jd \in DOMAIN cache
    BY <1>1 DEF Settled
  <2>3. \A jd : Settled(jd)' <=> jd \in DOMAIN cache
    BY <1>1, <1>6, <1>7, <1>10 DEF Settled
  <2> QED
    BY <1>1, <1>7, <2>1, <2>2, <2>3 DEF Live
<1>14. TypeOK'
  <2>1. Len(ring') <= K
    <3>1. Len(ring') = Len(ring) + 1 /\ Len(ring) \in Nat /\ K \in Nat
      BY <1>1, <1>8, Basics, AppendProperties, HeapAssumption
    <3> QED
      BY <1>1, <3>1
  <2>2. DOMAIN cache' \subseteq Ids /\ Range(cache') \subseteq Chunks
    BY <1>3, <1>7, Basics DEF Range
  <2>3. DOMAIN allocations' \subseteq Chunks /\ Range(allocations') \subseteq Chunks
    BY <1>3, <1>7 DEF IInv, TypeOK, Range
  <2>4. nextUid' \in 0 .. MaxUid
    BY <1>1, <1>3 DEF id
  <2> QED
    BY <1>1, <1>11, <2>1, <2>2, <2>3, <2>4 DEF IInv, TypeOK
<1>15. Shapes' /\ Layout(segments)'
  BY <1>1, <1>7, <1>13 DEF IInv, Shapes
<1>16. Placed'
  <2>1. \A c \in Chunks : chunkState'[c] = "Deallocated" => c \in DOMAIN allocations'
    BY <1>1, <1>7 DEF IInv, Placed
  <2>2. Promised'
    BY <1>1, <1>7, <1>9, <1>10 DEF Promised, f
  <2>3. nextUid' = id + 1
    BY <1>1 DEF id
  <2> QED
    BY <1>1, <1>5, <1>6, <2>1, <2>2, <2>3 DEF Placed
<1>17. Kept'
  <2>1. \A jd \in DOMAIN cache : ChunksOf(jd)' = ChunksOf(jd)
    BY <1>7, Basics DEF ChunksOf
  <2> QED
    BY <1>1, <1>13, <2>1 DEF IInv, Kept
<1>18. Used'
  <2>1. \A b \in Buffers, jd \in Ids : Uses(b, jd) => Live(jd)'
    BY <1>13 DEF IInv, Used
  <2> QED
    BY <1>1, <1>8, <1>11, <1>13, <2>1, UsedStays DEF IInv
<1>19. Sent'
  <2>1. \A x \in Range(ring) : x.op # "AddSeg" => x.arg # id
    <3> SUFFICES ASSUME NEW x \in Range(ring), x.op # "AddSeg"
                 PROVE  x.arg \in DOMAIN cache
      BY <1>6
    <3>1. x \in Commands
      BY Basics DEF Range
    <3>2. x.op \in {"Unlock", "Dealloc", "Alloc"}
      BY <3>1 DEF Commands
    <3> QED
      BY <3>2 DEF IInv, Sent, Live, Settled
  <2>2. \A x \in Range(ring') :
       /\ x.op \in {"Unlock", "Dealloc"} => Live(x.arg)'
       /\ x.op = "Alloc" => /\ x.arg \in DOMAIN cache' /\ x.chunk = cache'[x.arg]
                            /\ chunkState'[x.chunk] # "Deallocated"
    BY <1>1, <1>7, <1>8, <1>9, <1>11, <1>13 DEF IInv, Sent
  <2>3. ASSUME NEW x, NEW y, Precedes(ring', x, y)
        PROVE  Ordered(x, y)
    <3>1. CASE Precedes(ring, x, y)
      BY <3>1, PrecedesIn DEF IInv, Sent
    <3>2. CASE x \in Range(ring) /\ y = e
      BY <1>8, <2>1, <3>2 DEF Ordered
    <3> QED
      BY <1>11, <2>3, <3>1, <3>2
  <2> QED
    BY <2>2, <2>3 DEF Sent
<1>20. Known'
  <2>1. \A jd \in DOMAIN cache' :
          \/ chunkState'[cache'[jd]] = "Deallocated"
          \/ jd \in DOMAIN serverCache /\ serverCache[jd] = cache'[jd]
          \/ \E x \in Range(ring') : x.op = "Alloc" /\ x.arg = jd
    BY <1>1, <1>7, <1>8, <1>11 DEF IInv, Known
  <2> QED
    BY <1>1, <1>12, <2>1 DEF IInv, Known
<1> QED
  BY <1>14, <1>15, <1>16, <1>17, <1>18, <1>19, <1>20 DEF IInv

LEMMA LockFailsKeeps ==
  ASSUME IInv, LockFails
  PROVE  IInv'
<1> DEFINE b == request.buffer
<1>1. /\ pc = "found" /\ pc' = "idle" /\ bufferId' = [bufferId EXCEPT ![b] = Invalid]
      /\ request' = <<>> /\ alloc' = NoAllocation /\ nFailedIterations' = 0
      /\ UNCHANGED <<segments, defaultSegmentSize, cache, allocations, nextUid, lockInfos,
                     terminated, chunkState, contents, ring, serverSegments, serverCache>>
  BY DEF LockFails, instance, server
<1>2. Busy /\ ~Busy' /\ b \in Buffers
      /\ \A id : Settled(id)' = Settled(id) /\ Live(id)' = Live(id)
  BY <1>1 DEF Busy, Settled, Live, IInv, Shapes, Requests
<1>3. /\ bufferId' \in [Buffers -> Ids \cup {Invalid}] /\ bufferId'[b] = Invalid
      /\ \A d \in Buffers : d # b => bufferId'[d] = bufferId[d]
  BY <1>1, <1>2 DEF IInv, TypeOK
<1> HIDE DEF b
<1>4. TypeOK' /\ Shapes' /\ Layout(segments)'
  <2>1. TypeOK'
    BY <1>1, <1>3 DEF IInv, TypeOK
  <2>2. alloc' \in [first : Int, final : Int]
    BY <1>1 DEF NoAllocation, Invalid
  <2>3. Shapes' /\ Layout(segments)'
    BY <1>1, <1>2, <2>2 DEF IInv, Shapes
  <2> QED
    BY <2>1, <2>3
<1>5. Placed' /\ Kept'
  <2>1. \A id : ChunksOf(id)' = ChunksOf(id)
    BY <1>1 DEF ChunksOf
  <2> QED
    BY <1>1, <1>2, <2>1 DEF IInv, Placed, Promised, Kept
<1>6. Used'
  <2>1. \A d \in Buffers, id \in Ids : Uses(d, id)' => Uses(d, id)
    <3>1. \A id \in Ids : id # Invalid
      BY Basics
    <3> QED
      BY <1>1, <1>2, <1>3, <3>1 DEF Uses
  <2>2. ASSUME NEW d \in Buffers, NEW id \in Ids, Uses(d, id)'
        PROVE  Live(id)' /\ \A x \in Range(ring') : x.op = "Dealloc" => x.arg # id
    <3>1. Uses(d, id)
      BY <2>1, <2>2
    <3> QED
      BY <1>1, <1>2, <3>1 DEF IInv, Used
  <2>3. \A b1, b2 \in Buffers, id \in Ids : Uses(b1, id)' /\ Uses(b2, id)' => b1 = b2
    BY <2>1 DEF IInv, Used
  <2>4. ASSUME NEW d \in Buffers PROVE Replaced(d)'
    <3>1. Replaced(d)
      BY DEF IInv, Used
    <3> QED
      BY <1>1, <1>2, <1>3, <3>1 DEF Replaced
  <2> QED
    BY <2>2, <2>3, <2>4 DEF Used
<1>7. Sent' /\ Known'
  BY <1>1, <1>2 DEF IInv, Sent, Known
<1> QED
  BY <1>4, <1>5, <1>6, <1>7 DEF IInv

LEMMA FinishLockKeeps ==
  ASSUME IInv, FinishLock
  PROVE  IInv'
<1> DEFINE id == nextUid - 1
           b == request.buffer
           e == [id |-> id, discarded |-> request.discarded, readonly |-> request.readonly]
           f == alloc.first
<1>1. /\ pc = "sent" /\ pc' = "idle" /\ chunkState' = [chunkState EXCEPT ![f] = "Allocated"]
      /\ bufferId' = [bufferId EXCEPT ![b] = id]
      /\ lockInfos' = [lockInfos EXCEPT ![b] = Append(@, e)]
      /\ contents' = Written(id, f .. alloc.final)
      /\ request' = <<>> /\ alloc' = NoAllocation /\ nFailedIterations' = 0
      /\ UNCHANGED <<segments, defaultSegmentSize, cache, allocations, nextUid, terminated, ring,
                     serverSegments, serverCache>>
  BY DEF FinishLock, instance, server
<1>2. /\ id = Last(nextUid) /\ id \in DOMAIN cache /\ f = cache[id] /\ f \in Chunks /\ id \in Ids
      /\ f .. alloc.final = ChunksOf(id)
  <2>1. id = Last(nextUid)
    BY DEF Last
  <2>2. id \in DOMAIN cache /\ f = cache[id] /\ alloc.final = allocations[f]
    BY <1>1, <2>1 DEF IInv, Placed, Promised
  <2> QED
    BY <2>1, <2>2, Basics DEF ChunksOf
<1>3. /\ Busy /\ ~Busy' /\ b \in Buffers /\ e \in Locks /\ e.id = id
      /\ e.discarded = request.discarded /\ Len(lockInfos[b]) < MaxLocks
  <2>1. Busy /\ ~Busy' /\ request \in Requests /\ Len(lockInfos[b]) < MaxLocks
    BY <1>1 DEF Busy, IInv, Shapes
  <2> QED
    BY <1>2, <2>1 DEF Requests, Locks
<1> HIDE DEF id, b, e, f
<1>4. /\ \A jd : Settled(jd) => jd # id
      /\ \A jd : Settled(jd)' <=> Settled(jd) \/ jd = id
  BY <1>1, <1>2 DEF Settled
<1>5. /\ chunkState' \in [Chunks -> {"Unallocated", "Allocated", "Deallocated"}]
      /\ chunkState'[f] = "Allocated"
      /\ \A c \in Chunks : c # f => chunkState'[c] = chunkState[c]
  BY <1>1, <1>2 DEF IInv, TypeOK
<1>6. \A jd : (Live(jd) => jd # id /\ Live(jd)') /\ (jd = id => Live(jd)')
  <2> SUFFICES ASSUME NEW jd
               PROVE  (Live(jd) => jd # id /\ Live(jd)') /\ (jd = id => Live(jd)')
    OBVIOUS
  <2>1. Live(jd) => jd # id
    BY <1>4 DEF Live
  <2>2. jd \in DOMAIN cache /\ jd # id => cache[jd] # f /\ cache[jd] \in Chunks
    BY <1>2, Basics
  <2>3. jd \in DOMAIN cache /\ jd # id => chunkState'[cache'[jd]] = chunkState[cache[jd]]
    BY <1>1, <1>5, <2>2
  <2>4. ASSUME Live(jd) PROVE Live(jd)'
    <3>1. Settled(jd) /\ jd \in DOMAIN cache /\ chunkState[cache[jd]] # "Deallocated"
      BY <2>4 DEF Live, Settled
    <3> QED
      BY <1>4, <2>1, <2>3, <2>4, <3>1 DEF Live
  <2>5. ASSUME jd = id PROVE Live(jd)'
    <3>1. Settled(jd)' /\ chunkState'[cache'[jd]] = "Allocated"
      BY <1>1, <1>2, <1>4, <1>5, <2>5
    <3> QED
      BY <3>1 DEF Live
  <2> QED
    BY <2>1, <2>4, <2>5
<1>7. /\ bufferId' \in [Buffers -> Ids \cup {Invalid}] /\ bufferId'[b] = id
      /\ \A d \in Buffers : d # b => bufferId'[d] = bufferId[d]
  BY <1>1, <1>2, <1>3 DEF IInv, TypeOK
<1>8. /\ lockInfos' \in [Buffers -> Seq(Locks)] /\ lockInfos'[b] = Append(lockInfos[b], e)
      /\ \A d \in Buffers : d # b => lockInfos'[d] = lockInfos[d]
      /\ Len(lockInfos'[b]) = Len(lockInfos[b]) + 1 /\ Len(lockInfos[b]) \in Nat
  <2>1. lockInfos \in [Buffers -> Seq(Locks)] /\ lockInfos[b] \in Seq(Locks)
    BY <1>3, Basics
  <2>2. Append(lockInfos[b], e) \in Seq(Locks) /\ Len(Append(lockInfos[b], e)) = Len(lockInfos[b]) + 1
        /\ Len(lockInfos[b]) \in Nat
    BY <1>3, <2>1, AppendProperties
  <2> QED
    BY <1>1, <1>3, <2>1, <2>2
<1>9. /\ Range(lockInfos'[b]) = Range(lockInfos[b]) \cup {e}
      /\ \A x, y : Precedes(lockInfos'[b], x, y) =>
           Precedes(lockInfos[b], x, y) \/ (x \in Range(lockInfos[b]) /\ y = e)
  <2>1. lockInfos[b] \in Seq(Locks)
    BY <1>3, Basics
  <2> QED
    BY <1>3, <1>8, <2>1, AfterAppend
<1>10. contents' \in [Chunks -> Ids \cup {Invalid}]
       /\ \A c \in Chunks : contents'[c] = IF c \in ChunksOf(id) THEN id ELSE contents[c]
  <2>1. contents' = [c \in Chunks |-> IF c \in ChunksOf(id) THEN id ELSE contents[c]]
    BY <1>1, <1>2 DEF Written
  <2>2. contents \in [Chunks -> Ids \cup {Invalid}]
    BY DEF IInv, TypeOK
  <2> QED
    BY <1>2, <2>1, <2>2
<1>11. TypeOK'
  <2>1. \A d \in Buffers : Len(lockInfos'[d]) <= MaxLocks
    <3>1. Len(lockInfos'[b]) <= MaxLocks
      <4>1. MaxLocks \in Nat
        BY HeapAssumption
      <4> QED
        BY <1>3, <1>8, <4>1
    <3> QED
      BY <1>8, <3>1 DEF IInv, TypeOK
  <2> QED
    BY <1>1, <1>5, <1>7, <1>10, <2>1 DEF IInv, TypeOK
<1>12. Shapes' /\ Layout(segments)'
  <2>1. alloc' \in [first : Int, final : Int]
    BY <1>1 DEF NoAllocation, Invalid
  <2> QED
    BY <1>1, <1>3, <1>8, <2>1 DEF IInv, Shapes
<1>13. Placed'
  <2>1. \A c \in Chunks : chunkState'[c] = "Deallocated" => c \in DOMAIN allocations
    BY <1>5 DEF IInv, Placed
  <2> QED
    BY <1>1, <2>1 DEF IInv, Placed, Promised
<1>14. Kept'
  <2> SUFFICES ASSUME NEW jd \in DOMAIN cache, Settled(jd) \/ jd = id, NEW c \in ChunksOf(jd)
               PROVE  contents'[c] = jd
    <3>1. \A jd : ChunksOf(jd)' = ChunksOf(jd)
      BY <1>1 DEF ChunksOf
    <3> QED
      BY <1>1, <1>4, <3>1 DEF Kept
  <2>1. c \in Chunks
    BY ChunksApart
  <2>2. CASE jd = id
    BY <1>10, <2>1, <2>2
  <2>3. CASE jd # id
    <3>1. contents[c] = jd /\ c \notin ChunksOf(id)
      BY <1>2, <2>3, ChunksApart DEF IInv, Kept
    <3> QED
      BY <1>10, <2>1, <3>1
  <2> QED
    BY <2>2, <2>3
<1>15. \A d \in Buffers, jd \in Ids : Uses(d, jd)' => Uses(d, jd) \/ (d = b /\ jd = id)
  <2> SUFFICES ASSUME NEW d \in Buffers, NEW jd \in Ids, Uses(d, jd)'
               PROVE  Uses(d, jd) \/ (d = b /\ jd = id)
    OBVIOUS
  <2>1. CASE d = b
    <3>1. jd \in {e.id, e.discarded} => jd = id \/ Uses(b, jd)
      BY <1>3 DEF Uses, b
    <3>2. \A x \in Range(lockInfos[b]) : jd \in {x.id, x.discarded} => Uses(b, jd)
      BY DEF Uses
    <3> QED
      BY <1>3, <1>7, <1>9, <2>1, <3>1, <3>2 DEF Uses
  <2>2. CASE d # b
    BY <1>3, <1>7, <1>8, <2>2 DEF Uses
  <2> QED
    BY <2>1, <2>2
<1>16. \A d \in Buffers, jd \in Ids : Uses(d, jd) => Live(jd) /\ jd # id
  BY <1>6 DEF IInv, Used
<1>17. \A d \in Buffers : Replaced(d)'
  <2> SUFFICES ASSUME NEW d \in Buffers
               PROVE  Replaced(d)'
    OBVIOUS
  <2>0. Replaced(d)
    BY DEF IInv, Used
  <2>1. CASE d = b
    <3>1. \A x \in Range(lockInfos'[b]) : x.discarded # Invalid => x.discarded # id
      <4> SUFFICES ASSUME NEW x \in Range(lockInfos'[b]), x.discarded # Invalid
                   PROVE  x.discarded # id
        OBVIOUS
      <4>1. x \in Locks
        <5>1. lockInfos'[b] \in Seq(Locks)
          BY <1>3, <1>8
        <5> QED
          BY <5>1 DEF Range
      <4>2. x.discarded \in Ids
        BY <4>1 DEF Locks
      <4>3. Uses(b, x.discarded)
        BY <1>3, <1>9 DEF Uses, b
      <4> QED
        BY <1>3, <1>16, <4>2, <4>3
    <3>2. \A x \in Range(lockInfos'[b]) : x.discarded # Invalid =>
            x.discarded # bufferId'[b] /\ x.discarded # x.id
      BY <1>3, <1>7, <1>9, <2>0, <2>1, <3>1 DEF Replaced
    <3>3. \A x, y \in Range(lockInfos'[b]) :
            Precedes(lockInfos'[b], x, y) /\ x.discarded # Invalid =>
              x.discarded # y.id /\ x.discarded # y.discarded
      <4> SUFFICES ASSUME NEW x \in Range(lockInfos'[b]), NEW y \in Range(lockInfos'[b]),
                          Precedes(lockInfos'[b], x, y), x.discarded # Invalid
                   PROVE  x.discarded # y.id /\ x.discarded # y.discarded
        OBVIOUS
      <4>1. CASE Precedes(lockInfos[b], x, y)
        BY <2>0, <2>1, <4>1, PrecedesIn DEF Replaced
      <4>2. CASE x \in Range(lockInfos[b]) /\ y = e
        <5>1. x.discarded # request.discarded
          BY <1>3, <2>0, <2>1, <4>2 DEF Replaced, b
        <5> QED
          BY <1>3, <3>1, <4>2, <5>1
      <4> QED
        BY <1>9, <4>1, <4>2
    <3> QED
      BY <1>3, <2>1, <3>2, <3>3 DEF Replaced
  <2>2. CASE d # b
    BY <1>3, <1>7, <1>8, <2>0, <2>2 DEF Replaced
  <2> QED
    BY <2>1, <2>2
<1>18. Used'
  <2>1. \A x \in Range(ring) : x.op = "Dealloc" => x.arg # id
    BY <1>6 DEF IInv, Sent
  <2>2. ASSUME NEW d \in Buffers, NEW jd \in Ids, Uses(d, jd)'
        PROVE  Live(jd)' /\ \A x \in Range(ring') : x.op = "Dealloc" => x.arg # jd
    <3>1. Uses(d, jd) \/ jd = id
      BY <1>15, <2>2
    <3>2. CASE jd = id
      BY <1>1, <1>6, <2>1, <3>2
    <3>3. CASE Uses(d, jd)
      BY <1>1, <1>6, <3>3 DEF IInv, Used
    <3> QED
      BY <3>1, <3>2, <3>3
  <2>3. \A b1, b2 \in Buffers, jd \in Ids : Uses(b1, jd)' /\ Uses(b2, jd)' => b1 = b2
    BY <1>15, <1>16 DEF IInv, Used
  <2> QED
    BY <1>17, <2>2, <2>3 DEF Used
<1>19. Sent'
  <2>1. \A x \in Range(ring) : x.op = "Alloc" => chunkState'[x.chunk] # "Deallocated"
    <3> SUFFICES ASSUME NEW x \in Range(ring), x.op = "Alloc"
                 PROVE  chunkState'[x.chunk] # "Deallocated"
      OBVIOUS
    <3>1. x.chunk \in Chunks /\ chunkState[x.chunk] # "Deallocated"
      BY Basics DEF IInv, Sent
    <3> QED
      BY <1>5, <3>1
  <2> QED
    BY <1>1, <1>6, <2>1 DEF IInv, Sent
<1>20. Known'
  <2>1. \A jd \in DOMAIN cache :
          \/ chunkState'[cache[jd]] = "Deallocated"
          \/ jd \in DOMAIN serverCache /\ serverCache[jd] = cache[jd]
          \/ \E x \in Range(ring) : x.op = "Alloc" /\ x.arg = jd
    <3> SUFFICES ASSUME NEW jd \in DOMAIN cache, chunkState[cache[jd]] = "Deallocated"
                 PROVE  chunkState'[cache[jd]] = "Deallocated"
      BY DEF IInv, Known
    <3>1. chunkState[f] # "Deallocated"
      BY <1>1 DEF IInv, Placed, Promised, f
    <3> QED
      BY <1>5, <3>1, Basics
  <2> QED
    BY <1>1, <2>1 DEF IInv, Known
<1> QED
  BY <1>11, <1>12, <1>13, <1>14, <1>18, <1>19, <1>20 DEF IInv

-----------------------------------------------------------------------------
(* The invariant *)

LEMMA InitIInv ==
  ASSUME Init
  PROVE  IInv
<1> DEFINE e == [op |-> "AddSeg", arg |-> SegmentSize]
           none == <<>>
<1>1. /\ SegmentSize \in Nat \ {0} /\ SegmentSize <= HeapSize /\ HeapSize \in Nat
      /\ MaxUid \in Nat /\ MaxLocks \in Nat /\ K \in Nat /\ K > 0
  BY HeapAssumption
<1>2. none \in Seq(Segments) /\ none \in Seq(Commands) /\ nChunks(none) = 0 /\ Len(none) = 0
      /\ DOMAIN none = {} /\ Range(none) = {} /\ IsMap(none)
  BY DEF nChunks, Range, IsMap
<1>3. Layout(none)
  BY <1>2 DEF Layout
<1>4. /\ segments \in Seq(Segments) /\ segments # <<>> /\ nChunks(segments) = SegmentSize
      /\ Layout(segments)
  <2>1. segments = AddSegment(none, SegmentSize)
    BY DEF Init
  <2> HIDE DEF none
  <2>2. AddSegment(none, SegmentSize) # <<>> /\ Layout(AddSegment(none, SegmentSize))
        /\ nChunks(AddSegment(none, SegmentSize)) = 0 + SegmentSize
        /\ AddSegment(none, SegmentSize) \in Seq(Segments)
    <3>1. Layout(AddSegment(none, SegmentSize))
      BY <1>1, <1>2, <1>3, SegmentAdded
    <3>2. AddSegment(none, SegmentSize) # <<>> /\ AddSegment(none, SegmentSize) \in Seq(Segments)
      BY <1>1, <1>2, SegmentNext
    <3>3. nChunks(AddSegment(none, SegmentSize)) = nChunks(none) + SegmentSize
      BY <1>1, <1>2, SegmentNext
    <3> QED
      BY <1>2, <3>1, <3>2, <3>3
  <2> QED
    BY <1>1, <2>1, <2>2
<1>5. e \in Commands /\ ring = <<e>> /\ ring \in Seq(Commands) /\ Len(ring) <= K
      /\ Range(ring) = {e} /\ \A x, y : ~Precedes(ring, x, y)
  BY <1>1 DEF Init, Commands, Range, Precedes
<1>6. Mapping(ring, segments, none)
  <2> DEFINE n == [i \in 1 .. 1 |-> 0]
  <2>1. n \in [1 .. Len(none) + 1 -> 0 .. Len(none)] /\ n[1] = 0 /\ n[Len(none) + 1] = 0
    BY <1>2
  <2>2. Mapped(n, none, none, none)
    BY <1>2, <2>1 DEF Mapped
  <2>3. Mapping(none, none, none)
    BY <2>1, <2>2 DEF Mapping
  <2>4. Mapping(Append(none, e), AddSegment(none, SegmentSize), none)
    <3> HIDE DEF none
    <3> QED
      BY <1>1, <1>2, <1>3, <2>3, MappingAdd
  <2>5. Append(none, e) = ring /\ AddSegment(none, SegmentSize) = segments
    BY <1>5 DEF Init
  <2> QED
    BY <2>4, <2>5
<1>7. /\ cache = none /\ allocations = none /\ serverCache = none /\ serverSegments = none
      /\ bufferId = [b \in Buffers |-> Invalid] /\ lockInfos = [b \in Buffers |-> <<>>]
      /\ pc = "idle" /\ nextUid = 0 /\ nFailedIterations = 0 /\ terminated = FALSE
      /\ alloc = NoAllocation /\ chunkState = [c \in Chunks |-> "Unallocated"]
      /\ contents = [c \in Chunks |-> Invalid] /\ defaultSegmentSize = SegmentSize
  BY DEF Init
<1> HIDE DEF e, none
<1>8. TypeOK
  <2>1. segments \in Seq([base : Nat, size : Nat \ {0}]) /\ nChunks(segments) <= HeapSize
    BY <1>1, <1>4 DEF Segments
  <2>2. \A b \in Buffers : Len(lockInfos[b]) <= MaxLocks
    BY <1>1, <1>7
  <2>3. /\ bufferId \in [Buffers -> Ids \cup {Invalid}]
        /\ chunkState \in [Chunks -> {"Unallocated", "Allocated", "Deallocated"}]
        /\ contents \in [Chunks -> Ids \cup {Invalid}]
    BY <1>7
  <2>4. nextUid \in 0 .. MaxUid /\ nFailedIterations \in 0 .. 3 /\ defaultSegmentSize \in Nat
    BY <1>1, <1>7
  <2> QED
    BY <1>2, <1>5, <1>7, <2>1, <2>2, <2>3, <2>4 DEF TypeOK
<1>9. Shapes
  <2>1. alloc \in [first : Int, final : Int]
    BY <1>7 DEF NoAllocation, Invalid
  <2>2. lockInfos \in [Buffers -> Seq(Locks)]
    BY <1>7
  <2> QED
    BY <1>2, <1>4, <1>7, <2>1, <2>2 DEF Shapes, Busy
<1>10. Placed /\ Kept
  BY <1>2, <1>7 DEF Placed, Apart, Named, Promised, Kept
<1>11. Used
  <2>1. \A b \in Buffers, id \in Ids : ~Uses(b, id)
    <3>1. Invalid \notin Ids
      BY DEF Invalid, Ids
    <3>2. \A b \in Buffers : Range(lockInfos[b]) = {}
      BY <1>7 DEF Range
    <3> QED
      BY <1>7, <3>1, <3>2 DEF Uses, Busy
  <2>2. \A b \in Buffers : Replaced(b)
    BY <1>7 DEF Replaced, Range
  <2> QED
    BY <2>1, <2>2 DEF Used
<1>12. Sent
  BY <1>5 DEF Sent, e
<1>13. Known
  BY <1>2, <1>6, <1>7 DEF Known, Reached
<1> QED
  BY <1>4, <1>8, <1>9, <1>10, <1>11, <1>12, <1>13 DEF IInv

LEMMA StepIInv ==
  ASSUME IInv, [Next]_vars
  PROVE  IInv'
<1>1. ASSUME NEW b \in Buffers, Lock(b) \/ LockAllocates(b) \/ Unlock(b) \/ Destroy(b)
      PROVE  IInv'
  BY <1>1, LockKeeps, LockAllocatesKeeps, UnlockKeeps, DestroyKeeps
<1>2. CASE FindFirst \/ FindFree \/ FindNothing \/ Grow \/ GrowFails \/ FindTimesOut
  BY <1>2, FindFirstKeeps, FindFreeKeeps, FindNothingKeeps, GrowKeeps, GrowFailsKeeps,
     FindTimesOutKeeps
<1>3. CASE Allocate \/ FinishLock \/ LockFails
  BY <1>3, AllocateKeeps, FinishLockKeeps, LockFailsKeeps
<1>4. CASE ServerAddSeg \/ ServerAlloc \/ ServerUnlock \/ ServerDealloc
  BY <1>4, ServerAddSegKeeps, ServerAllocKeeps, ServerUnlockKeeps, ServerDeallocKeeps
<1>5. CASE UNCHANGED vars
  <2>1. UNCHANGED <<segments, defaultSegmentSize, cache, allocations, nextUid, bufferId,
                    lockInfos, pc, request, alloc, nFailedIterations, terminated, chunkState,
                    contents, ring, serverSegments, serverCache>>
    BY <1>5 DEF vars, instance, resources, call, server
  <2>2. TypeOK' /\ Shapes' /\ Layout(segments)'
    BY <2>1 DEF IInv, TypeOK, Shapes, Busy
  <2>3. Placed' /\ \A id : Settled(id)' = Settled(id) /\ Live(id)' = Live(id)
    BY <2>1, HeapStays
  <2>4. Kept'
    BY <2>1, <2>3 DEF IInv, Kept, ChunksOf
  <2>5. Used'
    BY <2>1, <2>3, UsedStays DEF IInv, Used, Busy
  <2>6. Sent' /\ Known'
    BY <2>1, <2>3 DEF IInv, Sent, Known
  <2> QED
    BY <2>2, <2>3, <2>4, <2>5, <2>6 DEF IInv
<1> QED
  BY <1>1, <1>2, <1>3, <1>4, <1>5 DEF Next

LEMMA Invariant == Spec => []IInv
<1>1. Init => IInv
  BY InitIInv
<1>2. IInv /\ [Next]_vars => IInv'
  BY StepIInv
<1> QED
  BY <1>1, <1>2, PTL DEF Spec

(* Every segment, allocation, lock and command has its type, and the       *)
(* segments never exceed the heap, however often it grows.                 *)
THEOREM HeapTypes == Spec => []TypeOK
<1>1. IInv => TypeOK
  BY DEF IInv
<1> QED
  BY <1>1, Invariant, PTL

(* Wherever findAllocation places a buffer, in a gap, behind the last      *)
(* allocation or in a new segment, the place overlaps no other buffer's    *)
(* and lies in one mapping.                                                *)
THEOREM AllocationsHold == Spec => []AllocationsDisjoint
<1>1. IInv => AllocationsDisjoint
  BY DEF IInv, Placed, Apart, Valid, AllocationsDisjoint, isValidAllocation
<1> QED
  BY <1>1, Invariant, PTL

(* Until the server has executed a buffer's Unlock, the buffer's memory    *)
(* holds what the client wrote: discarding locks, destroyed resources and  *)
(* freed deallocations never hand it to another buffer.                    *)
THEOREM HandoverHolds == Spec => []UnlockedDataIntact
<1>1. ASSUME IInv PROVE UnlockedDataIntact
  <2> SUFFICES ASSUME NEW i \in 1 .. Len(ring), ring[i].op = "Unlock"
               PROVE  /\ ring[i].arg \in DOMAIN cache
                      /\ \A c \in ChunksOf(ring[i].arg) : contents[c] = ring[i].arg
    BY DEF UnlockedDataIntact
  <2>1. ring[i] \in Range(ring)
    BY <1>1, Basics DEF Range
  <2>2. Settled(ring[i].arg) /\ ring[i].arg \in DOMAIN cache
    BY <1>1, <2>1 DEF IInv, Sent, Live, Settled
  <2> QED
    BY <1>1, <2>2 DEF IInv, Kept
<1> QED
  BY <1>1, Invariant, PTL

(* The server finds every buffer it is told about, in memory it has mapped *)
(* where the client has it: the ring brings AddSeg and Alloc in time, and  *)
(* nothing about an allocation after its Dealloc.                          *)
THEOREM ServerFinds == Spec => []ServerResolves
<1>1. ASSUME IInv PROVE ServerResolves
  <2> DEFINE h == Head(ring)
             id == h.arg
  <2> SUFFICES ASSUME ring # <<>>, h.op \in {"Unlock", "Dealloc"}
               PROVE  /\ id \in DOMAIN serverCache \cap DOMAIN cache
                      /\ serverCache[id] = cache[id]
                      /\ serverCache[id] < nChunks(serverSegments)
                      /\ \A i \in 1 .. Len(serverSegments) : serverSegments[i] = segments[i]
    BY DEF ServerResolves
  <2>1. /\ ring \in Seq(Commands) /\ h \in Range(ring)
        /\ \A x \in Range(ring) : x = h \/ x \in Range(Tail(ring))
        /\ \A y \in Range(Tail(ring)) : Precedes(ring, h, y) /\ y \in Range(ring)
    <3>1. ring \in Seq(Commands)
      BY <1>1, Basics
    <3>2. Range(Tail(ring)) \subseteq Range(ring)
      BY <3>1, AfterTail
    <3> QED
      BY <3>1, <3>2, AfterTail
  <2> HIDE DEF h
  <2>2. \A x \in Range(ring) : x.op = "Alloc" => x.arg # id
    <3>1. \A y \in Range(Tail(ring)) : Ordered(h, y)
      BY <1>1, <2>1 DEF IInv, Sent
    <3> QED
      BY <2>1, <3>1 DEF Ordered
  <2>3. id \in DOMAIN cache /\ chunkState[cache[id]] # "Deallocated"
    BY <1>1, <2>1 DEF IInv, Sent, Live, Settled
  <2>4. id \in DOMAIN serverCache /\ serverCache[id] = cache[id]
    BY <1>1, <2>2, <2>3 DEF IInv, Known
  <2>5. serverCache[id] < nChunks(serverSegments)
    BY <1>1, <2>4 DEF IInv, Known, Reached
  <2>6. \A i \in 1 .. Len(serverSegments) : serverSegments[i] = segments[i]
    <3>1. \A i \in DOMAIN serverSegments : serverSegments[i] = segments[i]
      BY <1>1 DEF IInv, Known, Mapping, Mapped
    <3> QED
      BY <1>1, <3>1, Basics
  <2> QED
    BY <2>3, <2>4, <2>5, <2>6
<1> QED
  BY <1>1, Invariant, PTL
==============================================================================
