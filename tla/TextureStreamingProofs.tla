------------------------ MODULE TextureStreamingProofs ------------------------
(***************************************************************************)
(* Proofs about texture streaming, for any textures, any number of mips,   *)
(* any size of the staging ring that an asset fits in, and any limit on    *)
(* the uploads of a frame.                                                 *)
(***************************************************************************)
EXTENDS TextureStreaming, FiniteSetTheorems, TLAPS

States == {"absent", "initialized", "queued", "vidmem"}

TexType == [state : States, canDemote : BOOLEAN, requested : 1 .. AllMips,
            version : Nat, mips : 0 .. AllMips, shows : Nat]

Slices == [from : Nat, size : Nat]

Items == [tex : Textures, mips : 1 .. AllMips, version : Nat, slice : Slices]

RunnerType == [pc : {"top", "wait", "limit", "alloc", "readers", "push", "ended"},
               tex : Textures \cup {NoTexture}, inUse : BOOLEAN, staged : Items \cup {NoItem}]

RingType == [offset : 0 .. RingBudget, writers : Nat, readers : Nat]

\* The runner has a texture or a staged item just where its loop has one
Shapes ==
  /\ tex \in [Textures -> TexType]
  /\ toProcess \subseteq Textures /\ reloads \subseteq Textures
  /\ ready \in Seq(Items) /\ uploading \in Seq(Items)
  /\ runner \in RunnerType /\ ring \in RingType
  /\ onGpu \subseteq Slices /\ IsFiniteSet(onGpu)
  /\ runner.pc \in {"limit", "alloc", "readers"} <=> runner.tex # NoTexture
  /\ runner.pc = "push" <=> runner.staged # NoItem
-----------------------------------------------------------------------------
(* Counting in lists *)

Within(list, S) == Cardinality({ i \in DOMAIN list : list[i] \in S })

LEMMA Indices ==
  ASSUME NEW list \in Seq(Items), NEW S
  PROVE  /\ DOMAIN list = 1 .. Len(list) /\ Len(list) \in Nat
         /\ IsFiniteSet({ i \in DOMAIN list : list[i] \in S })
         /\ Within(list, S) \in Nat
<1>1. DOMAIN list = 1 .. Len(list) /\ Len(list) \in Nat
  OBVIOUS
<1>2. IsFiniteSet(DOMAIN list)
  BY <1>1, FS_Interval
<1>3. IsFiniteSet({ i \in DOMAIN list : list[i] \in S })
  BY <1>2, FS_Subset
<1> QED
  BY <1>1, <1>3, FS_CardinalityType DEF Within

LEMMA WithinNothing ==
  ASSUME NEW list \in Seq(Items), NEW S
  PROVE  Within(list, S) = 0 <=> \A i \in DOMAIN list : list[i] \notin S
<1>1. Within(list, S) = 0 <=> { i \in DOMAIN list : list[i] \in S } = {}
  BY Indices, FS_EmptySet DEF Within
<1> QED
  BY <1>1

LEMMA WithinEmpty ==
  ASSUME NEW S
  PROVE  Within(<< >>, S) = 0
<1>1. << >> \in Seq(Items) /\ DOMAIN << >> = {}
  OBVIOUS
<1> QED
  BY <1>1, WithinNothing

\* Two places of a list are counted as two
LEMMA WithinTwo ==
  ASSUME NEW list \in Seq(Items), NEW S, NEW i \in DOMAIN list, NEW j \in DOMAIN list,
         i # j, list[i] \in S, list[j] \in S
  PROVE  Within(list, S) >= 2
<1> DEFINE P == { k \in DOMAIN list : list[k] \in S }
<1>1. IsFiniteSet(P) /\ {i, j} \subseteq P
  BY Indices
<1>2. Cardinality({i, j}) = 2
  <2>1. IsFiniteSet({i}) /\ Cardinality({i}) = 1
    BY FS_Singleton
  <2>2. j \notin {i} /\ {i} \cup {j} = {i, j}
    OBVIOUS
  <2>3. Cardinality({i} \cup {j}) = Cardinality({i}) + 1
    BY <2>1, <2>2, FS_AddElement
  <2>4. Cardinality({i, j}) = 1 + 1
    BY <2>1, <2>2, <2>3, Zenon
  <2> QED
    BY <2>4
<1>3. Cardinality({i, j}) <= Cardinality(P)
  BY <1>1, FS_Subset
<1> QED
  BY <1>1, <1>2, <1>3, FS_CardinalityType DEF Within

LEMMA WithinAppend ==
  ASSUME NEW list \in Seq(Items), NEW r \in Items, NEW S
  PROVE  Within(Append(list, r), S) = Within(list, S) + (IF r \in S THEN 1 ELSE 0)
<1> DEFINE P == { i \in DOMAIN list : list[i] \in S }
           A == { i \in DOMAIN Append(list, r) : Append(list, r)[i] \in S }
<1>1. DOMAIN list = 1 .. Len(list) /\ Len(list) \in Nat
      /\ IsFiniteSet(P) /\ Cardinality(P) \in Nat
  BY Indices DEF Within
<1>2. CASE r \in S
  <2>1. A = P \cup {Len(list) + 1} /\ Len(list) + 1 \notin P
    BY <1>1, <1>2
  <2>2. Cardinality(A) = Cardinality(P) + 1
    BY <1>1, <2>1, FS_AddElement
  <2> QED
    BY <1>2, <2>2 DEF Within
<1>3. CASE r \notin S
  <2>1. A = P
    BY <1>1, <1>3
  <2>2. Within(Append(list, r), S) = Within(list, S) /\ Within(list, S) \in Nat
    BY <1>1, <2>1 DEF Within
  <2> QED
    BY <1>3, <2>2
<1> QED
  BY <1>2, <1>3

LEMMA WithinTail ==
  ASSUME NEW list \in Seq(Items), list # << >>, NEW S
  PROVE  Within(list, S) = Within(Tail(list), S) + (IF Head(list) \in S THEN 1 ELSE 0)
<1> DEFINE P == { i \in DOMAIN list : list[i] \in S }
           R == { i \in DOMAIN list : i > 1 /\ list[i] \in S }
           T == { i \in DOMAIN Tail(list) : Tail(list)[i] \in S }
           Shift == [i \in T |-> i + 1]
<1>1. /\ DOMAIN list = 1 .. Len(list) /\ Len(list) \in Nat \ {0} /\ Head(list) = list[1]
      /\ Tail(list) \in Seq(Items)
  OBVIOUS
<1>2. /\ DOMAIN Tail(list) = 1 .. Len(list) - 1
      /\ \A i \in 1 .. Len(list) - 1 : Tail(list)[i] = list[i + 1]
  BY <1>1
<1>3. IsFiniteSet(R) /\ IsFiniteSet(T) /\ Cardinality(T) \in Nat
  <2>1. IsFiniteSet(P) /\ R \subseteq P
    BY Indices
  <2>2. IsFiniteSet(T) /\ Cardinality(T) \in Nat
    BY <1>1, Indices DEF Within
  <2> QED
    BY <2>1, <2>2, FS_Subset
<1>4. Shift \in Bijection(T, R)
  <2>1. \A i \in T : i + 1 \in R
    BY <1>1, <1>2
  <2>2. \A k \in R : k - 1 \in T /\ k = (k - 1) + 1
    BY <1>1, <1>2
  <2>3. T \subseteq Int
    BY <1>1, <1>2
  <2>4. Shift \in [T -> R]
    BY <2>1
  <2>5. \A a, b \in T : Shift[a] = Shift[b] => a = b
    BY <2>3
  <2>6. \A k \in R : \E i \in T : Shift[i] = k
    BY <2>2
  <2> HIDE DEF T, R, Shift
  <2> QED
    BY <2>4, <2>5, <2>6 DEF Bijection, Injection, Surjection, IsInjective
<1>5. Cardinality(T) = Cardinality(R)
  BY <1>3, <1>4, FS_Bijection DEF ExistsBijection
<1>6. CASE Head(list) \in S
  <2>1. P = R \cup {1} /\ 1 \notin R
    BY <1>1, <1>6
  <2>2. Cardinality(P) = Cardinality(R) + 1
    BY <2>1, <1>3, FS_AddElement
  <2> QED
    BY <2>2, <1>5, <1>6 DEF Within
<1>7. CASE Head(list) \notin S
  <2>1. P = R
    BY <1>1, <1>7
  <2>2. Within(list, S) = Within(Tail(list), S) /\ Within(Tail(list), S) \in Nat
    BY <2>1, <1>3, <1>5 DEF Within
  <2> QED
    BY <2>2, <1>7
<1> QED
  BY <1>6, <1>7

\* The items of a texture
Of(t) == { r \in Items : r.tex = t }

LEMMA InIsWithin ==
  ASSUME NEW list \in Seq(Items), NEW t
  PROVE  In(list, t) = Within(list, Of(t)) /\ In(list, t) \in Nat
<1>1. \A i \in DOMAIN list : list[i] \in Of(t) <=> list[i].tex = t
  BY DEF Of
<1>2. { i \in DOMAIN list : list[i] \in Of(t) } = { i \in DOMAIN list : list[i].tex = t }
  BY <1>1
<1>3. In(list, t) = Within(list, Of(t))
  BY <1>2 DEF In, Within
<1> QED
  BY <1>3, Indices
-----------------------------------------------------------------------------
(* Where a texture is *)

\* Pending, of explicit places
PendingAt(queue, held, staged, list, last, t) ==
  (IF t \in queue THEN 1 ELSE 0) + (IF held = t THEN 1 ELSE 0)
  + (IF staged = t THEN 1 ELSE 0) + In(list, t) + In(last, t)

\* How a texture's part in lists changes as they do
LEMMA InMoves ==
  ASSUME NEW list \in Seq(Items), NEW last \in Seq(Items), NEW t
  PROVE  /\ In(list, t) \in Nat /\ In(last, t) \in Nat /\ In(<< >>, t) = 0
         /\ \A r \in Items : In(Append(list, r), t) = In(list, t) + (IF r.tex = t THEN 1 ELSE 0)
         /\ last # << >> =>
              /\ In(last, t) = In(Tail(last), t) + (IF Head(last).tex = t THEN 1 ELSE 0)
              /\ In(Tail(last), t) \in Nat
         /\ (\E i \in DOMAIN list : list[i].tex = t) => In(list, t) # 0
         /\ (\E i \in DOMAIN last : last[i].tex = t) => In(last, t) # 0
<1>1. In(list, t) \in Nat /\ In(last, t) \in Nat /\ << >> \in Seq(Items)
  BY InIsWithin
<1>2. In(<< >>, t) = 0
  BY <1>1, InIsWithin, WithinEmpty
<1>3. \A r \in Items : In(Append(list, r), t) = In(list, t) + (IF r.tex = t THEN 1 ELSE 0)
  <2> SUFFICES ASSUME NEW r \in Items
               PROVE  In(Append(list, r), t) = In(list, t) + (IF r.tex = t THEN 1 ELSE 0)
    OBVIOUS
  <2>1. Append(list, r) \in Seq(Items) /\ (r \in Of(t) <=> r.tex = t)
    BY DEF Of
  <2>2. In(list, t) = Within(list, Of(t)) /\ In(Append(list, r), t) = Within(Append(list, r), Of(t))
    BY <2>1, InIsWithin
  <2>3. Within(Append(list, r), Of(t)) = Within(list, Of(t)) + (IF r \in Of(t) THEN 1 ELSE 0)
    BY WithinAppend
  <2> QED
    BY <2>1, <2>2, <2>3
<1>4. last # << >> => In(last, t) = In(Tail(last), t) + (IF Head(last).tex = t THEN 1 ELSE 0)
                      /\ In(Tail(last), t) \in Nat
  <2> SUFFICES ASSUME last # << >>
               PROVE  In(last, t) = In(Tail(last), t) + (IF Head(last).tex = t THEN 1 ELSE 0)
                      /\ In(Tail(last), t) \in Nat
    OBVIOUS
  <2>1. Tail(last) \in Seq(Items) /\ (Head(last) \in Of(t) <=> Head(last).tex = t)
    BY DEF Of
  <2>2. In(last, t) = Within(last, Of(t)) /\ In(Tail(last), t) = Within(Tail(last), Of(t))
        /\ In(Tail(last), t) \in Nat
    BY <2>1, InIsWithin
  <2>3. Within(last, Of(t)) = Within(Tail(last), Of(t)) + (IF Head(last) \in Of(t) THEN 1 ELSE 0)
    BY WithinTail
  <2> QED
    BY <2>1, <2>2, <2>3
<1>5. /\ (\E i \in DOMAIN list : list[i].tex = t) => In(list, t) # 0
      /\ (\E i \in DOMAIN last : last[i].tex = t) => In(last, t) # 0
  <2>1. ASSUME NEW l \in Seq(Items), NEW i \in DOMAIN l, l[i].tex = t
        PROVE  In(l, t) # 0
    <3>1. l[i] \in Of(t)
      BY <2>1 DEF Of
    <3>2. Within(l, Of(t)) # 0
      BY <3>1, WithinNothing
    <3> QED
      BY <3>2, InIsWithin
  <2> QED
    BY <2>1
<1> QED
  BY <1>1, <1>2, <1>3, <1>4, <1>5

LEMMA PendingType ==
  ASSUME NEW queue, NEW held, NEW staged, NEW list \in Seq(Items), NEW last \in Seq(Items), NEW t
  PROVE  PendingAt(queue, held, staged, list, last, t) \in Nat
  BY InMoves DEF PendingAt

\* A texture that is somewhere is pending
LEMMA PendingThere ==
  ASSUME NEW queue, NEW held, NEW staged, NEW list \in Seq(Items), NEW last \in Seq(Items), NEW t,
         \/ t \in queue \/ held = t \/ staged = t
         \/ \E i \in DOMAIN list : list[i].tex = t
         \/ \E i \in DOMAIN last : last[i].tex = t
  PROVE  PendingAt(queue, held, staged, list, last, t) >= 1
<1>1. In(list, t) \in Nat /\ In(last, t) \in Nat
  BY InMoves
<1>2. (\E i \in DOMAIN list : list[i].tex = t) => In(list, t) # 0
  BY InMoves
<1>3. (\E i \in DOMAIN last : last[i].tex = t) => In(last, t) # 0
  BY InMoves
<1>4. t \in queue \/ held = t \/ staged = t \/ In(list, t) # 0 \/ In(last, t) # 0
  BY <1>2, <1>3
<1>5. t \notin queue /\ held # t /\ staged # t => In(list, t) + In(last, t) >= 1
  BY <1>1, <1>4
<1> QED
  BY <1>1, <1>5 DEF PendingAt

\* queueAdd, of an asynchronous and of a synchronous load
LEMMA PendingQueued ==
  ASSUME NEW queue, NEW held, NEW staged, NEW list \in Seq(Items), NEW last \in Seq(Items),
         NEW t, NEW u, u \notin queue
  PROVE  PendingAt(queue \cup {u}, held, staged, list, last, t) =
           PendingAt(queue, held, staged, list, last, t) + (IF u = t THEN 1 ELSE 0)
<1>1. In(list, t) \in Nat /\ In(last, t) \in Nat
  BY InMoves
<1> QED
  BY <1>1 DEF PendingAt

LEMMA PendingAppended ==
  ASSUME NEW queue, NEW held, NEW staged, NEW list \in Seq(Items), NEW last \in Seq(Items),
         NEW t, NEW r \in Items
  PROVE  PendingAt(queue, held, staged, Append(list, r), last, t) =
           PendingAt(queue, held, staged, list, last, t) + (IF r.tex = t THEN 1 ELSE 0)
<1>1. /\ In(list, t) \in Nat /\ In(last, t) \in Nat
      /\ In(Append(list, r), t) = In(list, t) + (IF r.tex = t THEN 1 ELSE 0)
  BY InMoves
<1> QED
  BY <1>1 DEF PendingAt

\* The runner takes a texture from the queue, stages it and pushes it
LEMMA PendingTaken ==
  ASSUME NEW queue, NEW staged, NEW list \in Seq(Items), NEW last \in Seq(Items),
         NEW t \in Textures, NEW u \in queue
  PROVE  PendingAt(queue \ {u}, u, staged, list, last, t) =
           PendingAt(queue, NoTexture, staged, list, last, t)
<1>1. In(list, t) \in Nat /\ In(last, t) \in Nat /\ NoTexture # t
  BY InMoves, SizeAssumption
<1> QED
  BY <1>1 DEF PendingAt

LEMMA PendingStaged ==
  ASSUME NEW queue, NEW held, NEW list \in Seq(Items), NEW last \in Seq(Items), NEW t \in Textures
  PROVE  PendingAt(queue, NoTexture, held, list, last, t) =
           PendingAt(queue, held, NoTexture, list, last, t)
<1>1. In(list, t) \in Nat /\ In(last, t) \in Nat /\ NoTexture # t
  BY InMoves, SizeAssumption
<1> QED
  BY <1>1 DEF PendingAt

LEMMA PendingPushed ==
  ASSUME NEW queue, NEW held, NEW list \in Seq(Items), NEW last \in Seq(Items), NEW t \in Textures,
         NEW r \in Items
  PROVE  PendingAt(queue, held, NoTexture, Append(list, r), last, t) =
           PendingAt(queue, held, r.tex, list, last, t)
<1>1. /\ In(list, t) \in Nat /\ In(last, t) \in Nat /\ NoTexture # t
      /\ In(Append(list, r), t) = In(list, t) + (IF r.tex = t THEN 1 ELSE 0)
  BY InMoves, SizeAssumption
<1> QED
  BY <1>1 DEF PendingAt

\* The render thread retrieves what is ready, and uploads it
LEMMA PendingRetrieved ==
  ASSUME NEW queue, NEW held, NEW staged, NEW list \in Seq(Items), NEW t
  PROVE  PendingAt(queue, held, staged, << >>, list, t) =
           PendingAt(queue, held, staged, list, << >>, t)
<1>1. In(list, t) \in Nat /\ In(<< >>, t) = 0
  BY InMoves
<1> QED
  BY <1>1 DEF PendingAt

LEMMA PendingUploaded ==
  ASSUME NEW queue, NEW held, NEW staged, NEW list \in Seq(Items), NEW last \in Seq(Items),
         NEW t, last # << >>
  PROVE  PendingAt(queue, held, staged, list, last, t) =
           PendingAt(queue, held, staged, list, Tail(last), t)
             + (IF Head(last).tex = t THEN 1 ELSE 0)
<1>1. /\ In(list, t) \in Nat /\ In(Tail(last), t) \in Nat
      /\ In(last, t) = In(Tail(last), t) + (IF Head(last).tex = t THEN 1 ELSE 0)
  BY InMoves
<1> QED
  BY <1>1 DEF PendingAt
-----------------------------------------------------------------------------
(* The inductive invariant *)

\* An item is staged
Has(r) ==
  \/ r = runner.staged
  \/ \E i \in DOMAIN ready : ready[i] = r
  \/ \E i \in DOMAIN uploading : uploading[i] = r

\* What is staged was read from the newest version of its asset, or too early
Newest ==
  /\ \A r \in Items : Has(r) => r.version \in Read(r.tex, tex[r.tex].version) \/ r.tex \in missed
  /\ ShowsNewestAsset

Sliced == { r \in Items : r.slice # NoSlice }

\* How many staged items keep a slice of the ring
WritersAt(staged, list, last) ==
  (IF staged.slice # NoSlice THEN 1 ELSE 0) + Within(list, Sliced) + Within(last, Sliced)

Below(s, offset) == s.size >= 1 /\ s.from + s.size <= offset

\* The slices that are in use are below the offset, and the counts say how many
\* they are; while the runner believes that nobody writes, nobody does.
Counts ==
  /\ \A r \in Items : Has(r) => r.slice = NoSlice \/ Below(r.slice, ring.offset)
  /\ \A s \in onGpu : Below(s, ring.offset)
  /\ ring.writers = WritersAt(runner.staged, ready, uploading)
  /\ ring.readers = Cardinality(onGpu)
  /\ runner.pc = "readers" /\ ~runner.inUse => ring.writers = 0

Apart ==
  /\ \A r, u \in Items : Has(r) /\ Has(u) /\ r # u => Disjoint(r.slice, u.slice)
  /\ \A r \in Items : Has(r) => \A s \in onGpu : Disjoint(r.slice, s)
  /\ \A s, u \in onGpu : s # u => Disjoint(s, u)

IInv == Shapes /\ QueuedIsPending /\ Newest /\ Counts /\ Apart

LEMMA Places ==
  ASSUME Shapes, NEW t \in Textures
  PROVE  /\ Pending(t) = PendingAt(toProcess, runner.tex, runner.staged.tex, ready, uploading, t)
         /\ Pending(t) \in Nat
         /\ \A r \in Items : Has(r) /\ r.tex = t => Pending(t) >= 1
<1>1. ready \in Seq(Items) /\ uploading \in Seq(Items)
  BY DEF Shapes
<1>2. Pending(t) = PendingAt(toProcess, runner.tex, runner.staged.tex, ready, uploading, t)
  BY DEF Pending, PendingAt
<1>3. ASSUME NEW r \in Items, Has(r), r.tex = t
      PROVE  \/ runner.staged.tex = t
             \/ \E i \in DOMAIN ready : ready[i].tex = t
             \/ \E i \in DOMAIN uploading : uploading[i].tex = t
  BY <1>3 DEF Has
<1>4. PendingAt(toProcess, runner.tex, runner.staged.tex, ready, uploading, t) \in Nat
  BY <1>1, PendingType
<1>5. ASSUME NEW r \in Items, Has(r), r.tex = t
      PROVE  PendingAt(toProcess, runner.tex, runner.staged.tex, ready, uploading, t) >= 1
  BY <1>1, <1>3, <1>5, PendingThere
<1> QED
  BY <1>2, <1>4, <1>5

\* A texture with a staged item is queued
LEMMA ItemsAreQueued ==
  ASSUME Shapes, QueuedIsPending, NEW r \in Items, Has(r)
  PROVE  r.tex \in Textures /\ tex[r.tex].state = "queued"
<1>1. r.tex \in Textures
  BY DEF Items
<1>2. Pending(r.tex) >= 1
  BY <1>1, Places
<1> QED
  BY <1>1, <1>2 DEF QueuedIsPending

LEMMA NoSliceIsApart ==
  ASSUME NEW s \in Slices
  PROVE  Disjoint(s, NoSlice) /\ Disjoint(NoSlice, s)
  BY DEF Disjoint, NoSlice, Slices

\* What leaves the slices alone, whatever becomes of items that have none
LEMMA SlicesSame ==
  ASSUME Shapes, Counts, Apart, UNCHANGED <<ring, onGpu>>,
         WritersAt(runner.staged, ready, uploading)' = WritersAt(runner.staged, ready, uploading),
         \A r \in Items : Has(r)' => Has(r) \/ r.slice = NoSlice,
         runner'.pc = "readers" /\ ~runner'.inUse =>
           (runner.pc = "readers" /\ ~runner.inUse) \/ ring.writers = 0
  PROVE  Counts' /\ Apart'
<1>1. Counts'
  BY DEF Counts
<1>2. Apart'
  <2>1. \A r \in Items : r.slice \in Slices
    BY DEF Items
  <2>2. \A r, u \in Items : Has(r)' /\ Has(u)' /\ r # u => Disjoint(r.slice, u.slice)
    BY <2>1, NoSliceIsApart DEF Apart
  <2>3. \A r \in Items : Has(r)' => \A s \in onGpu : Disjoint(r.slice, s)
    BY <2>1, NoSliceIsApart DEF Apart, Shapes
  <2> QED
    BY <2>2, <2>3 DEF Apart
<1> QED
  BY <1>1, <1>2
-----------------------------------------------------------------------------
(* The threads that schedule loads *)

LEMMA ReadsVersions ==
  ASSUME NEW t, NEW v \in Nat
  PROVE  v \in Read(t, v) /\ Read(t, v) \subseteq Nat
  BY DEF Read, Unread

\* scheduleTextureLoad, of a texture that keeps what it shows: with the version it
\* has, or as a hot reload with another one
LEMMA ScheduleKeeps ==
  ASSUME IInv, NEW t \in Textures, NEW x \in TexType, NEW async \in BOOLEAN, NEW force \in BOOLEAN,
         ScheduleTextureLoad(t, x, async, force),
         UNCHANGED <<uploading, runner, ring, onGpu>>, reloads' \subseteq Textures,
         x.mips = tex[t].mips /\ x.shows = tex[t].shows,
         x.state = tex[t].state \/ (tex[t].state = "absent" /\ x.state = "initialized"),
         \/ x.version = tex[t].version /\ missed' = missed
         \/ /\ force /\ uploading = << >>
            /\ missed' = IF x.state = "queued"
                         THEN missed \cup ({t} \cap { u \in Textures : Staged(u) }) ELSE missed \ {t}
  PROVE  IInv'
<1> DEFINE y == [x EXCEPT !.state = "queued"]
           Step(r) ==
             \/ /\ x.state = "queued" \/ (~force /\ x.state = "vidmem")
                /\ tex' = [tex EXCEPT ![t] = x] /\ UNCHANGED <<toProcess, ready>>
             \/ /\ x.state # "queued" /\ tex' = [tex EXCEPT ![t] = y]
                /\ \/ toProcess' = toProcess \cup {t} /\ ready' = ready
                   \/ toProcess' = toProcess /\ ready' = Append(ready, r)
<1>fields. /\ y \in TexType /\ y.state = "queued" /\ y.version = x.version /\ y.shows = x.shows
      /\ y.version \in Nat /\ y.requested \in 1 .. AllMips
  BY DEF TexType, States
<1>items. /\ \A r \in StagedNow(t, y) : r \in Items /\ r.tex = t /\ r.slice = NoSlice
                                    /\ r.version \in Read(t, x.version)
      /\ \E r \in StagedNow(t, y) : TRUE
  <2> HIDE DEF y
  <2>1. y.version \in Read(t, y.version) /\ Read(t, y.version) \subseteq Nat
    BY <1>fields, ReadsVersions
  <2>2. [tex |-> t, mips |-> y.requested, version |-> y.version, slice |-> NoSlice]
          \in StagedNow(t, y)
    BY <2>1 DEF StagedNow
  <2>3. ASSUME NEW r \in StagedNow(t, y)
        PROVE  /\ r \in Items /\ r.tex = t /\ r.slice = NoSlice
               /\ r.version \in Read(t, x.version)
    <3>1. /\ r \in [tex : {t}, mips : {y.requested}, version : Read(t, y.version),
                     slice : {NoSlice}]
          /\ NoSlice \in Slices
      BY DEF StagedNow, Slices, NoSlice
    <3>2. r.tex = t /\ r.mips = y.requested /\ r.version \in Read(t, y.version) /\ r.slice = NoSlice
      BY <3>1
    <3>3. r \in Items
      BY <1>fields, <2>1, <3>1, <3>2 DEF Items
    <3> QED
      BY <1>fields, <3>2, <3>3
  <2> QED
    BY <2>2, <2>3
<1>staged. \E r \in StagedNow(t, y) : Step(r)
  <2>1. CASE /\ x.state = "queued" \/ (~force /\ x.state = "vidmem")
             /\ tex' = [tex EXCEPT ![t] = x] /\ UNCHANGED <<toProcess, ready>>
    BY <1>items, <2>1
  <2>2. CASE x.state # "queued" /\ QueueAdd(t, y, async)
    BY <1>items, <2>2 DEF QueueAdd
  <2> QED
    BY <2>1, <2>2 DEF ScheduleTextureLoad
<1>pick. PICK r0 \in StagedNow(t, y) : Step(r0)
  BY <1>staged
<1>1. /\ y \in TexType /\ y.state = "queued" /\ y.version = x.version /\ y.shows = x.shows
      /\ r0 \in Items /\ r0.tex = t /\ r0.slice = NoSlice
      /\ r0.version \in Read(t, x.version)
  BY <1>fields, <1>items
<1>2. Step(r0)
  BY <1>pick
<1> HIDE DEF y
<1> DEFINE z == tex'[t]
<1>3. /\ tex' \in [Textures -> TexType] /\ \A u \in Textures : u # t => tex'[u] = tex[u]
      /\ z = x \/ z = y
      /\ tex \in [Textures -> TexType]
  BY <1>1, <1>2 DEF IInv, Shapes
<1>4. Shapes'
  <2>1. ready \in Seq(Items) /\ toProcess \subseteq Textures /\ Append(ready, r0) \in Seq(Items)
    BY <1>1 DEF IInv, Shapes
  <2>2. ready' \in Seq(Items) /\ toProcess' \subseteq Textures
    BY <1>2, <2>1
  <2> QED
    BY <1>3, <2>2 DEF IInv, Shapes
<1>5. \A r \in Items : Has(r)' => Has(r) \/ (r = r0 /\ x.state # "queued")
  <2>1. \A i \in DOMAIN ready' : (i \in DOMAIN ready /\ ready'[i] = ready[i])
                                 \/ (ready'[i] = r0 /\ x.state # "queued")
    BY <1>1, <1>2 DEF IInv, Shapes
  <2> QED
    BY <2>1 DEF Has
<1>6. QueuedIsPending'
  <2>1. /\ ready \in Seq(Items) /\ uploading \in Seq(Items) /\ toProcess \subseteq Textures
    BY DEF IInv, Shapes
  <2> SUFFICES ASSUME NEW u \in Textures
               PROVE  Pending(u)' = IF tex'[u].state = "queued" THEN 1 ELSE 0
    BY DEF QueuedIsPending
  <2>2. Pending(u) = IF tex[u].state = "queued" THEN 1 ELSE 0
    BY DEF IInv, QueuedIsPending
  <2>3. Pending(u)' = PendingAt(toProcess', runner.tex, runner.staged.tex, ready', uploading, u)
    BY DEF Pending, PendingAt
  <2>4. Pending(u) = PendingAt(toProcess, runner.tex, runner.staged.tex, ready, uploading, u)
    BY DEF Pending, PendingAt
  <2>5. CASE UNCHANGED <<toProcess, ready>> /\ tex'[t].state = tex[t].state
    BY <1>3, <2>2, <2>3, <2>4, <2>5
  <2>6. CASE /\ tex[t].state # "queued" /\ tex'[t].state = "queued"
             /\ \/ toProcess' = toProcess \cup {t} /\ ready' = ready
                \/ toProcess' = toProcess /\ ready' = Append(ready, r0)
    <3>1. t \notin toProcess
      <4>1. PendingAt(toProcess, runner.tex, runner.staged.tex, ready, uploading, t) = 0
        BY <2>6 DEF IInv, QueuedIsPending, Pending, PendingAt
      <4>2. t \in toProcess =>
              PendingAt(toProcess, runner.tex, runner.staged.tex, ready, uploading, t) >= 1
        BY <2>1, PendingThere
      <4> QED
        BY <4>1, <4>2
    <3>2. Pending(u)' = Pending(u) + (IF t = u THEN 1 ELSE 0)
      <4>1. CASE toProcess' = toProcess \cup {t} /\ ready' = ready
        BY <2>1, <2>3, <2>4, <3>1, <4>1, PendingQueued
      <4>2. CASE toProcess' = toProcess /\ ready' = Append(ready, r0)
        BY <1>1, <2>1, <2>3, <2>4, <4>2, PendingAppended
      <4> QED
        BY <2>6, <4>1, <4>2
    <3> QED
      BY <1>3, <2>2, <2>6, <3>2
  <2> QED
    BY <1>1, <1>2, <1>3, <2>5, <2>6
<1>7. Newest'
  <2>1. \A u \in Textures : u # t => (u \in missed <=> u \in missed')
    OBVIOUS
  <2>2. ASSUME NEW r \in Items, Has(r)'
        PROVE  r.version \in Read(r.tex, tex'[r.tex].version) \/ r.tex \in missed'
    <3>1. CASE r = r0 /\ x.state # "queued"
      BY <1>1, <1>3, <3>1
    <3>2. CASE Has(r)
      <4>1. r.tex \in Textures /\ tex[r.tex].state = "queued"
            /\ (r.version \in Read(r.tex, tex[r.tex].version) \/ r.tex \in missed)
        BY <3>2, ItemsAreQueued DEF IInv, Newest
      <4>2. CASE r.tex # t
        BY <1>3, <2>1, <4>1, <4>2
      <4>3. CASE r.tex = t /\ x.version = tex[t].version /\ missed' = missed
        BY <1>1, <1>3, <4>1, <4>3
      <4>4. CASE r.tex = t /\ uploading = << >> /\ x.state = "queued"
                 /\ missed' = missed \cup ({t} \cap { u \in Textures : Staged(u) })
        <5>1. Staged(t)
          BY <3>2, <4>4 DEF Has, Staged
        <5> QED
          BY <4>4, <5>1
      <4> QED
        BY <4>1, <4>2, <4>3, <4>4
    <3> QED
      BY <1>5, <2>2, <3>1, <3>2
  <2>3. ASSUME NEW u \in Textures, tex'[u].state = "vidmem"
        PROVE  tex'[u].shows \in Read(u, tex'[u].version) \/ u \in missed'
    <3>1. CASE u # t
      BY <1>3, <2>1, <2>3, <3>1 DEF IInv, Newest, ShowsNewestAsset
    <3>2. CASE u = t
      <4>1. tex' = [tex EXCEPT ![t] = x] /\ x.state = "vidmem" /\ ~force
        BY <1>1, <1>2, <1>3, <2>3, <3>2
      <4> QED
        BY <1>3, <3>2, <4>1 DEF IInv, Newest, ShowsNewestAsset
    <3> QED
      BY <3>1, <3>2
  <2> QED
    BY <2>2, <2>3 DEF Newest, ShowsNewestAsset
<1>8. Counts' /\ Apart'
  <2>1. Within(ready', Sliced) = Within(ready, Sliced)
    <3>1. r0 \notin Sliced
      BY <1>1 DEF Sliced
    <3>2. ready \in Seq(Items) /\ Within(ready, Sliced) \in Nat
      BY Indices DEF IInv, Shapes
    <3>3. Within(Append(ready, r0), Sliced) = Within(ready, Sliced)
      BY <1>1, <3>1, <3>2, WithinAppend
    <3> QED
      BY <1>2, <3>3
  <2>2. WritersAt(runner.staged, ready, uploading)' = WritersAt(runner.staged, ready, uploading)
    BY <2>1 DEF WritersAt
  <2>3. \A r \in Items : Has(r)' => Has(r) \/ r.slice = NoSlice
    BY <1>1, <1>5
  <2> QED
    BY <2>2, <2>3, SlicesSame DEF IInv
<1> QED
  BY <1>4, <1>6, <1>7, <1>8 DEF IInv

LEMMA RequestedIsRange ==
  ASSUME NEW x \in TexType, NEW n \in 0 .. AllMips
  PROVE  /\ Requested(x, n) \in 1 .. AllMips
         /\ [x EXCEPT !.requested = Requested(x, n)] \in TexType
         /\ [x EXCEPT !.requested = AllMips] \in TexType
<1>1. Requested(x, n) \in 1 .. AllMips /\ AllMips \in 1 .. AllMips
  BY SizeAssumption DEF Requested, TexType
<1> QED
  BY <1>1 DEF TexType

LEMMA PreloadKeeps ==
  ASSUME IInv, NEW t \in Textures, NEW forceLoad \in BOOLEAN, Preload(t, forceLoad)
  PROVE  IInv'
<1> DEFINE x == [tex[t] EXCEPT !.canDemote = ~forceLoad, !.state = "initialized"]
           y == [x EXCEPT !.requested = Requested(x, 1)]
<1>1. tex[t] \in TexType /\ x \in TexType /\ 1 \in 0 .. AllMips
  <2>1. tex[t] \in TexType
    BY DEF IInv, Shapes
  <2>2. x \in TexType
    BY <2>1 DEF TexType, States
  <2> QED
    BY <2>1, <2>2, SizeAssumption
<1>2. y \in TexType
  BY <1>1, RequestedIsRange
<1>3. /\ tex[t].state = "absent" /\ ScheduleTextureLoad(t, y, FALSE, FALSE)
      /\ UNCHANGED <<uploading, runner, ring, onGpu, reloads, missed>>
  BY DEF Preload
<1>4. /\ y.mips = tex[t].mips /\ y.shows = tex[t].shows /\ y.version = tex[t].version
      /\ y.state = "initialized"
  BY DEF IInv, Shapes, TexType
<1>5. reloads' \subseteq Textures
  BY <1>3 DEF IInv, Shapes
<1> HIDE DEF y
<1> QED
  BY <1>2, <1>3, <1>4, <1>5, ScheduleKeeps

LEMMA CollectKeeps ==
  ASSUME IInv, NEW t \in Textures, NEW n \in 0 .. AllMips, Collect(t, n)
  PROVE  IInv'
<1> DEFINE y == [tex[t] EXCEPT !.requested = Requested(tex[t], n)]
<1>1. tex[t] \in TexType
  BY DEF IInv, Shapes
<1>2. y \in TexType
  BY <1>1, RequestedIsRange
<1>3. /\ ScheduleTextureLoad(t, y, TRUE, FALSE)
      /\ UNCHANGED <<uploading, runner, ring, onGpu, reloads, missed>>
  BY DEF Collect
<1>4. /\ y.mips = tex[t].mips /\ y.shows = tex[t].shows /\ y.version = tex[t].version
      /\ y.state = tex[t].state
  BY <1>1 DEF TexType
<1>5. reloads' \subseteq Textures
  BY <1>3 DEF IInv, Shapes
<1> HIDE DEF y
<1> QED
  BY <1>2, <1>3, <1>4, <1>5, ScheduleKeeps

LEMMA PreserveKeeps ==
  ASSUME IInv, NEW t \in Textures, Preserve(t)
  PROVE  IInv'
<1> DEFINE x == [tex[t] EXCEPT !.canDemote = FALSE]
           y == [x EXCEPT !.requested = AllMips]
<1>1. tex[t] \in TexType /\ x \in TexType /\ 0 \in 0 .. AllMips
  <2>1. tex[t] \in TexType
    BY DEF IInv, Shapes
  <2>2. x \in TexType
    BY <2>1 DEF TexType
  <2> QED
    BY <2>1, <2>2, SizeAssumption
<1>2. y \in TexType
  BY <1>1, RequestedIsRange
<1>3. /\ ScheduleTextureLoad(t, y, FALSE, FALSE)
      /\ UNCHANGED <<uploading, runner, ring, onGpu, reloads, missed>>
  BY DEF Preserve
<1>4. /\ y.mips = tex[t].mips /\ y.shows = tex[t].shows /\ y.version = tex[t].version
      /\ y.state = tex[t].state
  BY <1>1 DEF TexType
<1>5. reloads' \subseteq Textures
  BY <1>3 DEF IInv, Shapes
<1> HIDE DEF y
<1> QED
  BY <1>2, <1>3, <1>4, <1>5, ScheduleKeeps

LEMMA DemoteKeeps ==
  ASSUME IInv, NEW t \in Textures, Demote(t)
  PROVE  IInv'
<1> DEFINE y == [tex[t] EXCEPT !.requested = Requested(tex[t], 0)]
<1>1. tex[t] \in TexType /\ 0 \in 0 .. AllMips
  BY SizeAssumption DEF IInv, Shapes
<1>2. y \in TexType
  BY <1>1, RequestedIsRange
<1>3. /\ ScheduleTextureLoad(t, y, FALSE, FALSE)
      /\ UNCHANGED <<uploading, runner, ring, onGpu, reloads, missed>>
  BY DEF Demote
<1>4. /\ y.mips = tex[t].mips /\ y.shows = tex[t].shows /\ y.version = tex[t].version
      /\ y.state = tex[t].state
  BY <1>1 DEF TexType
<1>5. reloads' \subseteq Textures
  BY <1>3 DEF IInv, Shapes
<1> HIDE DEF y
<1> QED
  BY <1>2, <1>3, <1>4, <1>5, ScheduleKeeps

LEMMA HotReloadKeeps ==
  ASSUME IInv, NEW t \in Textures, HotReload(t)
  PROVE  IInv'
<1> DEFINE x == [tex[t] EXCEPT !.version = @ + 1]
           y == [x EXCEPT !.requested = Requested(x, 0)]
<1>1. tex[t] \in TexType /\ x \in TexType /\ 0 \in 0 .. AllMips
  <2>1. tex[t] \in TexType
    BY DEF IInv, Shapes
  <2>2. x \in TexType
    BY <2>1 DEF TexType
  <2> QED
    BY <2>1, <2>2, SizeAssumption
<1>2. y \in TexType
  BY <1>1, RequestedIsRange
<1>3. /\ ScheduleTextureLoad(t, y, FALSE, TRUE) /\ uploading = << >>
      /\ reloads' = reloads \ {t}
      /\ missed' = IF x.state = "queued"
                   THEN missed \cup ({t} \cap { u \in Textures : Staged(u) }) ELSE missed \ {t}
      /\ UNCHANGED <<uploading, runner, ring, onGpu>>
  BY DEF HotReload, Reload, Rendering
<1>4. /\ y.mips = tex[t].mips /\ y.shows = tex[t].shows
      /\ y.state = tex[t].state /\ y.state = x.state
  BY <1>1 DEF TexType
<1>5. reloads' \subseteq Textures
  BY <1>3 DEF IInv, Shapes
<1>6. missed' = IF y.state = "queued"
                THEN missed \cup ({t} \cap { u \in Textures : Staged(u) }) ELSE missed \ {t}
  BY <1>3, <1>4
<1>7. ScheduleTextureLoad(t, y, FALSE, TRUE) /\ uploading = << >>
      /\ UNCHANGED <<uploading, runner, ring, onGpu>>
  BY <1>3
<1> HIDE DEF y, x
<1> QED
  BY <1>2, <1>4, <1>5, <1>6, <1>7, ScheduleKeeps
-----------------------------------------------------------------------------
(* The steps that leave the textures where they are *)

\* A texture is pending as before, and so are the items and their slices
LEMMA PlacesSame ==
  ASSUME IInv, Shapes', UNCHANGED <<tex, ring, onGpu, missed>>,
         \A t \in Textures : Pending(t)' = Pending(t),
         \A r \in Items : Has(r)' => Has(r),
         WritersAt(runner.staged, ready, uploading)' = WritersAt(runner.staged, ready, uploading),
         runner'.pc = "readers" /\ ~runner'.inUse =>
           (runner.pc = "readers" /\ ~runner.inUse) \/ ring.writers = 0
  PROVE  IInv'
<1>1. QueuedIsPending'
  BY DEF IInv, QueuedIsPending
<1>2. Newest'
  BY DEF IInv, Newest, ShowsNewestAsset
<1>3. Counts' /\ Apart'
  BY SlicesSame DEF IInv
<1> QED
  BY <1>1, <1>2, <1>3 DEF IInv

LEMMA RequestHotReloadKeeps ==
  ASSUME IInv, NEW t \in Textures, RequestHotReload(t)
  PROVE  IInv'
<1>1. UNCHANGED <<tex, toProcess, ready, uploading, runner, ring, onGpu, missed>>
      /\ reloads' = reloads \cup {t}
  BY DEF RequestHotReload
<1>2. Shapes'
  BY <1>1 DEF IInv, Shapes
<1> QED
  BY <1>1, <1>2, PlacesSame DEF Pending, Has, WritersAt

LEMMA ShutdownKeeps ==
  ASSUME IInv, Shutdown
  PROVE  IInv'
<1>1. UNCHANGED <<tex, toProcess, ready, uploading, runner, ring, onGpu, reloads, missed>>
  BY DEF Shutdown
<1>2. Shapes'
  BY <1>1 DEF IInv, Shapes
<1> QED
  BY <1>1, <1>2, PlacesSame DEF Pending, Has, WritersAt

\* What stays the same for a step of the runner that keeps its staged item
LEMMA StagedSame ==
  ASSUME UNCHANGED <<ready, uploading>>, runner'.staged = runner.staged
  PROVE  /\ \A r \in Items : Has(r)' => Has(r)
         /\ WritersAt(runner.staged, ready, uploading)' = WritersAt(runner.staged, ready, uploading)
  BY DEF Has, WritersAt

LEMMA TakeItemKeeps ==
  ASSUME IInv, TakeItem
  PROVE  IInv'
<1>1. /\ runner.pc = "top" /\ runner \in RunnerType
      /\ runner' = [runner EXCEPT !.pc = "ended"] \/ runner' = [runner EXCEPT !.pc = "wait"]
      /\ UNCHANGED <<tex, toProcess, ready, uploading, ring, onGpu, reloads, missed>>
  BY DEF TakeItem, IInv, Shapes
<1>2. /\ runner' \in RunnerType /\ runner'.pc \in {"ended", "wait"}
      /\ runner'.tex = runner.tex /\ runner'.staged = runner.staged
  BY <1>1 DEF RunnerType
<1>3. Shapes'
  BY <1>1, <1>2 DEF IInv, Shapes
<1>4. \A t \in Textures : Pending(t)' = Pending(t)
  BY <1>1, <1>2 DEF Pending
<1> QED
  BY <1>1, <1>2, <1>3, <1>4, StagedSame, PlacesSame

LEMMA WaitForItemKeeps ==
  ASSUME IInv, WaitForItem
  PROVE  IInv'
<1>1. /\ runner.pc = "wait" /\ runner \in RunnerType
      /\ UNCHANGED <<tex, ready, uploading, ring, onGpu, reloads, missed>>
      /\ ready \in Seq(Items) /\ uploading \in Seq(Items) /\ toProcess \subseteq Textures
  BY DEF WaitForItem, IInv, Shapes
<1>2. CASE runner' = [runner EXCEPT !.pc = "ended"] /\ toProcess' = toProcess
  <2>1. /\ runner' \in RunnerType /\ runner'.pc = "ended"
        /\ runner'.tex = runner.tex /\ runner'.staged = runner.staged
    BY <1>1, <1>2 DEF RunnerType
  <2>2. Shapes'
    BY <1>1, <1>2, <2>1 DEF IInv, Shapes
  <2>3. \A t \in Textures : Pending(t)' = Pending(t)
    BY <1>1, <1>2, <2>1 DEF Pending
  <2> QED
    BY <1>1, <2>1, <2>2, <2>3, StagedSame, PlacesSame
<1>3. CASE \E u \in toProcess :
             /\ runner' = [runner EXCEPT !.pc = "limit", !.tex = u]
             /\ toProcess' = toProcess \ {u}
  <2>1. PICK u \in toProcess : /\ runner' = [runner EXCEPT !.pc = "limit", !.tex = u]
                               /\ toProcess' = toProcess \ {u}
    BY <1>3
  <2>2. /\ runner' \in RunnerType /\ runner'.pc = "limit"
        /\ runner'.tex = u /\ runner'.staged = runner.staged
    BY <1>1, <2>1 DEF RunnerType
  <2>3. u # NoTexture /\ runner.tex = NoTexture
    BY <1>1, SizeAssumption DEF IInv, Shapes
  <2>4. Shapes'
    BY <1>1, <2>1, <2>2, <2>3 DEF IInv, Shapes
  <2>5. ASSUME NEW t \in Textures
        PROVE  Pending(t)' = Pending(t)
    <3>1. Pending(t)' = PendingAt(toProcess \ {u}, u, runner.staged.tex, ready, uploading, t)
      BY <1>1, <2>1, <2>2 DEF Pending, PendingAt
    <3>2. Pending(t) = PendingAt(toProcess, NoTexture, runner.staged.tex, ready, uploading, t)
      BY <2>3 DEF Pending, PendingAt
    <3> QED
      BY <1>1, <3>1, <3>2, PendingTaken
  <2> QED
    BY <1>1, <2>2, <2>4, <2>5, StagedSame, PlacesSame
<1> QED
  BY <1>2, <1>3 DEF WaitForItem

LEMMA WaitForRoomKeeps ==
  ASSUME IInv, WaitForRoom
  PROVE  IInv'
<1>1. /\ runner.pc = "limit" /\ runner \in RunnerType
      /\ runner' = [runner EXCEPT !.pc = "alloc"]
      /\ UNCHANGED <<tex, toProcess, ready, uploading, ring, onGpu, reloads, missed>>
  BY DEF WaitForRoom, IInv, Shapes
<1>2. /\ runner' \in RunnerType /\ runner'.pc = "alloc"
      /\ runner'.tex = runner.tex /\ runner'.staged = runner.staged
  BY <1>1 DEF RunnerType
<1>3. Shapes'
  BY <1>1, <1>2 DEF IInv, Shapes
<1>4. \A t \in Textures : Pending(t)' = Pending(t)
  BY <1>1, <1>2 DEF Pending
<1> QED
  BY <1>1, <1>2, <1>3, <1>4, StagedSame, PlacesSame

\* isInUse finds no writer only if there is none
LEMMA AllocWritersKeeps ==
  ASSUME IInv, AllocWriters
  PROVE  IInv'
<1>1. /\ runner.pc = "alloc" /\ runner \in RunnerType /\ ring.writers \in Nat
      /\ runner' = [runner EXCEPT !.pc = "readers", !.inUse = ring.writers > 0]
      /\ UNCHANGED <<tex, toProcess, ready, uploading, ring, onGpu, reloads, missed>>
  BY DEF AllocWriters, IInv, Shapes, RingType
<1> DEFINE b == ring.writers > 0
<1>2. b \in BOOLEAN /\ (~b => ring.writers = 0)
  BY <1>1
<1>3. runner' = [runner EXCEPT !.pc = "readers", !.inUse = b]
  BY <1>1
<1> HIDE DEF b
<1>4. /\ runner' \in RunnerType /\ runner'.pc = "readers" /\ runner'.inUse = b
      /\ runner'.tex = runner.tex /\ runner'.staged = runner.staged
  BY <1>1, <1>2, <1>3 DEF RunnerType
<1>5. Shapes'
  BY <1>1, <1>4 DEF IInv, Shapes
<1>6. \A t \in Textures : Pending(t)' = Pending(t)
  BY <1>1, <1>4 DEF Pending
<1>7. ~runner'.inUse => ring.writers = 0
  BY <1>2, <1>4
<1> QED
  BY <1>1, <1>4, <1>5, <1>6, <1>7, StagedSame, PlacesSame

LEMMA PushReadyKeeps ==
  ASSUME IInv, PushReady
  PROVE  IInv'
<1> DEFINE r0 == runner.staged
<1>1. /\ runner.pc = "push" /\ runner \in RunnerType
      /\ ready' = Append(ready, r0)
      /\ runner' = [runner EXCEPT !.pc = "top", !.staged = NoItem]
      /\ UNCHANGED <<tex, toProcess, uploading, ring, onGpu, reloads, missed>>
      /\ ready \in Seq(Items) /\ uploading \in Seq(Items)
  BY DEF PushReady, IInv, Shapes
<1>2. r0 \in Items
  BY <1>1 DEF IInv, Shapes, RunnerType
<1>3. /\ runner' \in RunnerType /\ runner'.pc = "top"
      /\ runner'.tex = runner.tex /\ runner'.staged = NoItem
  BY <1>1 DEF RunnerType
<1>4. NoItem \notin Items /\ NoItem.tex = NoTexture /\ NoItem.slice = NoSlice
  BY SizeAssumption DEF NoItem, Items
<1>5. Append(ready, r0) \in Seq(Items)
  BY <1>1, <1>2
<1>6. Shapes'
  BY <1>1, <1>3, <1>5 DEF IInv, Shapes
<1>7. ASSUME NEW t \in Textures
      PROVE  Pending(t)' = Pending(t)
  <2>1. Pending(t)' = PendingAt(toProcess, runner.tex, NoTexture, Append(ready, r0), uploading, t)
    BY <1>1, <1>3, <1>4 DEF Pending, PendingAt
  <2>2. Pending(t) = PendingAt(toProcess, runner.tex, r0.tex, ready, uploading, t)
    BY DEF Pending, PendingAt
  <2> QED
    BY <1>1, <1>2, <2>1, <2>2, PendingPushed
<1>8. \A r \in Items : Has(r)' => Has(r)
  <2>1. \A i \in DOMAIN Append(ready, r0) : (i \in DOMAIN ready /\ Append(ready, r0)[i] = ready[i])
                                            \/ Append(ready, r0)[i] = r0
    BY <1>1, <1>2
  <2> QED
    BY <1>1, <1>3, <1>4, <2>1 DEF Has
<1>9. WritersAt(runner.staged, ready, uploading)' = WritersAt(runner.staged, ready, uploading)
  <2>1. WritersAt(runner.staged, ready, uploading)' = WritersAt(NoItem, Append(ready, r0), uploading)
    BY <1>1, <1>3 DEF WritersAt
  <2>2. Within(Append(ready, r0), Sliced) = Within(ready, Sliced) + (IF r0 \in Sliced THEN 1 ELSE 0)
    BY <1>1, <1>2, WithinAppend
  <2>3. Within(ready, Sliced) \in Nat /\ Within(uploading, Sliced) \in Nat
    BY <1>1, Indices
  <2>4. r0 \in Sliced <=> r0.slice # NoSlice
    BY <1>2 DEF Sliced
  <2>5. WritersAt(NoItem, Append(ready, r0), uploading) = WritersAt(r0, ready, uploading)
    BY <1>4, <2>2, <2>3, <2>4 DEF WritersAt
  <2> QED
    BY <2>1, <2>5
<1>10. runner'.pc # "readers"
  BY <1>3
<1> QED
  BY <1>1, <1>6, <1>7, <1>8, <1>9, <1>10, PlacesSame

LEMMA RetrieveKeeps ==
  ASSUME IInv, Retrieve
  PROVE  IInv'
<1>1. /\ uploading = << >> /\ uploading' = ready /\ ready' = << >>
      /\ UNCHANGED <<tex, toProcess, runner, ring, onGpu, reloads, missed>>
      /\ ready \in Seq(Items) /\ << >> \in Seq(Items)
  BY DEF Retrieve, Rendering, IInv, Shapes
<1>2. Shapes'
  BY <1>1 DEF IInv, Shapes
<1>3. ASSUME NEW t \in Textures
      PROVE  Pending(t)' = Pending(t)
  <2>1. Pending(t)' = PendingAt(toProcess, runner.tex, runner.staged.tex, << >>, ready, t)
    BY <1>1 DEF Pending, PendingAt
  <2>2. Pending(t) = PendingAt(toProcess, runner.tex, runner.staged.tex, ready, << >>, t)
    BY <1>1 DEF Pending, PendingAt
  <2> QED
    BY <1>1, <2>1, <2>2, PendingRetrieved
<1>4. \A r \in Items : Has(r)' => Has(r)
  <2>1. DOMAIN << >> = {}
    OBVIOUS
  <2> QED
    BY <1>1, <2>1 DEF Has
<1>5. WritersAt(runner.staged, ready, uploading)' = WritersAt(runner.staged, ready, uploading)
  <2>1. WritersAt(runner.staged, ready, uploading)' = WritersAt(runner.staged, << >>, ready)
    BY <1>1 DEF WritersAt
  <2>2. Within(<< >>, Sliced) = 0 /\ Within(ready, Sliced) \in Nat
    BY <1>1, WithinEmpty, Indices
  <2>3. WritersAt(runner.staged, << >>, ready) = WritersAt(runner.staged, ready, << >>)
    BY <2>2 DEF WritersAt
  <2> QED
    BY <1>1, <2>1, <2>3
<1> QED
  BY <1>1, <1>2, <1>3, <1>4, <1>5, PlacesSame
-----------------------------------------------------------------------------
(* The steps that give and take slices *)

\* The GPU releases a slice that nobody else counts
LEMMA GpuCompletesKeeps ==
  ASSUME IInv, NEW s \in onGpu, GpuCompletes(s)
  PROVE  IInv'
<1>1. /\ onGpu' = onGpu \ {s} /\ ring' = [ring EXCEPT !.readers = @ - 1]
      /\ UNCHANGED <<tex, toProcess, ready, uploading, runner, reloads, missed>>
      /\ ring \in RingType
  BY DEF GpuCompletes, Completes, IInv, Shapes
<1> DEFINE left == ring.readers - 1
<1>2. /\ IsFiniteSet(onGpu \ {s}) /\ Cardinality(onGpu \ {s}) = left /\ left \in Nat
  <2>1. IsFiniteSet(onGpu) /\ ring.readers = Cardinality(onGpu)
    BY DEF IInv, Shapes, Counts
  <2>2. IsFiniteSet(onGpu \ {s}) /\ Cardinality(onGpu \ {s}) = Cardinality(onGpu) - 1
    BY <2>1, FS_RemoveElement
  <2>3. Cardinality(onGpu \ {s}) \in Nat
    BY <2>2, FS_CardinalityType
  <2> QED
    BY <2>1, <2>2, <2>3
<1>3. ring' = [ring EXCEPT !.readers = left]
  BY <1>1
<1> HIDE DEF left
<1>4. /\ ring' \in RingType /\ ring'.readers = left
      /\ ring'.offset = ring.offset /\ ring'.writers = ring.writers
  BY <1>1, <1>2, <1>3 DEF RingType
<1>5. Shapes'
  <2>1. onGpu' \subseteq Slices /\ IsFiniteSet(onGpu')
    BY <1>1, <1>2 DEF IInv, Shapes
  <2> QED
    BY <1>1, <1>4, <2>1 DEF IInv, Shapes
<1>6. QueuedIsPending'
  BY <1>1 DEF IInv, QueuedIsPending, Pending
<1>7. Newest'
  BY <1>1 DEF IInv, Newest, ShowsNewestAsset, Has
<1>8. Counts'
  <2>1. \A r \in Items : Has(r)' => r.slice = NoSlice \/ Below(r.slice, ring.offset)
    BY <1>1 DEF IInv, Counts, Has
  <2>2. \A u \in onGpu' : Below(u, ring.offset)
    BY <1>1 DEF IInv, Counts
  <2>3. ring.writers = WritersAt(runner.staged, ready, uploading)'
    BY <1>1 DEF IInv, Counts, WritersAt
  <2>4. ring'.readers = Cardinality(onGpu')
    BY <1>1, <1>2, <1>4
  <2>5. runner'.pc = "readers" /\ ~runner'.inUse => ring.writers = 0
    BY <1>1 DEF IInv, Counts
  <2> QED
    BY <1>4, <2>1, <2>2, <2>3, <2>4, <2>5 DEF Counts
<1>9. Apart'
  BY <1>1 DEF IInv, Apart, Has
<1> QED
  BY <1>5, <1>6, <1>7, <1>8, <1>9 DEF IInv

LEMMA DisjointBothWays ==
  ASSUME NEW a, NEW b
  PROVE  Disjoint(a, b) <=> Disjoint(b, a)
  BY DEF Disjoint

\* The first item of those to upload, and what is left of it
LEMMA FirstUploaded ==
  ASSUME IInv, uploading # << >>
  PROVE  /\ Head(uploading) \in Items /\ Tail(uploading) \in Seq(Items) /\ Has(Head(uploading))
         /\ \A i \in DOMAIN Tail(uploading) : \E k \in DOMAIN uploading : uploading[k] = Tail(uploading)[i]
         /\ tex[Head(uploading).tex].state = "queued" /\ Head(uploading).tex \in Textures
<1>1. uploading \in Seq(Items)
  BY DEF IInv, Shapes
<1>2. Head(uploading) \in Items /\ Tail(uploading) \in Seq(Items)
      /\ 1 \in DOMAIN uploading /\ uploading[1] = Head(uploading)
  BY <1>1
<1>3. \A i \in DOMAIN Tail(uploading) : i + 1 \in DOMAIN uploading /\ uploading[i + 1] = Tail(uploading)[i]
  BY <1>1
<1>4. Has(Head(uploading))
  BY <1>2 DEF Has
<1> QED
  BY <1>2, <1>3, <1>4, ItemsAreQueued DEF IInv

LEMMA UploadKeeps ==
  ASSUME IInv, Upload
  PROVE  IInv'
<1> DEFINE r0 == Head(uploading)
           rest == Tail(uploading)
           y == [tex[r0.tex] EXCEPT !.mips = r0.mips, !.shows = r0.version, !.state = "vidmem"]
<1>1. /\ uploading # << >> /\ uploading' = rest
      /\ tex' = [tex EXCEPT ![r0.tex].mips = r0.mips, ![r0.tex].shows = r0.version,
                            ![r0.tex].state = "vidmem"]
      /\ UNCHANGED <<toProcess, ready, runner, reloads, missed>>
      /\ ready \in Seq(Items) /\ uploading \in Seq(Items)
      /\ tex \in [Textures -> TexType] /\ ring \in RingType
  BY DEF Upload, UploadAndRelease, IInv, Shapes
<1>2. /\ r0 \in Items /\ rest \in Seq(Items) /\ Has(r0)
      /\ \A i \in DOMAIN rest : \E k \in DOMAIN uploading : uploading[k] = rest[i]
      /\ tex[r0.tex].state = "queued" /\ r0.tex \in Textures
  BY <1>1, FirstUploaded
<1>3. /\ tex' = [tex EXCEPT ![r0.tex] = y] /\ y \in TexType
      /\ y.state = "vidmem" /\ y.shows = r0.version /\ y.version = tex[r0.tex].version
  <2>1. r0.tex \in Textures /\ r0.mips \in 1 .. AllMips /\ r0.version \in Nat
        /\ tex[r0.tex] \in TexType
    BY <1>1, <1>2 DEF Items
  <2> DEFINE m == r0.mips
             v == r0.version
  <2>2. m \in 0 .. AllMips /\ v \in Nat
    BY <2>1, SizeAssumption
  <2> HIDE DEF m, v
  <2> DEFINE z == [tex[r0.tex] EXCEPT !.mips = m, !.shows = v, !.state = "vidmem"]
  <2>3. z \in TexType /\ z.state = "vidmem" /\ z.shows = v /\ z.version = tex[r0.tex].version
    BY <2>1, <2>2 DEF TexType, States
  <2>4. z = y /\ v = r0.version
    BY DEF m, v
  <2>5. tex' = [tex EXCEPT ![r0.tex] = y]
    BY <1>1, <2>1
  <2> HIDE DEF y, z
  <2> QED
    BY <2>3, <2>4, <2>5
<1>4. \/ r0.slice = NoSlice /\ ring' = ring /\ onGpu' = onGpu
      \/ /\ r0.slice # NoSlice /\ onGpu' = onGpu
         /\ ring' = [ring EXCEPT !.writers = @ - 1]
      \/ /\ r0.slice # NoSlice /\ onGpu' = onGpu \cup {r0.slice}
         /\ ring' = [ring EXCEPT !.readers = @ + 1, !.writers = @ - 1]
  <2>1. /\ onGpu' = IF r0.version = Unread THEN onGpu ELSE onGpu \cup ({r0.slice} \ {NoSlice})
        /\ ring' = IF r0.slice = NoSlice THEN ring
                   ELSE [ring EXCEPT !.readers = IF r0.version = Unread THEN @ ELSE @ + 1,
                                     !.writers = @ - 1]
    BY DEF Upload, UploadAndRelease
  <2>2. CASE r0.slice = NoSlice
    BY <2>1, <2>2
  <2>3. CASE r0.slice # NoSlice /\ r0.version # Unread
    BY <2>1, <2>3
  <2>4. CASE r0.slice # NoSlice /\ r0.version = Unread
    <3>1. onGpu' = onGpu /\ ring' = [ring EXCEPT !.readers = @, !.writers = @ - 1]
      BY <2>1, <2>4
    <3>2. [ring EXCEPT !.readers = @, !.writers = @ - 1] = [ring EXCEPT !.writers = @ - 1]
      BY <1>1 DEF RingType
    <3> QED
      BY <2>4, <3>1, <3>2
  <2> QED
    BY <2>2, <2>3, <2>4
<1> HIDE DEF rest, y
<1>5. \A r \in Items : Has(r)' => Has(r)
  BY <1>1, <1>2 DEF Has
<1>6. ASSUME NEW t \in Textures
      PROVE  /\ Pending(t)' \in Nat
             /\ Pending(t) = Pending(t)' + (IF r0.tex = t THEN 1 ELSE 0)
  <2>1. Pending(t)' = PendingAt(toProcess, runner.tex, runner.staged.tex, ready, rest, t)
    BY <1>1 DEF Pending, PendingAt
  <2>2. Pending(t) = PendingAt(toProcess, runner.tex, runner.staged.tex, ready, uploading, t)
    BY DEF Pending, PendingAt
  <2>3. PendingAt(toProcess, runner.tex, runner.staged.tex, ready, uploading, t) =
          PendingAt(toProcess, runner.tex, runner.staged.tex, ready, rest, t)
            + (IF r0.tex = t THEN 1 ELSE 0)
    BY <1>1, PendingUploaded DEF rest
  <2>4. PendingAt(toProcess, runner.tex, runner.staged.tex, ready, rest, t) \in Nat
    BY <1>1, <1>2, PendingType
  <2> QED
    BY <2>1, <2>2, <2>3, <2>4, Zenon
<1>7. QueuedIsPending'
  <2> SUFFICES ASSUME NEW t \in Textures
               PROVE  Pending(t)' = IF tex'[t].state = "queued" THEN 1 ELSE 0
    BY DEF QueuedIsPending
  <2>1. Pending(t) = IF tex[t].state = "queued" THEN 1 ELSE 0
    BY DEF IInv, QueuedIsPending
  <2>2. CASE t = r0.tex
    <3>1. Pending(t)' = 0
      BY <1>2, <1>6, <2>1, <2>2
    <3> QED
      BY <1>1, <1>3, <2>2, <3>1
  <2>3. CASE t # r0.tex
    <3>1. Pending(t)' = Pending(t)
      BY <1>6, <2>3
    <3> QED
      BY <1>1, <1>3, <2>1, <2>3, <3>1
  <2> QED
    BY <2>2, <2>3
<1>8. ring' \in RingType /\ ring'.offset = ring.offset
      /\ ring'.writers = WritersAt(runner.staged, ready, rest)
      /\ ring'.readers = Cardinality(onGpu')
      /\ onGpu' \subseteq Slices /\ IsFiniteSet(onGpu') /\ (ring.writers = 0 => ring'.writers = 0)
  <2>1. /\ Within(uploading, Sliced) = Within(rest, Sliced) + (IF r0.slice # NoSlice THEN 1 ELSE 0)
        /\ Within(rest, Sliced) \in Nat /\ Within(ready, Sliced) \in Nat
    <3>1. r0 \in Sliced <=> r0.slice # NoSlice
      BY <1>2 DEF Sliced
    <3>2. Within(uploading, Sliced) = Within(rest, Sliced) + (IF r0 \in Sliced THEN 1 ELSE 0)
      BY <1>1, WithinTail DEF rest
    <3> QED
      BY <1>1, <1>2, <3>1, <3>2, Indices
  <2>2. /\ ring.writers = WritersAt(runner.staged, ready, uploading)
        /\ ring.readers = Cardinality(onGpu) /\ ring.readers \in Nat
        /\ IsFiniteSet(onGpu) /\ onGpu \subseteq Slices
    BY DEF IInv, Counts, Shapes, RingType
  <2>3. /\ WritersAt(runner.staged, ready, uploading) =
             WritersAt(runner.staged, ready, rest) + (IF r0.slice # NoSlice THEN 1 ELSE 0)
        /\ WritersAt(runner.staged, ready, rest) \in Nat
    BY <2>1 DEF WritersAt
  <2>4. CASE r0.slice = NoSlice /\ ring' = ring /\ onGpu' = onGpu
    BY <1>1, <2>2, <2>3, <2>4
  <2>5. CASE /\ r0.slice # NoSlice /\ onGpu' = onGpu \cup {r0.slice}
             /\ ring' = [ring EXCEPT !.readers = @ + 1, !.writers = @ - 1]
    <3>1. r0.slice \notin onGpu
      <4>1. Below(r0.slice, ring.offset) /\ r0.slice \in Slices
        BY <1>2, <2>5 DEF IInv, Counts, Items
      <4>2. ~Disjoint(r0.slice, r0.slice)
        BY <4>1 DEF Below, Disjoint, Slices
      <4> QED
        BY <1>2, <4>2 DEF IInv, Apart
    <3>2. IsFiniteSet(onGpu') /\ Cardinality(onGpu') = Cardinality(onGpu) + 1
      <4>1. IsFiniteSet(onGpu \cup {r0.slice})
            /\ Cardinality(onGpu \cup {r0.slice}) = Cardinality(onGpu) + 1
        BY <2>2, <3>1, FS_AddElement
      <4> QED
        BY <2>5, <4>1
    <3> DEFINE m == ring.readers + 1
               w == ring.writers - 1
    <3>3. m \in Nat /\ w = WritersAt(runner.staged, ready, rest) /\ w \in Nat /\ ring.writers # 0
      BY <2>2, <2>3, <2>5
    <3>4. m = Cardinality(onGpu')
      BY <2>2, <3>2, Zenon
    <3>5. ring' = [ring EXCEPT !.readers = m, !.writers = w]
      BY <2>5
    <3> HIDE DEF m, w
    <3>6. ring' \in RingType /\ ring'.offset = ring.offset /\ ring'.readers = m /\ ring'.writers = w
      BY <1>1, <3>3, <3>5 DEF RingType
    <3>7. onGpu' \subseteq Slices
      BY <1>2, <2>2, <2>5 DEF Items
    <3> QED
      BY <3>2, <3>3, <3>4, <3>6, <3>7
  <2>6. CASE r0.slice # NoSlice /\ onGpu' = onGpu /\ ring' = [ring EXCEPT !.writers = @ - 1]
    <3> DEFINE w == ring.writers - 1
    <3>1. w = WritersAt(runner.staged, ready, rest) /\ w \in Nat /\ ring.writers # 0
      BY <2>2, <2>3, <2>6
    <3>2. ring' = [ring EXCEPT !.writers = w]
      BY <2>6
    <3> HIDE DEF w
    <3>3. /\ ring' \in RingType /\ ring'.offset = ring.offset
          /\ ring'.readers = ring.readers /\ ring'.writers = w
      BY <1>1, <3>1, <3>2 DEF RingType
    <3> QED
      BY <2>2, <2>6, <3>1, <3>3
  <2> QED
    BY <1>4, <2>4, <2>5, <2>6
<1>9. Shapes'
  <2>1. tex' \in [Textures -> TexType]
    BY <1>1, <1>2, <1>3
  <2> QED
    BY <1>1, <1>2, <1>8, <2>1 DEF IInv, Shapes
\* What is left is of other textures
<1>10. \A r \in Items : Has(r)' => r.tex # r0.tex /\ r.tex \in Textures
  <2> SUFFICES ASSUME NEW r \in Items, Has(r)'
               PROVE  r.tex # r0.tex /\ r.tex \in Textures
    OBVIOUS
  <2>1. r.tex \in Textures
    BY DEF Items
  <2>2. \/ runner.staged.tex = r.tex
        \/ \E i \in DOMAIN ready : ready[i].tex = r.tex
        \/ \E i \in DOMAIN rest : rest[i].tex = r.tex
    BY <1>1 DEF Has
  <2>3. PendingAt(toProcess, runner.tex, runner.staged.tex, ready, rest, r.tex) >= 1
    BY <1>1, <1>2, <2>2, PendingThere
  <2>4. PendingAt(toProcess, runner.tex, runner.staged.tex, ready, rest, r0.tex) = 0
    <3>1. Pending(r0.tex) = 1 /\ r0.tex \in Textures
      BY <1>2 DEF IInv, QueuedIsPending
    <3>2. Pending(r0.tex) = PendingAt(toProcess, runner.tex, runner.staged.tex, ready, uploading, r0.tex)
      BY DEF Pending, PendingAt
    <3>3. PendingAt(toProcess, runner.tex, runner.staged.tex, ready, uploading, r0.tex) =
            PendingAt(toProcess, runner.tex, runner.staged.tex, ready, rest, r0.tex)
              + (IF r0.tex = r0.tex THEN 1 ELSE 0)
      BY <1>1, PendingUploaded DEF rest
    <3>4. PendingAt(toProcess, runner.tex, runner.staged.tex, ready, rest, r0.tex) \in Nat
      BY <1>1, <1>2, PendingType
    <3> QED
      BY <3>1, <3>2, <3>3, <3>4
  <2>5. r.tex # r0.tex
    BY <2>3, <2>4
  <2> QED
    BY <2>1, <2>5
<1>11. Newest'
  <2>1. \A r \in Items :
          Has(r)' => r.version \in Read(r.tex, tex'[r.tex].version) \/ r.tex \in missed
    BY <1>1, <1>3, <1>5, <1>10 DEF IInv, Newest
  <2>2. ASSUME NEW t \in Textures, tex'[t].state = "vidmem"
        PROVE  tex'[t].shows \in Read(t, tex'[t].version) \/ t \in missed
    <3>1. CASE t = r0.tex
      BY <1>1, <1>2, <1>3, <3>1 DEF IInv, Newest
    <3>2. CASE t # r0.tex
      BY <1>1, <1>3, <2>2, <3>2 DEF IInv, Newest, ShowsNewestAsset
    <3> QED
      BY <3>1, <3>2
  <2> QED
    BY <1>1, <2>1, <2>2 DEF Newest, ShowsNewestAsset
<1>12. Counts'
  <2>1. \A r \in Items : Has(r)' => r.slice = NoSlice \/ Below(r.slice, ring.offset)
    BY <1>5 DEF IInv, Counts
  <2>2. \A u \in onGpu' : Below(u, ring.offset)
    BY <1>2, <1>4 DEF IInv, Counts
  <2>3. WritersAt(runner.staged, ready, uploading)' = WritersAt(runner.staged, ready, rest)
    BY <1>1 DEF WritersAt
  <2>4. runner'.pc = "readers" /\ ~runner'.inUse => ring.writers = 0
    BY <1>1 DEF IInv, Counts
  <2> QED
    BY <1>8, <2>1, <2>2, <2>3, <2>4 DEF Counts
<1>13. Apart'
  <2>1. \A r, u \in Items : Has(r)' /\ Has(u)' /\ r # u => Disjoint(r.slice, u.slice)
    BY <1>5 DEF IInv, Apart
  <2>2. \A s \in onGpu' : s \in onGpu \/ s = r0.slice
    BY <1>4
  <2>3. \A r \in Items : Has(r)' => Disjoint(r.slice, r0.slice)
    BY <1>2, <1>5, <1>10 DEF IInv, Apart
  <2>4. \A r \in Items : Has(r)' => \A s \in onGpu' : Disjoint(r.slice, s)
    BY <1>5, <2>2, <2>3 DEF IInv, Apart
  <2>5. \A s \in onGpu : Disjoint(r0.slice, s) /\ Disjoint(s, r0.slice)
    BY <1>2, DisjointBothWays DEF IInv, Apart
  <2>6. \A s, u \in onGpu' : s # u => Disjoint(s, u)
    BY <2>2, <2>5 DEF IInv, Apart
  <2> QED
    BY <2>1, <2>4, <2>6 DEF Apart
<1> QED
  BY <1>7, <1>9, <1>11, <1>12, <1>13 DEF IInv

\* Where an allocation may start, nothing that is in use reaches: at the offset, or
\* at 0 when both counts were found 0
LEMMA StartIsFree ==
  ASSUME IInv, runner.pc = "readers", NEW start,
         start = IF runner.inUse \/ ring.readers > 0 THEN ring.offset ELSE 0
  PROVE  /\ start \in 0 .. RingBudget
         /\ \A r \in Items : Has(r) => r.slice = NoSlice \/ Below(r.slice, start)
         /\ \A s \in onGpu : Below(s, start)
<1>1. /\ ring.offset \in 0 .. RingBudget /\ ring.readers \in Nat /\ RingBudget \in Nat
      /\ IsFiniteSet(onGpu) /\ ready \in Seq(Items) /\ uploading \in Seq(Items)
  BY SizeAssumption DEF IInv, Shapes, RingType
<1>2. CASE runner.inUse \/ ring.readers > 0
  BY <1>1, <1>2 DEF IInv, Counts
<1>3. CASE ~runner.inUse /\ ring.readers = 0
  <2>1. start = 0
    BY <1>1, <1>3
  <2>2. onGpu = {}
    <3>1. Cardinality(onGpu) = 0
      BY <1>3 DEF IInv, Counts
    <3> QED
      BY <1>1, <3>1, FS_EmptySet
  <2>3. WritersAt(runner.staged, ready, uploading) = 0
    BY <1>3 DEF IInv, Counts
  <2>4. Within(ready, Sliced) \in Nat /\ Within(uploading, Sliced) \in Nat
    BY <1>1, Indices
  <2>5. runner.staged.slice = NoSlice /\ Within(ready, Sliced) = 0 /\ Within(uploading, Sliced) = 0
    <3> DEFINE b == IF runner.staged.slice # NoSlice THEN 1 ELSE 0
    <3>1. b + Within(ready, Sliced) + Within(uploading, Sliced) = 0 /\ b \in Nat
      BY <2>3 DEF WritersAt
    <3> HIDE DEF b
    <3>2. b = 0 /\ Within(ready, Sliced) = 0 /\ Within(uploading, Sliced) = 0
      BY <2>4, <3>1
    <3> QED
      BY <3>2 DEF b
  <2>6. /\ \A i \in DOMAIN ready : ready[i] \notin Sliced
        /\ \A i \in DOMAIN uploading : uploading[i] \notin Sliced
    BY <1>1, <2>5, WithinNothing
  <2>7. \A r \in Items : Has(r) => r.slice = NoSlice
    BY <2>5, <2>6 DEF Has, Sliced
  <2> QED
    BY <1>1, <2>1, <2>2, <2>7
<1> QED
  BY <1>1, <1>2, <1>3

\* Counts and Apart, when the offset moves back to where nothing is in use
LEMMA OffsetMoves ==
  ASSUME NEW s, NEW start \in Nat, NEW size \in Nat, s \in Slices, Below(s, start)
  PROVE  Below(s, start + size) /\ Disjoint(s, [from |-> start, size |-> size])
  BY DEF Below, Disjoint, Slices

LEMMA AllocReadersKeeps ==
  ASSUME IInv, AllocReaders
  PROVE  IInv'
<1> DEFINE t == runner.tex
           start == IF runner.inUse \/ ring.readers > 0 THEN ring.offset ELSE 0
           size == tex[t].requested
           end == start + size
           more == ring.writers + 1
           sl == [from |-> start, size |-> size]
           Item(v) == [tex |-> t, mips |-> size, version |-> v, slice |-> sl]
           New(v) == [pc |-> "push", tex |-> NoTexture, inUse |-> FALSE, staged |-> Item(v)]
<1>1. /\ runner.pc = "readers" /\ runner \in RunnerType /\ ring \in RingType
      /\ UNCHANGED <<tex, toProcess, ready, uploading, onGpu, reloads, missed>>
      /\ ready \in Seq(Items) /\ uploading \in Seq(Items) /\ onGpu \subseteq Slices
      /\ runner.tex # NoTexture /\ runner.staged = NoItem
      /\ tex \in [Textures -> TexType]
  BY DEF AllocReaders, Alloc, IInv, Shapes
<1>2. \/ /\ end > RingBudget
         /\ ring' = [ring EXCEPT !.offset = start]
         /\ runner' = [runner EXCEPT !.pc = "alloc", !.inUse = FALSE]
      \/ /\ ~(end > RingBudget)
         /\ ring' = [ring EXCEPT !.offset = end, !.writers = more]
         /\ \E v \in Read(t, tex[t].version) : runner' = New(v)
  BY DEF AllocReaders, Alloc
<1>3. /\ start \in 0 .. RingBudget
      /\ \A r \in Items : Has(r) => r.slice = NoSlice \/ Below(r.slice, start)
      /\ \A s \in onGpu : Below(s, start)
  BY <1>1, StartIsFree
<1>4. t \in Textures /\ tex[t] \in TexType /\ size \in 1 .. AllMips /\ tex[t].version \in Nat
  <2>1. t \in Textures
    BY <1>1 DEF RunnerType
  <2>2. tex[t] \in TexType
    BY <1>1, <2>1
  <2> QED
    BY <2>1, <2>2 DEF TexType
<1>5. ring.writers \in Nat /\ RingBudget \in Nat /\ AllMips \in Nat /\ more \in Nat
      /\ start \in Nat /\ size \in Nat /\ size >= 1
  BY <1>1, <1>3, <1>4, SizeAssumption DEF RingType
<1> HIDE DEF start, size, more
<1>6. CASE /\ ring' = [ring EXCEPT !.offset = start]
           /\ runner' = [runner EXCEPT !.pc = "alloc", !.inUse = FALSE]
  <2>1. /\ ring' \in RingType /\ ring'.offset = start
        /\ ring'.writers = ring.writers /\ ring'.readers = ring.readers
    BY <1>1, <1>3, <1>6 DEF RingType
  <2>2. /\ runner' \in RunnerType /\ runner'.pc = "alloc"
        /\ runner'.tex = runner.tex /\ runner'.staged = runner.staged
    BY <1>1, <1>6 DEF RunnerType
  <2>3. Shapes'
    BY <1>1, <2>1, <2>2 DEF IInv, Shapes
  <2>4. QueuedIsPending'
    BY <1>1, <2>2 DEF IInv, QueuedIsPending, Pending
  <2>5. \A r \in Items : Has(r)' <=> Has(r)
    BY <1>1, <2>2 DEF Has
  <2>6. Newest'
    BY <1>1, <2>5 DEF IInv, Newest, ShowsNewestAsset
  <2>7. Counts'
    <3>1. WritersAt(runner.staged, ready, uploading)' = WritersAt(runner.staged, ready, uploading)
      BY <1>1, <2>2 DEF WritersAt
    <3>2. \A r \in Items : Has(r)' => r.slice = NoSlice \/ Below(r.slice, start)
      BY <1>3, <2>5
    <3>3. runner'.pc # "readers"
      BY <2>2
    <3> QED
      BY <1>1, <1>3, <2>1, <3>1, <3>2, <3>3 DEF IInv, Counts
  <2>8. Apart'
    BY <1>1, <2>5 DEF IInv, Apart
  <2> QED
    BY <2>3, <2>4, <2>6, <2>7, <2>8 DEF IInv
<1>7. CASE /\ ~(end > RingBudget)
           /\ ring' = [ring EXCEPT !.offset = end, !.writers = more]
           /\ \E v \in Read(t, tex[t].version) : runner' = New(v)
  <2>v. PICK v \in Read(t, tex[t].version) : runner' = New(v)
    BY <1>7
  <2> DEFINE n0 == Item(v)
  <2>1. end \in 0 .. RingBudget /\ end = start + size
    BY <1>5, <1>7
  <2>2. sl \in Slices /\ sl # NoSlice /\ sl.from = start /\ sl.size = size
    BY <1>5 DEF Slices, NoSlice
  <2>3. Below(sl, end)
    BY <1>5, <2>1, <2>2 DEF Below
  <2>4. \A s \in Slices : s = NoSlice \/ Below(s, start) =>
              (s = NoSlice \/ Below(s, end)) /\ Disjoint(s, sl)
    <3> SUFFICES ASSUME NEW s \in Slices, s = NoSlice \/ Below(s, start)
                 PROVE  (s = NoSlice \/ Below(s, end)) /\ Disjoint(s, sl)
      OBVIOUS
    <3>1. CASE s = NoSlice
      BY <2>2, <3>1, NoSliceIsApart
    <3>2. CASE Below(s, start)
      BY <1>5, <3>2, OffsetMoves
    <3> QED
      BY <3>1, <3>2
  <2>5. \A s \in onGpu : Below(s, end) /\ Disjoint(s, sl)
    BY <1>1, <1>3, <1>5, OffsetMoves
  <2> HIDE DEF end
  <2>6. /\ ring' \in RingType /\ ring'.offset = end
        /\ ring'.writers = more /\ ring'.readers = ring.readers
    BY <1>1, <1>5, <1>7, <2>1 DEF RingType
  <2> HIDE DEF sl
  <2>7. n0 \in Items /\ n0.tex = t /\ n0.slice = sl
        /\ n0.version \in Read(t, tex[t].version)
    <3>1. v \in Nat
      BY <1>4, <2>v, ReadsVersions
    <3> QED
      BY <1>4, <2>2, <2>v, <3>1 DEF Items
  <2>8. n0 # NoItem
    BY <2>2, <2>7 DEF NoItem
  <2> HIDE DEF n0
  <2>9. /\ runner' \in RunnerType /\ runner'.pc = "push"
        /\ runner'.tex = NoTexture /\ runner'.staged = n0
    BY <2>v, <2>7 DEF RunnerType, n0
  <2>10. Shapes'
    BY <1>1, <2>6, <2>8, <2>9 DEF IInv, Shapes
  <2>11. \A r \in Items : Has(r)' => Has(r) \/ r = n0
    BY <1>1, <2>9 DEF Has
  <2>12. QueuedIsPending'
    <3> SUFFICES ASSUME NEW u \in Textures
                 PROVE  Pending(u)' = IF tex'[u].state = "queued" THEN 1 ELSE 0
      BY DEF QueuedIsPending
    <3>1. Pending(u) = IF tex[u].state = "queued" THEN 1 ELSE 0
      BY DEF IInv, QueuedIsPending
    <3>2. Pending(u)' = PendingAt(toProcess, NoTexture, t, ready, uploading, u)
      BY <1>1, <2>7, <2>9 DEF Pending, PendingAt
    <3>3. Pending(u) = PendingAt(toProcess, t, NoTexture, ready, uploading, u)
      BY <1>1 DEF Pending, PendingAt, NoItem
    <3>4. Pending(u)' = Pending(u)
      BY <1>1, <3>2, <3>3, PendingStaged
    <3> QED
      BY <1>1, <3>1, <3>4
  <2>13. Newest'
    BY <1>1, <2>7, <2>11 DEF IInv, Newest, ShowsNewestAsset
  <2>14. Counts'
    <3>1. \A r \in Items : Has(r)' => r.slice = NoSlice \/ Below(r.slice, end)
      <4> SUFFICES ASSUME NEW r \in Items, Has(r)'
                   PROVE  r.slice = NoSlice \/ Below(r.slice, end)
        OBVIOUS
      <4>1. CASE r = n0
        BY <2>3, <2>7, <4>1
      <4>2. CASE Has(r)
        BY <1>3, <2>4, <4>2 DEF Items
      <4> QED
        BY <2>11, <4>1, <4>2
    <3>2. WritersAt(runner.staged, ready, uploading)' = more
      <4>1. WritersAt(runner.staged, ready, uploading)' = WritersAt(n0, ready, uploading)
        BY <1>1, <2>9 DEF WritersAt
      <4>2. ring.writers = WritersAt(NoItem, ready, uploading)
        BY <1>1 DEF IInv, Counts
      <4>3. Within(ready, Sliced) \in Nat /\ Within(uploading, Sliced) \in Nat
        BY <1>1, Indices
      <4>4. NoItem.slice = NoSlice /\ n0.slice # NoSlice
        BY <2>2, <2>7 DEF NoItem
      <4>5. WritersAt(n0, ready, uploading) = WritersAt(NoItem, ready, uploading) + 1
        BY <4>3, <4>4 DEF WritersAt
      <4> QED
        BY <4>1, <4>2, <4>5 DEF more
    <3>3. runner'.pc # "readers"
      BY <2>9
    <3>4. \A s \in onGpu' : Below(s, end)
      BY <1>1, <2>5
    <3>5. ring'.readers = Cardinality(onGpu')
      BY <1>1, <2>6 DEF IInv, Counts
    <3> QED
      BY <2>6, <3>1, <3>2, <3>3, <3>4, <3>5 DEF Counts
  <2>15. Apart'
    <3>1. \A r \in Items : Has(r) => Disjoint(r.slice, n0.slice) /\ Disjoint(n0.slice, r.slice)
      BY <1>3, <2>4, <2>7, DisjointBothWays DEF Items
    <3>2. \A s \in onGpu : Disjoint(n0.slice, s)
      BY <2>5, <2>7, DisjointBothWays
    <3>3. \A r, u \in Items : Has(r)' /\ Has(u)' /\ r # u => Disjoint(r.slice, u.slice)
      BY <2>11, <3>1 DEF IInv, Apart
    <3>4. \A r \in Items : Has(r)' => \A s \in onGpu : Disjoint(r.slice, s)
      BY <2>11, <3>2 DEF IInv, Apart
    <3> QED
      BY <1>1, <3>3, <3>4 DEF IInv, Apart
  <2> QED
    BY <2>10, <2>12, <2>13, <2>14, <2>15 DEF IInv
<1> QED
  BY <1>2, <1>6, <1>7
-----------------------------------------------------------------------------
LEMMA InitKeeps == Init => IInv
<1> SUFFICES ASSUME Init
             PROVE  IInv
  OBVIOUS
<1> DEFINE x0 == [state |-> "absent", canDemote |-> TRUE, requested |-> 1,
                  version |-> 1, mips |-> 0, shows |-> Unread]
<1>1. /\ tex = [t \in Textures |-> x0] /\ x0 \in TexType
      /\ x0.state = "absent"
  BY SizeAssumption DEF Init, TexType, States, Unread
<1>2. /\ toProcess = {} /\ reloads = {} /\ ready = << >> /\ uploading = << >> /\ onGpu = {}
      /\ missed = {}
      /\ runner = [pc |-> "top", tex |-> NoTexture, inUse |-> FALSE, staged |-> NoItem]
      /\ ring = [offset |-> 0, writers |-> 0, readers |-> 0]
  BY DEF Init
<1> HIDE DEF x0
<1>3. << >> \in Seq(Items) /\ DOMAIN << >> = {}
  OBVIOUS
<1>4. NoItem \notin Items /\ NoItem.tex = NoTexture /\ NoItem.slice = NoSlice
  BY SizeAssumption DEF NoItem, Items
<1>5. runner \in RunnerType /\ runner.pc = "top" /\ runner.tex = NoTexture /\ runner.staged = NoItem
  BY <1>2 DEF RunnerType
<1>6. ring \in RingType /\ ring.writers = 0 /\ ring.readers = 0
  BY <1>2, SizeAssumption DEF RingType
<1>7. IsFiniteSet(onGpu) /\ Cardinality(onGpu) = 0
  BY <1>2, FS_EmptySet
<1>8. \A t \in Textures : tex[t] = x0
  BY <1>1
<1>9. Shapes
  BY <1>1, <1>2, <1>3, <1>5, <1>6, <1>7 DEF Shapes
<1>10. \A r \in Items : ~Has(r)
  BY <1>2, <1>3, <1>4, <1>5 DEF Has
<1>11. QueuedIsPending
  <2> SUFFICES ASSUME NEW t \in Textures
               PROVE  Pending(t) = IF tex[t].state = "queued" THEN 1 ELSE 0
    BY DEF QueuedIsPending
  <2>1. In(<< >>, t) = 0 /\ NoTexture # t
    BY <1>3, InMoves, SizeAssumption
  <2>2. Pending(t) = 0
    BY <1>2, <1>4, <1>5, <2>1 DEF Pending
  <2> QED
    BY <1>1, <1>8, <2>2
<1>12. Newest
  BY <1>1, <1>8, <1>10 DEF Newest, ShowsNewestAsset
<1>13. Counts
  <2>1. WritersAt(runner.staged, ready, uploading) = 0
    BY <1>2, <1>4, <1>5, WithinEmpty DEF WritersAt
  <2> QED
    BY <1>2, <1>6, <1>7, <1>10, <2>1 DEF Counts
<1>14. Apart
  BY <1>2, <1>10 DEF Apart
<1> QED
  BY <1>9, <1>11, <1>12, <1>13, <1>14 DEF IInv

LEMMA NextKeeps == IInv /\ [Next]_vars => IInv'
<1> SUFFICES ASSUME IInv, [Next]_vars
             PROVE  IInv'
  OBVIOUS
<1>1. CASE \E t \in Textures, forceLoad \in BOOLEAN : Preload(t, forceLoad)
  BY <1>1, PreloadKeeps
<1>2. CASE \E t \in Textures, n \in 0 .. AllMips : Collect(t, n)
  BY <1>2, CollectKeeps
<1>3. CASE \E t \in Textures : RequestHotReload(t) \/ Preserve(t) \/ Demote(t) \/ HotReload(t)
  BY <1>3, RequestHotReloadKeeps, PreserveKeeps, DemoteKeeps, HotReloadKeeps
<1>4. CASE Submit \/ Shutdown
  BY <1>4, RetrieveKeeps, UploadKeeps, ShutdownKeeps DEF Submit
<1>5. CASE \E s \in onGpu : GpuCompletes(s)
  BY <1>5, GpuCompletesKeeps
<1>6. CASE AsyncLoop
  BY <1>6, TakeItemKeeps, WaitForItemKeeps, WaitForRoomKeeps, AllocWritersKeeps,
     AllocReadersKeeps, PushReadyKeeps DEF AsyncLoop
<1>7. CASE UNCHANGED vars
  <2>1. UNCHANGED <<tex, toProcess, ready, uploading, runner, ring, onGpu, reloads, missed>>
    BY <1>7 DEF vars
  <2>2. Shapes'
    BY <2>1 DEF IInv, Shapes
  <2> QED
    BY <2>1, <2>2, PlacesSame DEF Pending, Has, WritersAt
<1> QED
  BY <1>1, <1>2, <1>3, <1>4, <1>5, <1>6, <1>7 DEF Next

LEMMA Inductive == Spec => []IInv
  BY InitKeeps, NextKeeps, PTL DEF Spec
-----------------------------------------------------------------------------
(* The theorems *)

\* No texture ever asks for fewer mips than one or more than its asset has, shows
\* more than that, or is queued without being one of the manager's textures; and the
\* offset stays in the ring.
THEOREM StreamingTypes == Spec => []TypeOK
<1>1. IInv => TypeOK
  BY DEF IInv, Shapes, TypeOK, TexType, RingType
<1> QED
  BY <1>1, Inductive, PTL

\* scheduleTextureLoad's early return for a queued texture is sound: what is queued
\* is in exactly one place on its way to the GPU, whichever threads scheduled it, and
\* what is loaded is in none.
THEOREM PendingHolds == Spec => []QueuedIsPending
<1>1. IInv => QueuedIsPending
  BY DEF IInv
<1> QED
  BY <1>1, Inductive, PTL

\* Every loaded texture shows its newest asset, or nothing after a read that failed,
\* unless a hot reload came between the staging of the old asset and its upload.
THEOREM NewestHolds == Spec => []ShowsNewestAsset
<1>1. IInv => ShowsNewestAsset
  BY DEF IInv, Newest
<1> QED
  BY <1>1, Inductive, PTL

LEMMA Joined ==
  ASSUME NEW S, NEW a \in Seq(S), NEW b \in Seq(S)
  PROVE  /\ DOMAIN (a \o b) = 1 .. Len(a) + Len(b)
         /\ \A k \in 1 .. Len(a) + Len(b) :
              (a \o b)[k] = IF k <= Len(a) THEN a[k] ELSE b[k - Len(a)]
  OBVIOUS

\* Where the item at a place of what is staged comes from
FromRunner(k) == k = 1 /\ StagedItems[k] = runner.staged
FromReady(k) == k - 1 \in DOMAIN ready /\ StagedItems[k] = ready[k - 1]
FromUploading(k) ==
  k - (Len(ready) + 1) \in DOMAIN uploading /\ StagedItems[k] = uploading[k - (Len(ready) + 1)]

LEMMA StagedPlaces ==
  ASSUME IInv, NEW k \in DOMAIN StagedItems
  PROVE  k \in Nat /\ (FromRunner(k) \/ FromReady(k) \/ FromUploading(k))
<1> DEFINE R == Len(ready)
           U == Len(uploading)
           front == <<runner.staged>> \o ready
<1>1. /\ ready \in Seq(Items) /\ uploading \in Seq(Items) /\ R \in Nat /\ U \in Nat
      /\ DOMAIN ready = 1 .. R /\ DOMAIN uploading = 1 .. U
      /\ runner.staged \in Items \cup {NoItem}
  BY DEF IInv, Shapes, RunnerType
<1>2. ready \in Seq(Items \cup {NoItem}) /\ uploading \in Seq(Items \cup {NoItem})
      /\ <<runner.staged>> \in Seq(Items \cup {NoItem})
  BY <1>1
<1>3. front \in Seq(Items \cup {NoItem}) /\ Len(front) = R + 1
      /\ \A c \in 1 .. R + 1 : front[c] = IF c = 1 THEN runner.staged ELSE ready[c - 1]
  BY <1>2
<1>4. StagedItems = front \o uploading
  BY DEF StagedItems
<1> HIDE DEF front
<1>5. /\ DOMAIN StagedItems = 1 .. (R + 1) + U
      /\ \A c \in 1 .. (R + 1) + U : StagedItems[c] =
           IF c <= R + 1 THEN front[c] ELSE uploading[c - (R + 1)]
  <2>1. /\ DOMAIN (front \o uploading) = 1 .. Len(front) + U
        /\ \A c \in 1 .. Len(front) + U : (front \o uploading)[c] =
             IF c <= Len(front) THEN front[c] ELSE uploading[c - Len(front)]
    BY <1>2, <1>3, Joined
  <2> QED
    BY <1>3, <1>4, <2>1
<1>6. k \in 1 .. (R + 1) + U
  BY <1>5
<1>7. CASE k = 1
  BY <1>1, <1>3, <1>5, <1>6, <1>7 DEF FromRunner
<1>8. CASE k \in 2 .. R + 1
  BY <1>1, <1>3, <1>5, <1>6, <1>8 DEF FromReady
<1>9. CASE k > R + 1
  <2>1. k - (R + 1) \in 1 .. U /\ ~(k <= R + 1)
    BY <1>1, <1>6, <1>9
  <2> QED
    BY <1>1, <1>5, <1>6, <2>1 DEF FromUploading
<1> QED
  BY <1>1, <1>6, <1>7, <1>8, <1>9

LEMMA StagedThere ==
  ASSUME IInv, NEW k \in DOMAIN StagedItems
  PROVE  StagedItems[k] = NoItem \/ (StagedItems[k] \in Items /\ Has(StagedItems[k]))
<1>1. ready \in Seq(Items) /\ uploading \in Seq(Items) /\ runner.staged \in Items \cup {NoItem}
  BY DEF IInv, Shapes, RunnerType
<1>2. CASE FromRunner(k)
  BY <1>1, <1>2 DEF FromRunner, Has
<1>3. CASE FromReady(k)
  BY <1>1, <1>3 DEF FromReady, Has
<1>4. CASE FromUploading(k)
  BY <1>1, <1>4 DEF FromUploading, Has
<1> QED
  BY <1>2, <1>3, <1>4, StagedPlaces

\* How often a list has the texture of one and of two of its items
LEMMA InTwice ==
  ASSUME NEW list \in Seq(Items), NEW t, NEW c \in DOMAIN list, list[c].tex = t
  PROVE  /\ In(list, t) >= 1
         /\ \A d \in DOMAIN list : list[d].tex = t /\ c # d => In(list, t) >= 2
<1>1. In(list, t) \in Nat /\ In(list, t) # 0 /\ In(list, t) = Within(list, Of(t))
  BY InMoves, InIsWithin
<1>2. \A d \in DOMAIN list : list[d] \in Of(t) <=> list[d].tex = t
  BY DEF Of
<1>3. \A d \in DOMAIN list : list[d].tex = t /\ c # d => Within(list, Of(t)) >= 2
  BY <1>2, WithinTwo
<1> QED
  BY <1>1, <1>3

\* Two places of what is staged are of two textures
LEMMA StagedOnce ==
  ASSUME IInv, NEW i \in DOMAIN StagedItems, NEW j \in DOMAIN StagedItems, i # j,
         StagedItems[i] \in Items, StagedItems[j] \in Items
  PROVE  StagedItems[i].tex # StagedItems[j].tex
<1> SUFFICES ASSUME StagedItems[i].tex = StagedItems[j].tex
             PROVE  FALSE
  OBVIOUS
<1> DEFINE t == StagedItems[i].tex
<1>1. ready \in Seq(Items) /\ uploading \in Seq(Items) /\ Len(ready) \in Nat
  BY DEF IInv, Shapes
<1>2. t \in Textures /\ Pending(t) <= 1
  <2>1. Has(StagedItems[i]) \/ StagedItems[i] = NoItem
    BY StagedThere
  <2>2. NoItem \notin Items
    BY SizeAssumption DEF NoItem, Items
  <2>3. t \in Textures /\ tex[t].state = "queued"
    BY <2>1, <2>2, ItemsAreQueued DEF IInv
  <2> QED
    BY <2>3 DEF IInv, QueuedIsPending
<1>3. In(ready, t) \in Nat /\ In(uploading, t) \in Nat
  BY <1>1, InMoves
<1>4. (IF runner.staged.tex = t THEN 1 ELSE 0) + In(ready, t) + In(uploading, t) <= 1
  BY <1>2, <1>3 DEF Pending
<1>5. StagedItems[i].tex = t /\ StagedItems[j].tex = t
  OBVIOUS
<1> HIDE DEF t
<1> DEFINE First == runner.staged.tex = t
           n == In(ready, t)
           m == In(uploading, t)
<1>6. n < 2 /\ m < 2 /\ ~(First /\ n >= 1) /\ ~(First /\ m >= 1) /\ ~(n >= 1 /\ m >= 1)
  BY <1>3, <1>4
<1>7. ASSUME NEW k \in DOMAIN StagedItems, StagedItems[k].tex = t
      PROVE  /\ FromRunner(k) => First
             /\ FromReady(k) => n >= 1
             /\ FromUploading(k) => m >= 1
  <2>1. FromRunner(k) => First
    BY <1>7 DEF FromRunner
  <2>2. FromReady(k) => n >= 1
    BY <1>1, <1>7, InTwice DEF FromReady
  <2>3. FromUploading(k) => m >= 1
    BY <1>1, <1>7, InTwice DEF FromUploading
  <2> QED
    BY <2>1, <2>2, <2>3
<1>8. i \in Nat /\ j \in Nat /\ (FromRunner(i) \/ FromReady(i) \/ FromUploading(i))
      /\ (FromRunner(j) \/ FromReady(j) \/ FromUploading(j))
  BY StagedPlaces
<1>9. CASE FromReady(i) /\ FromReady(j)
  <2> DEFINE c == i - 1
             d == j - 1
  <2>1. c \in DOMAIN ready /\ d \in DOMAIN ready /\ c # d /\ ready[c].tex = t /\ ready[d].tex = t
    BY <1>5, <1>8, <1>9 DEF FromReady
  <2> HIDE DEF c, d
  <2>2. In(ready, t) >= 2
    BY <1>1, <2>1, InTwice
  <2> QED
    BY <1>3, <1>6, <2>2
<1>10. CASE FromUploading(i) /\ FromUploading(j)
  <2> DEFINE c == i - (Len(ready) + 1)
             d == j - (Len(ready) + 1)
  <2>1. /\ c \in DOMAIN uploading /\ d \in DOMAIN uploading /\ c # d
        /\ uploading[c].tex = t /\ uploading[d].tex = t
    BY <1>1, <1>5, <1>8, <1>10 DEF FromUploading
  <2> HIDE DEF c, d
  <2>2. In(uploading, t) >= 2
    BY <1>1, <2>1, InTwice
  <2> QED
    BY <1>3, <1>6, <2>2
<1>11. ~(FromRunner(i) /\ FromRunner(j))
  BY DEF FromRunner
<1> HIDE DEF n, m, First
<1> QED
  BY <1>5, <1>6, <1>7, <1>8, <1>9, <1>10, <1>11

LEMMA StagedApart ==
  ASSUME IInv, NEW i \in DOMAIN StagedItems, NEW j \in DOMAIN StagedItems, i # j
  PROVE  Disjoint(StagedItems[i].slice, StagedItems[j].slice)
<1> DEFINE a == StagedItems[i]
           b == StagedItems[j]
<1>1. (a = NoItem \/ (a \in Items /\ Has(a))) /\ (b = NoItem \/ (b \in Items /\ Has(b)))
  BY StagedThere
<1>2. CASE a = NoItem \/ b = NoItem
  <2>1. NoItem.slice = NoSlice /\ NoSlice \in Slices /\ \A r \in Items : r.slice \in Slices
    BY DEF NoItem, NoSlice, Items, Slices
  <2>2. a.slice \in Slices /\ b.slice \in Slices
    BY <1>1, <2>1
  <2> QED
    BY <1>2, <2>1, <2>2, NoSliceIsApart
<1>3. CASE (a \in Items /\ Has(a)) /\ (b \in Items /\ Has(b))
  <2>1. a.tex # b.tex
    BY <1>3, StagedOnce
  <2> QED
    BY <1>3, <2>1 DEF IInv, Apart
<1> QED
  BY <1>1, <1>2, <1>3

\* No part of the staging ring is given out again while a staged texture waits in it
\* or the GPU may still read it, whatever the order in which the runner reads the two
\* counts, the render thread hands its reference to the command list and the GPU
\* releases it.
THEOREM SlicesHold == Spec => []SlicesDisjoint
<1>1. IInv => SlicesDisjoint
  <2> SUFFICES ASSUME IInv
               PROVE  SlicesDisjoint
    OBVIOUS
  <2>1. \A i, j \in DOMAIN StagedItems : i # j =>
          Disjoint(StagedItems[i].slice, StagedItems[j].slice)
    BY StagedApart
  <2>2. \A i \in DOMAIN StagedItems, s \in onGpu : Disjoint(StagedItems[i].slice, s)
    <3> SUFFICES ASSUME NEW i \in DOMAIN StagedItems, NEW s \in onGpu
                 PROVE  Disjoint(StagedItems[i].slice, s)
      OBVIOUS
    <3>1. StagedItems[i] = NoItem \/ (StagedItems[i] \in Items /\ Has(StagedItems[i]))
      BY StagedThere
    <3>2. NoItem.slice = NoSlice /\ s \in Slices
      BY DEF NoItem, IInv, Shapes
    <3> QED
      BY <3>1, <3>2, NoSliceIsApart DEF IInv, Apart
  <2>3. \A s, u \in onGpu : s # u => Disjoint(s, u)
    BY DEF IInv, Apart
  <2> QED
    BY <2>1, <2>2, <2>3 DEF SlicesDisjoint
<1> QED
  BY <1>1, Inductive, PTL
==============================================================================
