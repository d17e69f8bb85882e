----------------------- MODULE RtxOptionLayersProofs ------------------------
(***************************************************************************)
(* Proofs about the layered options, for any options, layers, configs,     *)
(* values and blend settings: an option that is not marked dirty has the   *)
(* value that its layers resolve to (IInv), and every value has the blend  *)
(* settings of its layer (BInv), for which what resolving computes does    *)
(* not matter; then what it does compute, by induction over the layers,    *)
(* and that every queue has values it can compute with (VInv).             *)
(***************************************************************************)
EXTENDS RtxOptionLayers, WellFoundedInduction, TLAPS

IsQueue(q) == q = [l \in DOMAIN q |-> q[l]]

LimitsType == [min : Limit, max : Limit]

\* The inductive invariant: besides ResolvedIsCurrent, that the queues and the
\* resolved values are functions, so that one that is not updated stays the same.
IInv ==
  /\ queue = [o \in Options |-> queue[o]]
  /\ \A o \in Options : IsQueue(queue[o])
  /\ resolved = [o \in Options |-> resolved[o]]
  /\ limits \in [Options -> LimitsType]
  /\ ResolvedIsCurrent

-----------------------------------------------------------------------------
(* What the operations on a queue make of it *)

LEMMA PutIsQueue == ASSUME NEW q, NEW l, NEW v PROVE IsQueue(Put(q, l, v))
  BY DEF IsQueue, Put

LEMMA WithoutIsQueue == ASSUME NEW q, NEW l PROVE IsQueue(Without(q, l))
  BY DEF IsQueue, Without

LEMMA ApplyIsQueue ==
  ASSUME NEW q, IsQueue(q), NEW l, NEW o, NEW s, NEW t PROVE IsQueue(Apply(q, l, o, s, t))
  BY DEF IsQueue, Apply

\* A layer that has no value is not missed
LEMMA WithoutNothing ==
  ASSUME NEW q, IsQueue(q), NEW l, l \notin DOMAIN q PROVE Without(q, l) = q
  <1>1. DOMAIN q \ {l} = DOMAIN q
    OBVIOUS
  <1>2. Without(q, l) = [k \in DOMAIN q |-> q[k]]
    BY <1>1 DEF Without
  <1> QED
    BY <1>2 DEF IsQueue

\* A layer whose config does not set an option leaves it alone
LEMMA ApplyNothing ==
  ASSUME NEW q, NEW l, NEW o, NEW s, NEW t, o \notin Configured(l)
  PROVE  Apply(q, l, o, s, t) = q
  BY DEF Apply, Configured

\* What the invariant needs of a step that does not resolve anything: an option
\* whose queue is another one is dirty, the limits are the same, and nothing dirty or lost is forgotten.
LEMMA MarkedStep ==
  ASSUME IInv,
         queue' = [o \in Options |-> queue'[o]],
         \A o \in Options : IsQueue(queue'[o]),
         \A o \in Options : queue'[o] = queue[o] \/ o \in dirty',
         dirty \subseteq dirty' \cup lost', lost \subseteq lost',
         UNCHANGED <<limits, resolved>>
  PROVE  IInv'
  BY DEF IInv, ResolvedIsCurrent
-----------------------------------------------------------------------------
(* The steps of threads that set options *)

\* Setting the value of a layer, with whatever the operation makes of the queue
\* of the one option it is about, keeps the invariant if the option is marked.
LEMMA OneQueueStep ==
  ASSUME IInv, NEW o \in Options, NEW q, IsQueue(q),
         queue' = [queue EXCEPT ![o] = q], dirty' = dirty \cup {o}, UNCHANGED <<limits, resolved, lost>>
  PROVE  IInv'
  <1>1. queue' = [k \in Options |-> IF k = o THEN q ELSE queue[k]]
    BY DEF IInv
  <1>2. queue' = [k \in Options |-> queue'[k]]
    BY <1>1
  <1>3. \A k \in Options : IsQueue(queue'[k])
    BY <1>1 DEF IInv
  <1>4. \A k \in Options : queue'[k] = queue[k] \/ k \in dirty'
    BY <1>1
  <1> QED
    BY <1>2, <1>3, <1>4, MarkedStep

LEMMA SetImmediatelyStep ==
  ASSUME IInv, NEW o \in Options, NEW l, NEW v, SetImmediately(o, l, v) PROVE IInv'
  <1> DEFINE q == Put(queue[o], l, v)
  <1>1. queue' = [k \in Options |-> IF k = o THEN q ELSE queue[k]]
    BY DEF SetImmediately, IInv
  <1>2. resolved' = [k \in Options |-> IF k = o THEN Resolve(Kind[o], limits[o], queue'[o]) ELSE resolved[k]]
    BY DEF SetImmediately, IInv
  <1>3. IsQueue(q)
    BY PutIsQueue
  <1>4. \A k \in Options : IsQueue(queue'[k])
    BY <1>1, <1>3 DEF IInv
  <1>5. ResolvedIsCurrent'
    <2> SUFFICES ASSUME NEW k \in Options, k \notin dirty', k \notin lost'
                 PROVE  resolved'[k] = Resolve(Kind[k], limits'[k], queue'[k])
      BY DEF ResolvedIsCurrent
    <2>1. k # o /\ k \notin dirty /\ k \notin lost /\ UNCHANGED limits
      BY DEF SetImmediately
    <2> QED
      BY <2>1, <1>1, <1>2 DEF IInv, ResolvedIsCurrent
  <1>6. UNCHANGED limits
    BY DEF SetImmediately
  <1> HIDE DEF q
  <1>7. queue' = [k \in Options |-> queue'[k]] /\ resolved' = [k \in Options |-> resolved'[k]]
    BY <1>1, <1>2
  <1> QED
    BY <1>4, <1>5, <1>6, <1>7 DEF IInv

LEMMA SetSomethingStep == ASSUME IInv, NEW o \in Options, SetSomething(o) PROVE IInv'
  <1> PICK l \in Layers :
        \/ \E v \in Values[o] : SetDeferred(o, l, v) \/ SetImmediately(o, l, v)
        \/ \E h \in Hashes : (\E wanted \in BOOLEAN : SetHash(o, l, h, wanted)) \/ ClearHash(o, l, h)
    BY DEF SetSomething
  <1>1. ASSUME NEW v, SetDeferred(o, l, v) PROVE IInv'
    BY <1>1, PutIsQueue, OneQueueStep DEF SetDeferred
  <1>2. ASSUME NEW v, SetImmediately(o, l, v) PROVE IInv'
    BY <1>2, SetImmediatelyStep
  <1>3. ASSUME NEW h, NEW wanted, SetHash(o, l, h, wanted) PROVE IInv'
    BY <1>3, PutIsQueue, OneQueueStep DEF SetHash
  <1>4. ASSUME NEW h, ClearHash(o, l, h) PROVE IInv'
    <2> DEFINE set == Forget(Opinions(o, l), h)
    <2> DEFINE q == IF set = NoOpinions THEN Without(queue[o], l) ELSE Put(queue[o], l, set)
    <2>1. IsQueue(q)
      BY PutIsQueue, WithoutIsQueue
    <2>2. queue' = [queue EXCEPT ![o] = q] /\ dirty' = dirty \cup {o} /\ UNCHANGED <<limits, resolved, lost>>
      BY <1>4 DEF ClearHash
    <2> HIDE DEF q
    <2> QED
      BY <2>1, <2>2, OneQueueStep
  <1> QED
    BY <1>1, <1>2, <1>3, <1>4
-----------------------------------------------------------------------------
(* The steps of the rendering thread during a frame *)

LEMMA AcquireStep == ASSUME IInv, NEW l, Acquire(l) PROVE IInv'
  <1>1. CASE layer[l].refs > 0
    BY <1>1 DEF Acquire, IInv, ResolvedIsCurrent
  <1>2. CASE ~(layer[l].refs > 0)
    <2> DEFINE q(o) == Apply(queue[o], l, o, One, OwnThreshold)
    <2>1. /\ queue' = [o \in Options |-> q(o)]
          /\ dirty' = dirty \cup Configured(l) /\ UNCHANGED <<limits, resolved, lost>>
      BY <1>2 DEF Acquire
    <2>2. \A o \in Options : IsQueue(q(o))
      BY ApplyIsQueue DEF IInv
    <2>3. \A o \in Options : q(o) = queue[o] \/ o \in dirty'
      BY <2>1, ApplyNothing
    <2> HIDE DEF q
    <2> QED
      BY <2>1, <2>2, <2>3, MarkedStep
  <1> QED
    BY <1>1, <1>2

LEMMA ReleaseStep == ASSUME IInv, NEW l, Release(l) PROVE IInv'
  <1>1. CASE layer[l].refs > 1
    BY <1>1 DEF Release, IInv, ResolvedIsCurrent
  <1>2. CASE ~(layer[l].refs > 1)
    <2> DEFINE q(o) == Without(queue[o], l)
    <2>1. /\ queue' = [o \in Options |-> q(o)]
          /\ dirty' = dirty \cup Holding(l) /\ UNCHANGED <<limits, resolved, lost>>
      BY <1>2 DEF Release
    <2>2. \A o \in Options : IsQueue(q(o))
      BY WithoutIsQueue
    <2>3. \A o \in Options : q(o) = queue[o] \/ o \in dirty'
      BY <2>1, WithoutNothing DEF Holding, IInv
    <2> HIDE DEF q
    <2> QED
      BY <2>1, <2>2, <2>3, MarkedStep
  <1> QED
    BY <1>1, <1>2

LEMMA ReloadStep == ASSUME IInv, NEW l, Reload(l) PROVE IInv'
  <1> DEFINE kept(o) == IF o \in NoReset THEN queue[o] ELSE Without(queue[o], l)
  <1> DEFINE q(o) == Apply(kept(o), l, o, layer[l].strength, layer[l].threshold)
  <1>1. /\ queue' = [o \in Options |-> q(o)]
        /\ dirty' = dirty \cup (Holding(l) \ NoReset) \cup Configured(l)
        /\ UNCHANGED <<limits, resolved, lost>>
    BY DEF Reload
  <1>2. \A o \in Options : IsQueue(kept(o))
    BY WithoutIsQueue DEF IInv
  <1>3. \A o \in Options : kept(o) = queue[o] \/ o \in Holding(l) \ NoReset
    BY WithoutNothing DEF Holding, IInv
  <1> HIDE DEF kept
  <1>4. \A o \in Options : IsQueue(q(o))
    BY <1>2, ApplyIsQueue
  <1>5. \A o \in Options : q(o) = kept(o) \/ o \in Configured(l)
    BY ApplyNothing
  <1>6. \A o \in Options : q(o) = queue[o] \/ o \in dirty'
    BY <1>1, <1>3, <1>5
  <1> HIDE DEF q
  <1> QED
    BY <1>1, <1>4, <1>6, MarkedStep

LEMMA ClearStrongerStep ==
  ASSUME IInv, NEW o \in Options, NEW l, ClearStronger(o, l) PROVE IInv'
  <1> DEFINE stronger == { k \in DOMAIN queue[o] : k < l }
  <1> DEFINE q == [k \in DOMAIN queue[o] \ stronger |-> queue[o][k]]
  <1>1. queue' = [queue EXCEPT ![o] = q] /\ dirty' = dirty \cup {o} /\ UNCHANGED <<limits, resolved, lost>>
    BY DEF ClearStronger
  <1>2. IsQueue(q)
    BY DEF IsQueue
  <1> HIDE DEF q
  <1> QED
    BY <1>1, <1>2, OneQueueStep

LEMMA MoveStep ==
  ASSUME IInv, NEW o \in Options, NEW src, NEW dst, Move(o, src, dst) PROVE IInv'
  BY WithoutIsQueue, OneQueueStep DEF Move

LEMMA RemoveRedundantStep == ASSUME IInv, NEW l, RemoveRedundant(l) PROVE IInv'
  <1> DEFINE gone == { o \in Options : Redundant(Kind[o], limits[o], queue[o], l) }
  <1> DEFINE q(o) == IF o \in gone THEN Without(queue[o], l) ELSE queue[o]
  <1>1. /\ queue' = [o \in Options |-> q(o)]
        /\ dirty' = dirty \cup gone /\ UNCHANGED <<limits, resolved, lost>>
    BY DEF RemoveRedundant
  <1> HIDE DEF gone
  <1>2. \A o \in Options : IsQueue(q(o)) /\ (q(o) = queue[o] \/ o \in dirty')
    BY <1>1, WithoutIsQueue DEF IInv
  <1> HIDE DEF q
  <1> QED
    BY <1>1, <1>2, MarkedStep
-----------------------------------------------------------------------------
(* The steps of applyPendingValues *)

\* An option that no layer reads, removes or blends keeps its queue
LEMMA ApplyLayersStep == ASSUME IInv, ApplyLayers PROVE IInv'
  <1> DEFINE x(l) == ResolvedRequests(layer[l])
             live == { l \in Layers : layer[l].refs > 0 }
             kept(o) == { l \in DOMAIN queue[o] : l \in live => ~Removes(x(l), l, o) }
             read(o) == { l \in live : Reads(x(l), l, o) }
             touched(o) == \E l \in live : Reads(x(l), l, o) \/ Removes(x(l), l, o) \/ Blends(x(l), l, o)
             entry(o, l) ==
               IF l \in read(o)
               THEN [value |-> Config[l][o], strength |-> x(l).strength, threshold |-> x(l).threshold]
               ELSE IF l \in live /\ Blends(x(l), l, o)
               THEN [queue[o][l] EXCEPT !.strength = x(l).strength, !.threshold = x(l).threshold]
               ELSE queue[o][l]
             q(o) == [l \in kept(o) \cup read(o) |-> entry(o, l)]
  <1>1. /\ queue' = [o \in Options |-> q(o)]
        /\ dirty' = dirty \cup { o \in Options : touched(o) }
        /\ UNCHANGED <<limits, resolved, lost>>
    BY ZenonT(60) DEF ApplyLayers
  <1>2. \A o \in Options : IsQueue(q(o))
    <2> HIDE DEF kept, read, entry
    <2> QED
      BY DEF IsQueue
  <1>3. ASSUME NEW o \in Options, ~touched(o) PROVE q(o) = queue[o]
    <2>1. kept(o) = DOMAIN queue[o] /\ read(o) = {}
      BY <1>3, Zenon
    <2>2. \A l \in DOMAIN queue[o] : entry(o, l) = queue[o][l]
      BY <1>3, Zenon
    <2> HIDE DEF kept, read, entry
    <2>3. q(o) = [l \in DOMAIN queue[o] |-> queue[o][l]]
      BY <2>1, <2>2, Zenon
    <2> QED
      BY <2>3, Zenon DEF IInv, IsQueue
  <1> HIDE DEF q, touched
  <1> QED
    BY <1>1, <1>2, <1>3, MarkedStep

\* A pass resolves exactly what it forgets
LEMMA ResolvePassStep == ASSUME IInv, ResolvePass PROVE IInv'
  <1>1. resolved' = [o \in Options |-> IF o \in dirty THEN Resolve(Kind[o], limits[o], queue[o]) ELSE resolved[o]]
        /\ lost' = lost \ dirty /\ UNCHANGED <<queue, limits>>
    BY DEF ResolvePass
  <1>2. ResolvedIsCurrent'
    BY <1>1 DEF IInv, ResolvedIsCurrent
  <1> QED
    BY <1>1, <1>2 DEF IInv

LEMMA QuietStep ==
  ASSUME IInv, UNCHANGED <<queue, limits, resolved, dirty, lost>> PROVE IInv'
  BY DEF IInv, ResolvedIsCurrent

\* A limit that gets another value marks the option it is of
LEMMA CallbackStep == ASSUME IInv, NEW o \in Options, Callback(o) PROVE IInv'
  <1>1. UNCHANGED <<queue, resolved, lost>>
    BY DEF Callback
  <1>2. CASE UNCHANGED <<limits, dirty>>
    BY <1>1, <1>2, QuietStep
  <1>3. ASSUME NEW new \in Adjusts[o], SetLimit(new) PROVE IInv'
    <2> DEFINE p == new.option
               old == limits[p]
               lim == [old EXCEPT ![new.side] = new.at]
    <2>1. p \in Options /\ new.side \in {"min", "max"} /\ new.at \in Limit
      BY LimitsAssumption DEF Limit
    <2>2. limits' = [limits EXCEPT ![p] = lim]
      BY <1>3 DEF SetLimit
    <2>3. old \in LimitsType
      BY <2>1 DEF IInv
    <2>4. lim \in LimitsType
      BY <2>1, <2>3 DEF LimitsType
    <2>5. \A k \in Options : k # p => limits'[k] = limits[k]
      BY <2>2 DEF IInv
    <2>6. limits' \in [Options -> LimitsType]
      BY <2>1, <2>2, <2>4 DEF IInv
    <2>7. p \in dirty' \/ limits' = limits
      <3>1. CASE new.at = old[new.side]
        <4>1. lim = old
          BY <2>1, <2>3, <3>1 DEF LimitsType
        <4> HIDE DEF lim, old
        <4> QED
          BY <2>1, <2>2, <4>1 DEF IInv, old
      <3>2. CASE new.at # old[new.side]
        BY <1>3, <3>2 DEF SetLimit
      <3> QED
        BY <3>1, <3>2
    <2>8. dirty \subseteq dirty'
      BY <1>3 DEF SetLimit
    <2> HIDE DEF p, lim, old
    <2> QED
      BY <1>1, <2>5, <2>6, <2>7, <2>8 DEF IInv, ResolvedIsCurrent
  <1> QED
    BY <1>2, <1>3 DEF Callback

LEMMA ApplyPendingValuesStep == ASSUME IInv, ApplyPendingValues PROVE IInv'
  <1>1. ASSUME NEW o \in Options, Callback(o) PROVE IInv'
    BY <1>1, CallbackStep
  <1>2. CASE PassDone
    BY <1>2, QuietStep DEF PassDone
  <1>3. CASE ClearDirty
    BY <1>3, MarkedStep DEF ClearDirty, IInv
  <1> QED
    BY <1>1, <1>2, <1>3, ResolvePassStep DEF ApplyPendingValues
-----------------------------------------------------------------------------
LEMMA InitIsCurrent == Init => IInv
  <1> SUFFICES ASSUME Init PROVE IInv
    OBVIOUS
  <1>1. limits \in [Options -> LimitsType]
    BY LimitsAssumption DEF Init, LimitsType
  <1> QED
    BY <1>1 DEF Init, IInv, IsQueue, ResolvedIsCurrent

LEMMA NextIsCurrent == IInv /\ [Next]_vars => IInv'
  <1> SUFFICES ASSUME IInv, [Next]_vars PROVE IInv'
    OBVIOUS
  <1>1. CASE UNCHANGED vars
    BY <1>1, QuietStep DEF vars
  <1>2. CASE UserInterface
    BY <1>2, ReloadStep, RemoveRedundantStep, ClearStrongerStep, MoveStep DEF UserInterface
  <1>3. CASE Components
    <2>1. ASSUME NEW l, NEW e, NEW s, NEW t, Request(l, e, s, t) PROVE IInv'
      BY <2>1, QuietStep DEF Request
    <2> QED
      BY <1>3, <2>1, AcquireStep, ReleaseStep DEF Components
  <1> QED
    BY <1>1, <1>2, <1>3, SetSomethingStep, ApplyLayersStep, ApplyPendingValuesStep DEF Next

\* Whoever changes what a layer says of an option, how the layer blends or a limit of
\* the option, on any thread, in any order and in callbacks, marks the option: one
\* that is not marked dirty has the value its layers resolve to within its limits,
\* unless the end of applyPendingValues swept its dirt.
THEOREM OptionsAreCurrent == Spec => []ResolvedIsCurrent
  <1>1. IInv => ResolvedIsCurrent
    BY DEF IInv
  <1> QED
    BY <1>1, InitIsCurrent, NextIsCurrent, PTL DEF Spec
-----------------------------------------------------------------------------
(* Types and blend settings *)

LayerType == [refs : Nat, enabled : BOOLEAN, strength : Int, threshold : Int,
              dirty : BOOLEAN, blendDirty : BOOLEAN,
              reqEnabled : {"none", "on", "off"}, reqStrength : Int, reqThreshold : Int]

IsEntry(e) == e = [value |-> e.value, strength |-> e.strength, threshold |-> e.threshold]

\* What a queue holds, given the layers and what was missed: the default layer has
\* a value, every other value is of a layer that is there, and it has the blend
\* settings of that layer or is known to have missed them.
Fits(q, o, lay, mis) ==
  /\ N \in DOMAIN q
  /\ \A l \in DOMAIN q :
       /\ l \in Layers /\ lay[l].refs > 0 /\ IsEntry(q[l])
       /\ ~Differs(q[l], lay[l]) \/ <<o, l>> \in mis

\* Layers that no component acquires are there and enabled for good
BInv ==
  /\ IInv
  /\ layer \in [Layers -> LayerType]
  /\ \A l \in Layers \ Dynamic :
       layer[l].refs > 0 /\ layer[l].enabled /\ layer[l].reqEnabled = "none"
  /\ dirty \subseteq Options /\ lost \subseteq Options
  /\ \A o \in Options : Fits(queue[o], o, layer, missed)

LEMMA PutFits ==
  ASSUME NEW q, NEW o, NEW l, NEW v, Known(l), Fits(q, o, layer, missed)
  PROVE  Fits(Put(q, l, v), o, layer, missed)
  <1> DEFINE r == Put(q, l, v)
  <1>1. l \in Layers /\ layer[l].refs > 0
    BY DEF Known
  <1>2. DOMAIN r = DOMAIN q \cup {l} /\ \A k \in DOMAIN q : k # l => r[k] = q[k]
    BY DEF Put
  <1>3. IsEntry(r[l]) /\ (~Differs(r[l], layer[l]) \/ <<o, l>> \in missed)
    <2>1. CASE l \in DOMAIN q
      <3>1. r[l] = [q[l] EXCEPT !.value = v] /\ IsEntry(q[l])
        BY <2>1 DEF Put, Fits
      <3>2. r[l] = [value |-> v, strength |-> q[l].strength, threshold |-> q[l].threshold]
        BY <3>1 DEF IsEntry
      <3> HIDE DEF r
      <3>3. IsEntry(r[l]) /\ r[l].strength = q[l].strength /\ r[l].threshold = q[l].threshold
        BY <3>2 DEF IsEntry
      <3> QED
        BY <2>1, <3>3 DEF Fits, Differs
    <2>2. CASE l \notin DOMAIN q
      <3>1. r[l] = [value |-> v, strength |-> layer[l].strength, threshold |-> layer[l].threshold]
        BY <2>2 DEF Put, Entry
      <3> HIDE DEF r
      <3> QED
        BY <3>1 DEF IsEntry, Differs
    <2> QED
      BY <2>1, <2>2
  <1> HIDE DEF r
  <1>4. Fits(r, o, layer, missed)
    BY <1>1, <1>2, <1>3 DEF Fits
  <1> QED
    BY <1>4 DEF r

LEMMA WithoutFits ==
  ASSUME NEW q, NEW o, NEW l, l # N, Fits(q, o, layer, missed)
  PROVE  Fits(Without(q, l), o, layer, missed)
  BY DEF Fits, Without

LEMMA ApplyFits ==
  ASSUME NEW q, NEW o, NEW l \in Layers, NEW lay, NEW mis,
         \* other layers' values are as they were
         N \in DOMAIN q,
         \A k \in DOMAIN q : k # l \/ o \notin Configured(l) =>
           /\ k \in Layers /\ lay[k].refs > 0 /\ IsEntry(q[k])
           /\ ~Differs(q[k], lay[k]) \/ <<o, k>> \in mis,
         lay[l].refs > 0
  PROVE  Fits(Apply(q, l, o, lay[l].strength, lay[l].threshold), o, lay, mis)
  <1> DEFINE r == Apply(q, l, o, lay[l].strength, lay[l].threshold)
  <1>1. CASE o \notin Configured(l)
    BY <1>1, ApplyNothing DEF Fits
  <1>2. CASE o \in Configured(l)
    <2>1. /\ DOMAIN r = DOMAIN q \cup {l} /\ \A k \in DOMAIN q : k # l => r[k] = q[k]
          /\ r[l] = [value |-> Config[l][o], strength |-> lay[l].strength,
                     threshold |-> lay[l].threshold]
      BY <1>2 DEF Apply, Configured
    <2> HIDE DEF r
    <2>2. IsEntry(r[l]) /\ ~Differs(r[l], lay[l])
      BY <2>1 DEF IsEntry, Differs
    <2>3. Fits(r, o, lay, mis)
      BY <1>2, <2>1, <2>2 DEF Fits
    <2> QED
      BY <2>3 DEF r
  <1> QED
    BY <1>1, <1>2

\* Layers that keep their blend settings, and are there if they were
LEMMA SameLayersFit ==
  ASSUME NEW q, NEW o, NEW lay, NEW mis, Fits(q, o, layer, missed),
         \A l \in DOMAIN q :
           /\ l \in Layers => /\ layer[l].refs > 0 => lay[l].refs > 0
                              /\ lay[l].strength = layer[l].strength
                              /\ lay[l].threshold = layer[l].threshold
           /\ <<o, l>> \in missed => <<o, l>> \in mis
  PROVE  Fits(q, o, lay, mis)
  BY DEF Fits, Differs

\* A step that leaves the layers as they are
LEMMA QueuesStep ==
  ASSUME BInv, IInv', UNCHANGED <<layer, missed>>, dirty' \subseteq Options, lost' \subseteq Options,
         \A o \in Options : Fits(queue'[o], o, layer, missed)
  PROVE  BInv'
  BY DEF BInv

LEMMA OneFits ==
  ASSUME BInv, IInv', NEW o \in Options, NEW q, Fits(q, o, layer, missed),
         queue' = [queue EXCEPT ![o] = q], dirty' = dirty \cup {o}, UNCHANGED <<layer, missed, lost>>
  PROVE  BInv'
  <1>1. \A k \in Options : queue'[k] = IF k = o THEN q ELSE queue[k]
    BY DEF BInv, IInv
  <1>2. \A k \in Options : Fits(queue'[k], k, layer, missed)
    BY <1>1 DEF BInv
  <1> QED
    BY <1>2, QueuesStep DEF BInv

LEMMA SetSomethingFits == ASSUME BInv, IInv', NEW o \in Options, SetSomething(o) PROVE BInv'
  <1> PICK l \in Layers :
        \/ \E v \in Values[o] : SetDeferred(o, l, v) \/ SetImmediately(o, l, v)
        \/ \E h \in Hashes : (\E wanted \in BOOLEAN : SetHash(o, l, h, wanted)) \/ ClearHash(o, l, h)
    BY DEF SetSomething
  <1>1. Fits(queue[o], o, layer, missed)
    BY DEF BInv
  <1>2. ASSUME NEW v, SetDeferred(o, l, v) \/ SetImmediately(o, l, v) PROVE BInv'
    <2>1. Fits(Put(queue[o], l, v), o, layer, missed)
      BY <1>1, <1>2, PutFits DEF SetDeferred, SetImmediately
    <2> QED
      BY <1>2, <2>1, OneFits DEF SetDeferred, SetImmediately
  <1>3. ASSUME NEW h, NEW wanted, SetHash(o, l, h, wanted) PROVE BInv'
    BY <1>1, <1>3, PutFits, OneFits DEF SetHash
  <1>4. ASSUME NEW h, ClearHash(o, l, h) PROVE BInv'
    <2> DEFINE set == Forget(Opinions(o, l), h)
    <2> DEFINE q == IF set = NoOpinions THEN Without(queue[o], l) ELSE Put(queue[o], l, set)
    <2>1. Fits(q, o, layer, missed)
      BY <1>1, <1>4, PutFits, WithoutFits DEF ClearHash, Known
    <2>2. /\ queue' = [queue EXCEPT ![o] = q] /\ dirty' = dirty \cup {o}
          /\ UNCHANGED <<layer, missed, lost>>
      BY <1>4 DEF ClearHash
    <2> HIDE DEF q
    <2> QED
      BY <2>1, <2>2, OneFits
  <1> QED
    BY <1>2, <1>3, <1>4

LEMMA ClearStrongerFits ==
  ASSUME BInv, IInv', NEW o \in Options, NEW l, ClearStronger(o, l) PROVE BInv'
  <1> DEFINE stronger == { k \in DOMAIN queue[o] : k < l }
             q == [k \in DOMAIN queue[o] \ stronger |-> queue[o][k]]
  <1>1. /\ queue' = [queue EXCEPT ![o] = q] /\ dirty' = dirty \cup {o}
        /\ UNCHANGED <<layer, missed, lost>> /\ l \in Layers
    BY DEF ClearStronger
  <1>2. N \notin stronger
    BY <1>1, LayersAssumption DEF Layers
  <1> HIDE DEF stronger
  <1>3. Fits(q, o, layer, missed)
    BY <1>2 DEF BInv, Fits
  <1> HIDE DEF q
  <1> QED
    BY <1>1, <1>3, OneFits

LEMMA MoveFits ==
  ASSUME BInv, IInv', NEW o \in Options, NEW src, NEW dst, Move(o, src, dst) PROVE BInv'
  <1>1. Fits(Put(queue[o], dst, Moved(o, src, dst)), o, layer, missed)
    BY PutFits DEF Move, BInv
  <1>2. Fits(Without(Put(queue[o], dst, Moved(o, src, dst)), src), o, layer, missed)
    BY <1>1, WithoutFits DEF Move, Known
  <1> QED
    BY <1>2, OneFits DEF Move

LEMMA RemoveRedundantFits == ASSUME BInv, IInv', NEW l, RemoveRedundant(l) PROVE BInv'
  <1> DEFINE gone == { o \in Options : Redundant(Kind[o], limits[o], queue[o], l) }
             q(o) == IF o \in gone THEN Without(queue[o], l) ELSE queue[o]
  <1>1. /\ queue' = [o \in Options |-> q(o)] /\ dirty' = dirty \cup gone
        /\ UNCHANGED <<layer, missed, lost>> /\ l # N
    BY DEF RemoveRedundant, Known
  <1>2. gone \subseteq Options
    OBVIOUS
  <1> HIDE DEF gone
  <1>3. \A o \in Options : Fits(q(o), o, layer, missed)
    BY <1>1, WithoutFits DEF BInv
  <1> HIDE DEF q
  <1> QED
    BY <1>1, <1>2, <1>3, QueuesStep DEF BInv

LEMMA AcquireFits == ASSUME BInv, IInv', NEW l, Acquire(l) PROVE BInv'
  <1>1. /\ l \in Layers /\ l \in Dynamic /\ UNCHANGED lost
        /\ Configured(l) \subseteq Options
    BY LayersAssumption DEF Acquire, Configured
  <1>2. layer[l] \in LayerType
    BY <1>1 DEF BInv
  <1>3. CASE layer[l].refs > 0
    <2>1. /\ layer' = [layer EXCEPT ![l] = [layer[l] EXCEPT !.refs = layer[l].refs + 1]]
          /\ UNCHANGED <<queue, dirty, missed>>
      BY <1>3 DEF Acquire
    <2> DEFINE new == [layer[l] EXCEPT !.refs = layer[l].refs + 1]
    <2>2. /\ new \in LayerType /\ new.refs > 0
          /\ new.strength = layer[l].strength /\ new.threshold = layer[l].threshold
      BY <1>2, <1>3 DEF LayerType
    <2> HIDE DEF new
    <2>3. layer' \in [Layers -> LayerType] /\ \A k \in Layers : layer'[k] = IF k = l THEN new ELSE layer[k]
      BY <1>1, <2>1, <2>2 DEF BInv, new
    <2>4. \A o \in Options : Fits(queue[o], o, layer', missed)
      BY <2>2, <2>3, SameLayersFit DEF BInv
    <2> QED
      BY <1>1, <2>1, <2>3, <2>4 DEF BInv
  <1>4. CASE ~(layer[l].refs > 0)
    <2>1. PICK b \in BOOLEAN :
            layer' = [layer EXCEPT ![l] = [NewLayer EXCEPT !.blendDirty = b]]
      BY <1>4 DEF Acquire
    <2>2. /\ queue' = [o \in Options |-> Apply(queue[o], l, o, One, OwnThreshold)]
          /\ dirty' = dirty \cup Configured(l)
          /\ missed' = { m \in missed : m[2] # l }
      BY <1>4 DEF Acquire
    <2> DEFINE new == [NewLayer EXCEPT !.blendDirty = b]
    <2>3. /\ new \in LayerType /\ new.refs > 0
          /\ new.strength = One /\ new.threshold = OwnThreshold
      <3>1. One \in Int /\ OwnThreshold \in Int /\ Empty \in Int /\ -1 \in Int /\ 1 \in Nat /\ 1 > 0
        BY BlendAssumption DEF Empty
      <3>2. /\ NewLayer \in LayerType /\ NewLayer.refs = 1
            /\ NewLayer.strength = One /\ NewLayer.threshold = OwnThreshold
        BY <3>1 DEF LayerType, NewLayer
      <3> QED
        BY <3>1, <3>2 DEF LayerType
    <2> HIDE DEF new
    <2>4. layer' \in [Layers -> LayerType] /\ \A k \in Layers : layer'[k] = IF k = l THEN new ELSE layer[k]
      BY <1>1, <2>1, <2>3 DEF BInv, new
    <2>5. ASSUME NEW o \in Options
          PROVE  Fits(Apply(queue[o], l, o, One, OwnThreshold), o, layer', missed')
      <3>1. N \in DOMAIN queue[o]
        BY DEF BInv, Fits
      <3>2. \A k \in DOMAIN queue[o] :
              /\ k # l /\ k \in Layers /\ layer'[k].refs > 0 /\ IsEntry(queue[o][k])
              /\ ~Differs(queue[o][k], layer'[k]) \/ <<o, k>> \in missed'
        <4> SUFFICES ASSUME NEW k \in DOMAIN queue[o]
                     PROVE  /\ k # l /\ k \in Layers /\ layer'[k].refs > 0 /\ IsEntry(queue[o][k])
                            /\ ~Differs(queue[o][k], layer'[k]) \/ <<o, k>> \in missed'
          OBVIOUS
        <4>1. /\ k \in Layers /\ layer[k].refs > 0 /\ IsEntry(queue[o][k])
              /\ ~Differs(queue[o][k], layer[k]) \/ <<o, k>> \in missed
          BY DEF BInv, Fits
        <4>2. k # l /\ layer'[k] = layer[k]
          BY <1>4, <2>4, <4>1
        <4> QED
          BY <2>2, <4>1, <4>2
      <3>3. /\ layer'[l].refs > 0
            /\ layer'[l].strength = One /\ layer'[l].threshold = OwnThreshold
        BY <1>1, <2>3, <2>4
      <3>4. Fits(Apply(queue[o], l, o, layer'[l].strength, layer'[l].threshold), o, layer', missed')
        BY <1>1, <3>1, <3>2, <3>3, ApplyFits
      <3> QED
        BY <3>3, <3>4
    <2>6. \A o \in Options : Fits(queue'[o], o, layer', missed')
      BY <2>2, <2>5
    <2> QED
      BY <1>1, <2>2, <2>4, <2>6 DEF BInv
  <1> QED
    BY <1>3, <1>4

LEMMA ReleaseFits == ASSUME BInv, IInv', NEW l, Release(l) PROVE BInv'
  <1>1. l \in Layers /\ l \in Dynamic /\ l # N /\ UNCHANGED lost /\ layer[l].refs > 0
    BY LayersAssumption DEF Release
  <1> DEFINE new == [layer[l] EXCEPT !.refs = layer[l].refs - 1]
  <1>2. /\ new \in LayerType /\ new.refs = layer[l].refs - 1 /\ layer[l].refs \in Nat
        /\ new.strength = layer[l].strength /\ new.threshold = layer[l].threshold
    <2>1. layer[l] \in LayerType
      BY <1>1 DEF BInv
    <2>2. layer[l].refs \in Nat /\ layer[l].refs - 1 \in Nat
      BY <1>1, <2>1 DEF LayerType
    <2> QED
      BY <2>1, <2>2 DEF LayerType
  <1>3. layer' = [layer EXCEPT ![l] = new]
    BY DEF Release
  <1> HIDE DEF new
  <1>4. layer' \in [Layers -> LayerType] /\ \A k \in Layers : layer'[k] = IF k = l THEN new ELSE layer[k]
    BY <1>1, <1>2, <1>3 DEF BInv
  <1>5. CASE layer[l].refs > 1
    <2>1. UNCHANGED <<queue, dirty, missed>>
      BY <1>5 DEF Release
    <2>2. new.refs > 0
      BY <1>2, <1>5
    <2>3. \A o \in Options : Fits(queue[o], o, layer', missed)
      BY <1>2, <1>4, <2>2, SameLayersFit DEF BInv
    <2> QED
      BY <1>1, <1>4, <2>1, <2>3 DEF BInv
  <1>6. CASE ~(layer[l].refs > 1)
    <2>1. /\ queue' = [o \in Options |-> Without(queue[o], l)]
          /\ dirty' = dirty \cup Holding(l)
          /\ missed' = { m \in missed : m[2] # l }
      BY <1>6 DEF Release
    <2>2. ASSUME NEW o \in Options PROVE Fits(Without(queue[o], l), o, layer', missed')
      <3>1. Fits(Without(queue[o], l), o, layer, missed) /\ l \notin DOMAIN Without(queue[o], l)
        BY <1>1, WithoutFits DEF BInv, Without
      <3> QED
        BY <1>4, <2>1, <3>1, SameLayersFit DEF Fits
    <2>3. \A o \in Options : Fits(queue'[o], o, layer', missed')
      BY <2>1, <2>2
    <2>4. dirty' \subseteq Options
      BY <2>1 DEF BInv, Holding
    <2> QED
      BY <1>1, <1>4, <2>3, <2>4 DEF BInv
  <1> QED
    BY <1>5, <1>6

LEMMA RequestFits ==
  ASSUME BInv, IInv', NEW l, NEW e \in BOOLEAN, NEW s \in Strengths, NEW t \in Thresholds,
         Request(l, e, s, t)
  PROVE  BInv'
  <1>1. /\ l \in Layers /\ l \in Dynamic /\ UNCHANGED <<queue, dirty, lost, missed>>
        /\ s \in Int /\ t \in Int
    BY LayersAssumption, BlendAssumption DEF Request
  <1> DEFINE x == layer[l]
             en == IF e THEN "on" ELSE IF x.reqEnabled = "none" THEN "off" ELSE x.reqEnabled
             st == IF e /\ s > x.reqStrength THEN s ELSE x.reqStrength
             th == IF e /\ t < x.reqThreshold THEN t ELSE x.reqThreshold
             new == [x EXCEPT !.reqEnabled = en, !.reqStrength = st, !.reqThreshold = th]
  <1>2. x \in LayerType
    BY <1>1 DEF BInv
  <1>3. en \in {"none", "on", "off"} /\ st \in Int /\ th \in Int
    BY <1>1, <1>2 DEF LayerType
  <1>4. layer' = [layer EXCEPT ![l] = new]
    BY <1>1 DEF Request, BInv
  <1> HIDE DEF en, st, th
  <1>5. /\ new \in LayerType /\ new.refs = x.refs
        /\ new.strength = x.strength /\ new.threshold = x.threshold
    BY <1>2, <1>3 DEF LayerType
  <1> HIDE DEF new
  <1>6. layer' \in [Layers -> LayerType] /\ \A k \in Layers : layer'[k] = IF k = l THEN new ELSE layer[k]
    BY <1>1, <1>4, <1>5 DEF BInv
  <1>7. \A o \in Options : Fits(queue[o], o, layer', missed)
    BY <1>5, <1>6, SameLayersFit DEF BInv
  <1> QED
    BY <1>1, <1>6, <1>7 DEF BInv

LEMMA ReloadFits == ASSUME BInv, IInv', NEW l, Reload(l) PROVE BInv'
  <1> DEFINE kept(o) == IF o \in NoReset THEN queue[o] ELSE Without(queue[o], l)
             q(o) == Apply(kept(o), l, o, layer[l].strength, layer[l].threshold)
             b == layer[l].blendDirty /\ Configured(l) = {}
             new == [layer[l] EXCEPT !.blendDirty = b]
  <1>1. /\ queue' = [o \in Options |-> q(o)]
        /\ dirty' = dirty \cup (Holding(l) \ NoReset) \cup Configured(l)
        /\ layer' = [layer EXCEPT ![l] = new]
        /\ UNCHANGED <<lost, missed>> /\ l \in Layers /\ l # N /\ layer[l].refs > 0
    BY DEF Reload, Known
  <1>2. \A o \in Options : Fits(kept(o), o, layer, missed)
    BY <1>1, WithoutFits DEF BInv
  <1> HIDE DEF kept
  <1>3. \A o \in Options : Fits(q(o), o, layer, missed)
    BY <1>1, <1>2, ApplyFits DEF Fits
  <1> HIDE DEF q
  <1>4. /\ new \in LayerType /\ new.refs = layer[l].refs /\ new.enabled = layer[l].enabled
        /\ new.reqEnabled = layer[l].reqEnabled
        /\ new.strength = layer[l].strength /\ new.threshold = layer[l].threshold
    <2>1. layer[l] \in LayerType /\ b \in BOOLEAN
      BY <1>1 DEF BInv
    <2> HIDE DEF b
    <2> QED
      BY <2>1 DEF LayerType
  <1> HIDE DEF new
  <1>5. layer' \in [Layers -> LayerType] /\ \A k \in Layers : layer'[k] = IF k = l THEN new ELSE layer[k]
    BY <1>1, <1>4 DEF BInv
  <1>6. \A o \in Options : Fits(q(o), o, layer', missed)
    BY <1>3, <1>4, <1>5 DEF Fits, Differs
  <1>7. dirty' \subseteq Options
    BY <1>1, LayersAssumption DEF BInv, Holding, Configured
  <1> QED
    BY <1>1, <1>4, <1>5, <1>6, <1>7 DEF BInv

LEMMA RequestsResolved ==
  ASSUME NEW y \in LayerType
  PROVE  /\ ResolvedRequests(y) \in LayerType
         /\ ResolvedRequests(y).refs = y.refs
         /\ ResolvedRequests(y).reqEnabled = "none"
         /\ y.enabled /\ y.reqEnabled = "none" => ResolvedRequests(y).enabled
         /\ ~ResolvedRequests(y).blendDirty =>
              /\ ResolvedRequests(y).strength = y.strength
              /\ ResolvedRequests(y).threshold = y.threshold
  <1> DEFINE en == IF y.reqEnabled = "none" THEN y.enabled ELSE y.reqEnabled = "on"
             st == IF y.reqStrength > -1 THEN y.reqStrength ELSE y.strength
             th == IF y.reqThreshold < Empty THEN y.reqThreshold ELSE y.threshold
             di == y.dirty \/ en # y.enabled
             bd == y.blendDirty \/ st # y.strength \/ th # y.threshold
             r == [y EXCEPT !.enabled = en, !.strength = st, !.threshold = th,
                            !.dirty = di, !.blendDirty = bd,
                            !.reqEnabled = "none", !.reqStrength = -1, !.reqThreshold = Empty]
  <1>1. ResolvedRequests(y) = r
    BY Zenon DEF ResolvedRequests
  <1>2. /\ en \in BOOLEAN /\ st \in Int /\ th \in Int /\ di \in BOOLEAN /\ bd \in BOOLEAN
        /\ Empty \in Int /\ -1 \in Int
        /\ y.enabled /\ y.reqEnabled = "none" => en
        /\ ~bd => st = y.strength /\ th = y.threshold
    <2>1. /\ y.enabled \in BOOLEAN /\ y.dirty \in BOOLEAN /\ y.blendDirty \in BOOLEAN
          /\ y.strength \in Int /\ y.threshold \in Int
          /\ y.reqStrength \in Int /\ y.reqThreshold \in Int
      BY DEF LayerType
    <2>2. Empty \in Int /\ -1 \in Int
      BY BlendAssumption DEF Empty
    <2>3. en \in BOOLEAN /\ (y.enabled /\ y.reqEnabled = "none" => en)
      BY <2>1, Zenon
    <2>4. st \in Int /\ th \in Int
      BY <2>1
    <2> HIDE DEF en, st, th
    <2>5. di \in BOOLEAN /\ bd \in BOOLEAN /\ (~bd => st = y.strength /\ th = y.threshold)
      BY <2>1, <2>3, Zenon
    <2> QED
      BY <2>2, <2>3, <2>4, <2>5, Zenon
  <1> HIDE DEF en, st, th, di, bd
  <1>3. /\ r \in LayerType /\ r.refs = y.refs /\ r.reqEnabled = "none"
        /\ r.enabled = en /\ r.blendDirty = bd /\ r.strength = st /\ r.threshold = th
    BY <1>2, ZenonT(40) DEF LayerType
  <1> HIDE DEF r
  <1> QED
    BY <1>1, <1>2, <1>3

LEMMA ApplyLayersFits == ASSUME BInv, IInv', ApplyLayers PROVE BInv'
  <1> DEFINE x(l) == ResolvedRequests(layer[l])
             live == { l \in Layers : layer[l].refs > 0 }
             kept(o) == { l \in DOMAIN queue[o] : l \in live => ~Removes(x(l), l, o) }
             read(o) == { l \in live : Reads(x(l), l, o) }
             entry(o, l) ==
               IF l \in read(o)
               THEN [value |-> Config[l][o], strength |-> x(l).strength, threshold |-> x(l).threshold]
               ELSE IF l \in live /\ Blends(x(l), l, o)
               THEN [queue[o][l] EXCEPT !.strength = x(l).strength, !.threshold = x(l).threshold]
               ELSE queue[o][l]
             overlooked(l) == { o \in Holding(l) : ~Reads(x(l), l, o) /\ Differs(queue[o][l], x(l)) }
             off == { k \in live : x(k).dirty /\ x(k).enabled /\ x(k).blendDirty
                                   /\ ~Reblends(x(k), k) }
             new(l) == [x(l) EXCEPT !.dirty = FALSE, !.blendDirty = FALSE]
             q(o) == [l \in kept(o) \cup read(o) |-> entry(o, l)]
  <1>1. /\ layer' = [l \in Layers |-> IF l \in live THEN new(l) ELSE layer[l]]
        /\ queue' = [o \in Options |-> q(o)]
        /\ dirty' = dirty \cup { o \in Options : \E l \in live :
                      Reads(x(l), l, o) \/ Removes(x(l), l, o) \/ Blends(x(l), l, o) }
        /\ missed' = { m \in missed : m[2] \in live => ~Reblends(x(m[2]), m[2]) }
                     \cup UNION { { <<o, l>> : o \in overlooked(l) } : l \in off }
        /\ UNCHANGED lost
    BY ZenonT(60) DEF ApplyLayers
  <1>2. ASSUME NEW l \in Layers
        PROVE  /\ layer[l] \in LayerType /\ x(l) \in LayerType /\ new(l) \in LayerType
               /\ new(l).refs = layer[l].refs /\ new(l).reqEnabled = "none"
               /\ new(l).enabled = x(l).enabled
               /\ new(l).strength = x(l).strength /\ new(l).threshold = x(l).threshold
               /\ layer[l].enabled /\ layer[l].reqEnabled = "none" => x(l).enabled
               /\ ~x(l).blendDirty => /\ x(l).strength = layer[l].strength
                                      /\ x(l).threshold = layer[l].threshold
    <2>1. layer[l] \in LayerType
      BY DEF BInv
    <2>2. /\ x(l) \in LayerType /\ x(l).refs = layer[l].refs /\ x(l).reqEnabled = "none"
          /\ layer[l].enabled /\ layer[l].reqEnabled = "none" => x(l).enabled
          /\ ~x(l).blendDirty => /\ x(l).strength = layer[l].strength
                                 /\ x(l).threshold = layer[l].threshold
      BY <2>1, RequestsResolved, Zenon
    <2> HIDE DEF x
    <2>3. /\ new(l) \in LayerType /\ new(l).refs = x(l).refs /\ new(l).reqEnabled = x(l).reqEnabled
          /\ new(l).enabled = x(l).enabled
          /\ new(l).strength = x(l).strength /\ new(l).threshold = x(l).threshold
      BY <2>2 DEF LayerType
    <2> QED
      BY <2>1, <2>2, <2>3, Zenon
  <1> HIDE DEF x, new
  <1>3. /\ layer' \in [Layers -> LayerType]
        /\ \A l \in Layers : layer'[l] = IF l \in live THEN new(l) ELSE layer[l]
    BY <1>1, <1>2, Zenon DEF BInv
  <1>4. \A l \in Layers \ Dynamic :
          layer'[l].refs > 0 /\ layer'[l].enabled /\ layer'[l].reqEnabled = "none"
    BY <1>2, <1>3 DEF BInv
  <1>5. dirty' \subseteq Options
    BY <1>1 DEF BInv
  <1>7. ASSUME NEW o \in Options PROVE Fits(q(o), o, layer', missed')
    <2>1. N \in kept(o)
      <3>1. N \in Layers /\ N \notin Dynamic
        BY LayersAssumption DEF Layers
      <3>2. x(N).enabled /\ N \in DOMAIN queue[o]
        BY <1>2, <3>1 DEF BInv, Fits
      <3> QED
        BY <3>2 DEF Removes
    <2>2. ASSUME NEW l \in kept(o) \cup read(o)
          PROVE  /\ l \in Layers /\ layer'[l].refs > 0 /\ IsEntry(entry(o, l))
                 /\ ~Differs(entry(o, l), layer'[l]) \/ <<o, l>> \in missed'
      <3>1. l \in live /\ l \in Layers /\ layer[l].refs > 0
        BY DEF BInv, Fits
      <3>2. /\ layer'[l].refs = layer[l].refs
            /\ layer'[l].strength = x(l).strength /\ layer'[l].threshold = x(l).threshold
        BY <1>2, <1>3, <3>1
      <3>3. CASE l \in read(o)
        <4>1. entry(o, l) = [value |-> Config[l][o], strength |-> x(l).strength,
                             threshold |-> x(l).threshold]
          BY <3>3
        <4> HIDE DEF entry
        <4> QED
          BY <3>1, <3>2, <4>1 DEF IsEntry, Differs
      <3>4. CASE l \notin read(o)
        <4>1. /\ l \in DOMAIN queue[o] /\ ~Removes(x(l), l, o) /\ ~Reads(x(l), l, o)
              /\ IsEntry(queue[o][l])
              /\ ~Differs(queue[o][l], layer[l]) \/ <<o, l>> \in missed
          BY <3>1, <3>4 DEF BInv, Fits
        <4>2. CASE Blends(x(l), l, o)
          <5>1. entry(o, l) = [queue[o][l] EXCEPT !.strength = x(l).strength,
                                                  !.threshold = x(l).threshold]
            BY <3>1, <3>4, <4>2
          <5>2. entry(o, l) = [value |-> queue[o][l].value, strength |-> x(l).strength,
                               threshold |-> x(l).threshold]
            BY <4>1, <5>1 DEF IsEntry
          <5> HIDE DEF entry
          <5> QED
            BY <3>1, <3>2, <5>2 DEF IsEntry, Differs
        <4>3. CASE ~Blends(x(l), l, o) /\ ~Differs(queue[o][l], x(l))
          <5>1. entry(o, l) = queue[o][l]
            BY <3>4, <4>3
          <5> HIDE DEF entry
          <5> QED
            BY <3>1, <3>2, <4>1, <4>3, <5>1 DEF Differs
        <4>4. CASE ~Blends(x(l), l, o) /\ Differs(queue[o][l], x(l))
          <5>1. entry(o, l) = queue[o][l]
            BY <3>4, <4>4
          <5>2. ~Reblends(x(l), l)
            BY <4>1, <4>4 DEF Blends
          <5>3. <<o, l>> \in missed'
            <6>1. CASE ~x(l).blendDirty
              <7>1. <<o, l>> \in missed
                BY <1>2, <3>1, <4>1, <4>4, <6>1 DEF Differs
              <7> QED
                BY <1>1, <5>2, <7>1
            <6>2. CASE x(l).blendDirty
              <7>1. l \in off
                BY <3>1, <5>2, <6>2 DEF Reblends
              <7>2. o \in overlooked(l)
                BY <4>1, <4>4 DEF Holding
              <7> HIDE DEF off, overlooked
              <7>3. <<o, l>> \in UNION { { <<p, k>> : p \in overlooked(k) } : k \in off }
                BY <7>1, <7>2
              <7> QED
                BY <1>1, <7>3
            <6> QED
              BY <6>1, <6>2
          <5> HIDE DEF entry
          <5> QED
            BY <3>1, <3>2, <4>1, <5>1, <5>3
        <4> QED
          BY <4>2, <4>3, <4>4
      <3> QED
        BY <3>3, <3>4
    <2> HIDE DEF entry, kept, read
    <2> QED
      BY <2>1, <2>2 DEF Fits
  <1> HIDE DEF q
  <1>8. \A o \in Options : Fits(queue'[o], o, layer', missed')
    BY <1>1, <1>7
  <1> QED
    BY <1>1, <1>3, <1>4, <1>5, <1>8 DEF BInv

LEMMA ApplyPendingFits == ASSUME BInv, IInv', ApplyPendingValues PROVE BInv'
  <1>1. /\ UNCHANGED <<layer, queue, missed>>
        /\ dirty' \subseteq Options /\ lost' \subseteq lost \cup dirty
    <2>1. ASSUME NEW o \in Options, Callback(o) PROVE dirty' \subseteq Options
      <3>1. \A new \in Adjusts[o] : new.option \in Options
        BY LimitsAssumption
      <3>2. \A new \in Adjusts[o] : SetLimit(new) => dirty' \subseteq dirty \cup {new.option}
        BY DEF SetLimit
      <3> QED
        BY <2>1, <3>1, <3>2 DEF Callback, BInv
    <2> QED
      BY <2>1 DEF ApplyPendingValues, ResolvePass, Callback, PassDone, ClearDirty, BInv
  <1> QED
    BY <1>1 DEF BInv

LEMMA InitFits == Init => BInv
  <1> SUFFICES ASSUME Init PROVE BInv
    OBVIOUS
  <1>1. layer \in [Layers -> { [NewLayer EXCEPT !.blendDirty = b] : b \in BOOLEAN }
                             \cup {[NewLayer EXCEPT !.refs = 0]}]
    BY DEF Init
  <1>2. /\ NewLayer \in LayerType /\ NewLayer.enabled /\ NewLayer.reqEnabled = "none"
        /\ NewLayer.refs = 1
    <2>1. One \in Int /\ OwnThreshold \in Int /\ Empty \in Int /\ -1 \in Int /\ 1 \in Nat
      BY BlendAssumption DEF Empty
    <2> QED
      BY <2>1 DEF LayerType, NewLayer
  <1>3. ASSUME NEW y \in { [NewLayer EXCEPT !.blendDirty = b] : b \in BOOLEAN }
                         \cup {[NewLayer EXCEPT !.refs = 0]}
        PROVE  /\ y \in LayerType /\ y.enabled /\ y.reqEnabled = "none"
               /\ y.refs = 0 \/ y.refs > 0
    BY <1>2 DEF LayerType
  <1>4. \A l \in Layers : /\ layer[l] \in LayerType /\ layer[l].enabled /\ layer[l].reqEnabled = "none"
                          /\ layer[l].refs = 0 \/ layer[l].refs > 0
    BY <1>1, <1>3
  <1>5. layer \in [Layers -> LayerType]
    BY <1>1, <1>4
  <1>6. \A l \in Layers \ Dynamic : layer[l].refs > 0
    BY <1>4 DEF Init
  <1>7. ASSUME NEW o \in Options PROVE Fits(queue[o], o, layer, missed)
    <2> DEFINE D == { l \in Layers : l = N \/ (layer[l].refs > 0 /\ o \in DOMAIN Config[l]) }
               q == [l \in D |-> Entry(IF l = N THEN Default[o] ELSE Config[l][o], l)]
    <2>1. queue[o] = q
      BY DEF Init
    <2>2. N \in Layers /\ layer[N].refs > 0
      BY <1>6, LayersAssumption DEF Layers
    <2>3. \A l \in D : IsEntry(q[l]) /\ ~Differs(q[l], layer[l])
      BY DEF IsEntry, Differs, Entry
    <2>4. DOMAIN q = D /\ N \in D /\ \A l \in D : l \in Layers /\ layer[l].refs > 0
      BY <2>2
    <2> HIDE DEF q, D
    <2>5. Fits(q, o, layer, missed)
      BY <2>3, <2>4 DEF Fits
    <2> QED
      BY <2>1, <2>5
  <1>8. dirty = {} /\ lost = {}
    BY DEF Init
  <1> QED
    BY <1>4, <1>5, <1>6, <1>7, <1>8, InitIsCurrent DEF BInv

LEMMA NextFits == BInv /\ [Next]_vars => BInv'
  <1> SUFFICES ASSUME BInv, [Next]_vars PROVE BInv'
    OBVIOUS
  <1>1. IInv'
    BY NextIsCurrent DEF BInv
  <1>2. CASE UNCHANGED vars
    BY <1>1, <1>2 DEF vars, BInv
  <1>3. CASE UserInterface
    BY <1>1, <1>3, ReloadFits, RemoveRedundantFits, ClearStrongerFits, MoveFits DEF UserInterface
  <1>4. CASE Components
    BY <1>1, <1>4, AcquireFits, ReleaseFits, RequestFits DEF Components
  <1> QED
    BY <1>1, <1>2, <1>3, <1>4, SetSomethingFits, ApplyLayersFits, ApplyPendingFits DEF Next

LEMMA AlwaysFits == Spec => []BInv
  BY InitFits, NextFits, PTL DEF Spec

\* The options keep their types, and with them what resolving falls back on: the
\* default layer has a value of every option, whichever layers are read, removed,
\* moved from, cleared or taken for redundant (RtxOptionImpl::resolveValue).
THEOREM OptionTypes == Spec => []TypeOK
  <1>1. BInv => TypeOK
    <2> SUFFICES ASSUME BInv PROVE TypeOK
      OBVIOUS
    <2>1. DOMAIN queue = Options /\ DOMAIN resolved = Options
      BY DEF BInv, IInv
    <2> QED
      BY <2>1 DEF BInv, Fits, TypeOK
  <1> QED
    BY <1>1, AlwaysFits, PTL

\* Every value has the blend settings of its layer, also the ones set at run time,
\* whatever components request and in whichever order layers come and go; but for
\* those of a layer that is enabled and gets new settings in the same frame and
\* reads them for what is in its config only (RtxOptionLayer::applyToAllOptions).
THEOREM BlendHolds == Spec => []BlendIsCaptured
  <1>1. BInv => BlendIsCaptured
    BY DEF BInv, Fits, BlendIsCaptured
  <1> QED
    BY <1>1, AlwaysFits, PTL
-----------------------------------------------------------------------------
(* Induction over the layers, and the recursive functions defined along them *)

\* Any numbers there are have a least one
LEMMA LeastNumber ==
  ASSUME NEW T \in SUBSET Nat, T # {}
  PROVE  \E x \in T : \A y \in T : x <= y
  <1> DEFINE R == OpToRel(<, Nat)
  <1>1. IsWellFoundedOn(R, Nat)
    BY NatLessThanWellFounded
  <1>2. \A x, y \in Nat : <<x, y>> \in R <=> x < y
    BY DEF OpToRel
  <1> HIDE DEF R
  <1>3. \E x \in T : \A y \in T : ~ (<<y, x>> \in R)
    BY <1>1, WFMin, Zenon
  <1>4. PICK x \in T : \A y \in T : ~ (<<y, x>> \in R)
    BY <1>3
  <1>5. \A y \in T : ~ (y < x)
    BY <1>2, <1>4, Zenon
  <1> QED
    BY <1>5

\* Induction from 0 up to n, over the members of a set
LEMMA Induct ==
  ASSUME NEW n \in Nat, NEW T, 0 \in T, \A l \in 1 .. n : l - 1 \in T => l \in T
  PROVE  \A l \in 0 .. n : l \in T
  <1> SUFFICES ASSUME NEW bad \in 0 .. n, bad \notin T PROVE FALSE
    OBVIOUS
  <1> DEFINE U == (0 .. n) \ T
  <1>1. U \in SUBSET Nat /\ U # {}
    OBVIOUS
  <1> HIDE DEF U
  <1>2. PICK x \in U : \A y \in U : x <= y
    BY <1>1, LeastNumber
  <1>3. x \in 1 .. n /\ x \notin T
    BY DEF U
  <1>4. x - 1 \in U
    BY <1>3 DEF U
  <1> QED
    BY <1>2, <1>3, <1>4

\* A recursive function over the layers exists: from v, one step after the other
LEMMA Iterates ==
  ASSUME NEW V, NEW v \in V, NEW n \in Nat, NEW step \in [1 .. n -> [V -> V]]
  PROVE  \E g \in [0 .. n -> V] : g[0] = v /\ \A l \in 1 .. n : g[l] = step[l][g[l - 1]]
  <1> DEFINE Upto(m, g) == g[0] = v /\ \A l \in 1 .. m : g[l] = step[l][g[l - 1]]
             T == { m \in 0 .. n : \E g \in [0 .. m -> V] : Upto(m, g) }
  <1>1. 0 \in T
    <2>1. [l \in 0 .. 0 |-> v] \in [0 .. 0 -> V] /\ Upto(0, [l \in 0 .. 0 |-> v])
      OBVIOUS
    <2> HIDE DEF Upto
    <2> QED
      BY <2>1
  <1>2. ASSUME NEW m \in 1 .. n, m - 1 \in T PROVE m \in T
    <2>1. PICK g \in [0 .. m - 1 -> V] : Upto(m - 1, g)
      BY <1>2
    <2> DEFINE h == [l \in 0 .. m |-> IF l = m THEN step[m][g[m - 1]] ELSE g[l]]
    <2>2. g[m - 1] \in V /\ step[m] \in [V -> V]
      OBVIOUS
    <2>3. h \in [0 .. m -> V]
      BY <2>2
    <2>4. h[0] = v
      BY <2>1
    <2>5. ASSUME NEW l \in 1 .. m PROVE h[l] = step[l][h[l - 1]]
      <3>1. CASE l = m
        BY <3>1
      <3>2. CASE l # m
        <4>1. l \in 1 .. m - 1 /\ l - 1 \in 0 .. m - 1 /\ l - 1 # m
          BY <3>2
        <4>2. h[l] = g[l] /\ h[l - 1] = g[l - 1]
          BY <3>2, <4>1
        <4> HIDE DEF h
        <4> QED
          BY <2>1, <4>1, <4>2
      <3> QED
        BY <3>1, <3>2
    <2> HIDE DEF h
    <2>6. Upto(m, h)
      BY <2>4, <2>5
    <2> HIDE DEF Upto
    <2> QED
      BY <2>3, <2>6
  <1> HIDE DEF T
  <1>3. \A l \in 1 .. n : l - 1 \in T => l \in T
    BY <1>2
  <1>4. \A l \in 0 .. n : l \in T
    BY <1>1, <1>3, Induct
  <1>5. n \in T
    BY <1>4
  <1> QED
    BY <1>5 DEF T

-----------------------------------------------------------------------------
LEMMA Scales ==
  /\ Scale[0] = 1 /\ \A l \in 1 .. N : Scale[l] = One * Scale[l - 1]
  /\ \A l \in 0 .. N : Scale[l] \in Nat \ {0}
  <1> DEFINE V == Nat \ {0}
             step == [l \in 1 .. N |-> [a \in V |-> One * a]]
             Rec(f) == f = [l \in 0 .. N |-> IF l = 0 THEN 1 ELSE One * f[l - 1]]
  <1>1. N \in Nat /\ One \in V
    BY LayersAssumption, BlendAssumption
  <1>2. \A a, b \in V : a * b \in V
    OBVIOUS
  <1>3. step \in [1 .. N -> [V -> V]] /\ 1 \in V
    BY <1>1, <1>2
  <1> HIDE DEF V, step
  <1>4. PICK g \in [0 .. N -> V] : g[0] = 1 /\ \A l \in 1 .. N : g[l] = step[l][g[l - 1]]
    <2>1. N \in Nat /\ 1 \in V
      BY <1>1, <1>3
    <2>2. \A st \in [1 .. N -> [V -> V]] :
            \E g \in [0 .. N -> V] : g[0] = 1 /\ \A l \in 1 .. N : g[l] = st[l][g[l - 1]]
      BY <2>1, Iterates
    <2> QED
      BY <1>3, <2>2
  <1>5. \A l \in 1 .. N : g[l - 1] \in V /\ g[l] = One * g[l - 1]
    <2> SUFFICES ASSUME NEW l \in 1 .. N PROVE g[l - 1] \in V /\ g[l] = One * g[l - 1]
      OBVIOUS
    <2>1. g[l - 1] \in V
      BY <1>1, <1>4
    <2>2. step[l][g[l - 1]] = One * g[l - 1]
      BY <2>1 DEF step
    <2> QED
      BY <1>4, <2>1, <2>2
  <1>6. g = [l \in 0 .. N |-> IF l = 0 THEN 1 ELSE One * g[l - 1]]
    BY <1>4, <1>5
  <1>7. Rec(g)
    BY <1>6
  <1>8. Rec(CHOOSE f : Rec(f))
    BY <1>7, Zenon
  <1>9. Scale = CHOOSE f : Rec(f)
    BY DEF Scale
  <1>10. Rec(Scale)
    BY <1>8, <1>9
  <1>11. Scale = [l \in 0 .. N |-> IF l = 0 THEN 1 ELSE One * Scale[l - 1]]
    BY <1>10
  <1>12. Scale[0] = 1 /\ \A l \in 1 .. N : Scale[l] = One * Scale[l - 1]
    <2>1. 0 \in 0 .. N /\ \A l \in 1 .. N : l \in 0 .. N /\ l # 0
      BY <1>1
    <2>2. \A l \in 0 .. N : Scale[l] = IF l = 0 THEN 1 ELSE One * Scale[l - 1]
      BY <1>11, Zenon
    <2> QED
      BY <2>1, <2>2, Zenon
  <1> DEFINE T == { l \in 0 .. N : Scale[l] \in V }
  <1>13. 0 \in T
    BY <1>1, <1>3, <1>12
  <1>14. ASSUME NEW l \in 1 .. N, l - 1 \in T PROVE l \in T
    <2>1. Scale[l - 1] \in V /\ l \in 0 .. N
      BY <1>1, <1>14
    <2> QED
      BY <1>1, <1>2, <1>12, <2>1
  <1> HIDE DEF T
  <1>15. \A l \in 0 .. N : l \in T
    BY <1>1, <1>13, <1>14, Induct
  <1> QED
    BY <1>12, <1>15 DEF T, V
-----------------------------------------------------------------------------
(* What resolving computes: the steps of the three loops *)

\* The queue of an option with numbers, and of a hash set
Numeric(q) ==
  \A l \in DOMAIN q : q[l].value \in Int /\ q[l].strength \in 0 .. One

SetType == [pos : SUBSET Hashes, neg : SUBSET Hashes]

OfSets(q) == \A l \in DOMAIN q : q[l].value \in SetType

BlendState == [sum : Int, left : Nat, cut : BOOLEAN]

\* Each recursive function, as the sequence of what its steps leave
LEMMA BlendSteps ==
  ASSUME NEW q, Numeric(q)
  PROVE  \E a \in [0 .. N -> BlendState] :
           /\ Blending(q) = a[N]
           /\ a[0] = [sum |-> 0, left |-> 1, cut |-> FALSE]
           /\ \A l \in 1 .. N : a[l] = Blend(q, l, a[l - 1])
  <1> DEFINE V == BlendState
             v == [sum |-> 0, left |-> 1, cut |-> FALSE]
             step == [l \in 1 .. N |-> [a \in V |-> Blend(q, l, a)]]
             Rec(f) == f = [l \in 0 .. N |-> IF l = 0 THEN v ELSE Blend(q, l, f[l - 1])]
  <1>1. N \in Nat /\ One \in Nat /\ v \in V
    BY LayersAssumption, BlendAssumption DEF BlendState
  <1>2. ASSUME NEW l \in 1 .. N, NEW a \in V PROVE Blend(q, l, a) \in V
    <2>1. a.sum \in Int /\ a.left \in Nat /\ a.cut \in BOOLEAN
      BY DEF BlendState
    <2>2. CASE l \notin DOMAIN q
      <3>1. a.sum * One \in Int /\ a.left * One \in Nat
        BY <1>1, <2>1
      <3> QED
        BY <2>1, <2>2, <3>1 DEF Blend, BlendState
    <2>3. CASE l \in DOMAIN q
      <3> DEFINE w == q[l].strength
                 left == a.left * (One - w)
                 small == left # 0 /\ left * Cutoff < Scale[l]
                 rest == IF small THEN 0 ELSE left
                 cut == a.cut \/ small
                 full == [sum |-> (a.sum + q[l].value * a.left) * One, left |-> 0, cut |-> a.cut]
                 part == [sum |-> a.sum * One + q[l].value * w * a.left, left |-> rest, cut |-> cut]
      <3>1. q[l].value \in Int /\ w \in Int /\ One - w \in Nat
        BY <1>1, <2>3 DEF Numeric
      <3>2. /\ q[l].value * a.left \in Int /\ q[l].value * w * a.left \in Int
            /\ a.sum * One \in Int
        BY <1>1, <2>1, <3>1
      <3>3. left \in Nat
        <4> DEFINE u == a.left
                   z == One - w
        <4>1. u \in Nat /\ z \in Nat
          BY <2>1, <3>1
        <4> HIDE DEF u, z
        <4>2. u * z \in Nat
          BY <4>1
        <4> QED
          BY <4>2 DEF u, z
      <3>4. (a.sum + q[l].value * a.left) * One \in Int
        BY <1>1, <2>1, <3>2
      <3>5. a.sum * One + q[l].value * w * a.left \in Int
        BY <3>2
      <3>6. full \in V
        BY <2>1, <3>4 DEF BlendState
      <3>7. Blend(q, l, a) = IF w >= One THEN full ELSE part
        BY <2>3 DEF Blend
      <3> HIDE DEF left
      <3>8. rest \in Nat /\ cut \in BOOLEAN
        BY <2>1, <3>3
      <3> HIDE DEF rest, cut
      <3>9. part \in V
        BY <3>5, <3>8 DEF BlendState
      <3> HIDE DEF full, part, V
      <3> QED
        BY <3>6, <3>7, <3>9
    <2> QED
      BY <2>2, <2>3
  <1> HIDE DEF V, v
  <1>3. step \in [1 .. N -> [V -> V]]
    BY <1>2
  <1> HIDE DEF step
  <1>4. PICK g \in [0 .. N -> V] : g[0] = v /\ \A l \in 1 .. N : g[l] = step[l][g[l - 1]]
    <2>1. \A st \in [1 .. N -> [V -> V]] :
            \E g \in [0 .. N -> V] : g[0] = v /\ \A l \in 1 .. N : g[l] = st[l][g[l - 1]]
      BY <1>1, Iterates
    <2> QED
      BY <1>3, <2>1
  <1>5. ASSUME NEW l \in 1 .. N PROVE g[l] = Blend(q, l, g[l - 1])
    <2>1. g[l - 1] \in V
      BY <1>1, <1>4
    <2>2. step[l][g[l - 1]] = Blend(q, l, g[l - 1])
      BY <2>1 DEF step
    <2> QED
      BY <1>4, <2>1, <2>2
  <1>6. Rec(g)
    BY <1>4, <1>5
  <1> DEFINE f == CHOOSE f : Rec(f)
  <1>7. Rec(f)
    BY <1>6, Zenon
  <1>8. Blending(q) = f[N]
    BY DEF Blending, v
  <1>9. \A l \in 0 .. N : f[l] = IF l = 0 THEN v ELSE Blend(q, l, f[l - 1])
    BY <1>7, Zenon
  <1> HIDE DEF f
  <1>10. f[0] = v /\ \A l \in 1 .. N : f[l] = Blend(q, l, f[l - 1])
    <2>1. 0 \in 0 .. N /\ \A l \in 1 .. N : l \in 0 .. N /\ l # 0
      BY <1>1
    <2> QED
      BY <1>9, <2>1, Zenon
  <1>11. \A l \in 0 .. N : f[l] \in V
    <2> DEFINE T == { l \in 0 .. N : f[l] \in V }
    <2>1. 0 \in T
      BY <1>1, <1>10
    <2>2. ASSUME NEW l \in 1 .. N, l - 1 \in T PROVE l \in T
      BY <1>1, <1>2, <1>10, <2>2
    <2> HIDE DEF T
    <2>3. \A l \in 0 .. N : l \in T
      BY <1>1, <2>1, <2>2, Induct
    <2> QED
      BY <2>3 DEF T
  <1>12. f \in [0 .. N -> V]
    BY <1>7, <1>11
  <1> QED
    BY <1>8, <1>10, <1>12 DEF V, v

LEMMA LerpSteps ==
  ASSUME NEW q, Numeric(q)
  PROVE  \E a \in [0 .. N -> Int] :
           /\ NestedLerp(q) = a[N]
           /\ a[0] = 0
           /\ \A n \in 1 .. N : a[n] = Lerp(q, N + 1 - n, a[n - 1])
  <1> DEFINE step == [n \in 1 .. N |-> [a \in Int |-> Lerp(q, N + 1 - n, a)]]
             Rec(f) == f = [n \in 0 .. N |-> IF n = 0 THEN 0 ELSE Lerp(q, N + 1 - n, f[n - 1])]
  <1>1. N \in Nat /\ One \in Nat
    BY LayersAssumption, BlendAssumption
  <1>2. ASSUME NEW n \in 1 .. N, NEW a \in Int PROVE Lerp(q, N + 1 - n, a) \in Int
    <2> DEFINE l == N + 1 - n
    <2>1. N - l \in 0 .. N
      BY <1>1
    <2>2. Scale[N - l] \in Int
      BY <2>1, Scales
    <2> SUFFICES Lerp(q, l, a) \in Int
      OBVIOUS
    <2> HIDE DEF l
    <2>3. CASE l \notin DOMAIN q
      BY <1>1, <2>3 DEF Lerp
    <2>4. CASE l \in DOMAIN q
      <3>1. q[l].value \in Int /\ q[l].strength \in Int
        BY <1>1, <2>4 DEF Numeric
      <3>2. q[l].value * q[l].strength * Scale[N - l] \in Int /\ (One - q[l].strength) * a \in Int
        BY <1>1, <2>2, <3>1
      <3> QED
        BY <2>4, <3>2 DEF Lerp
    <2> QED
      BY <2>3, <2>4
  <1>3. step \in [1 .. N -> [Int -> Int]]
    BY <1>2
  <1> HIDE DEF step
  <1>4. PICK g \in [0 .. N -> Int] : g[0] = 0 /\ \A n \in 1 .. N : g[n] = step[n][g[n - 1]]
    <2>1. \A st \in [1 .. N -> [Int -> Int]] :
            \E g \in [0 .. N -> Int] : g[0] = 0 /\ \A n \in 1 .. N : g[n] = st[n][g[n - 1]]
      <3> DEFINE V == Int
                 v == 0
      <3>1. v \in V
        OBVIOUS
      <3> HIDE DEF V, v
      <3>2. \A st \in [1 .. N -> [V -> V]] :
              \E g \in [0 .. N -> V] : g[0] = v /\ \A l \in 1 .. N : g[l] = st[l][g[l - 1]]
        BY <1>1, <3>1, Iterates
      <3> QED
        BY <3>2 DEF V, v
    <2> QED
      BY <1>3, <2>1
  <1>5. ASSUME NEW n \in 1 .. N PROVE g[n] = Lerp(q, N + 1 - n, g[n - 1])
    <2>1. g[n - 1] \in Int
      BY <1>1, <1>4
    <2>2. step[n][g[n - 1]] = Lerp(q, N + 1 - n, g[n - 1])
      BY <2>1 DEF step
    <2> QED
      BY <1>4, <2>1, <2>2
  <1>6. Rec(g)
    BY <1>4, <1>5
  <1> DEFINE f == CHOOSE f : Rec(f)
  <1>7. Rec(f)
    BY <1>6, Zenon
  <1>8. NestedLerp(q) = f[N]
    BY DEF NestedLerp
  <1>9. \A n \in 0 .. N : f[n] = IF n = 0 THEN 0 ELSE Lerp(q, N + 1 - n, f[n - 1])
    BY <1>7, Zenon
  <1> HIDE DEF f
  <1>10. f[0] = 0 /\ \A n \in 1 .. N : f[n] = Lerp(q, N + 1 - n, f[n - 1])
    <2>1. 0 \in 0 .. N /\ \A n \in 1 .. N : n \in 0 .. N /\ n # 0
      BY <1>1
    <2> QED
      BY <1>9, <2>1, Zenon
  <1>11. \A n \in 0 .. N : f[n] \in Int
    <2> DEFINE T == { n \in 0 .. N : f[n] \in Int }
    <2>1. 0 \in T
      BY <1>1, <1>10
    <2>2. ASSUME NEW n \in 1 .. N, n - 1 \in T PROVE n \in T
      <3>1. f[n - 1] \in Int /\ n \in 0 .. N
        BY <1>1, <2>2
      <3>2. Lerp(q, N + 1 - n, f[n - 1]) \in Int
        BY <1>2, <3>1
      <3> QED
        BY <1>10, <3>1, <3>2
    <2> HIDE DEF T
    <2>3. \A n \in 0 .. N : n \in T
      BY <1>1, <2>1, <2>2, Induct
    <2> QED
      BY <2>3 DEF T
  <1>12. f \in [0 .. N -> Int]
    BY <1>7, <1>11
  <1> QED
    BY <1>8, <1>10, <1>12

LEMMA MergeSteps ==
  ASSUME NEW q, OfSets(q)
  PROVE  \E a \in [0 .. N -> SetType] :
           /\ Merged(q) = a[N]
           /\ a[0] = NoOpinions
           /\ \A l \in 1 .. N : a[l] = MergeActive(q, l, a[l - 1])
  <1> DEFINE V == SetType
             step == [l \in 1 .. N |-> [a \in V |-> MergeActive(q, l, a)]]
             Rec(f) == f = [l \in 0 .. N |-> IF l = 0 THEN NoOpinions ELSE MergeActive(q, l, f[l - 1])]
  <1>1. N \in Nat /\ NoOpinions \in V
    BY LayersAssumption DEF NoOpinions, SetType
  <1>2. ASSUME NEW l \in 1 .. N, NEW a \in V PROVE MergeActive(q, l, a) \in V
    <2>1. a.pos \subseteq Hashes /\ a.neg \subseteq Hashes
      BY DEF SetType
    <2>2. CASE Active(q, l)
      <3>1. q[l].value.pos \subseteq Hashes /\ q[l].value.neg \subseteq Hashes
        BY <2>2 DEF OfSets, Active, SetType
      <3> QED
        BY <2>1, <2>2, <3>1 DEF MergeActive, Merge, SetType
    <2>3. CASE ~Active(q, l)
      BY <2>3 DEF MergeActive
    <2> QED
      BY <2>2, <2>3
  <1> HIDE DEF V
  <1>3. step \in [1 .. N -> [V -> V]]
    BY <1>2
  <1> HIDE DEF step
  <1>4. PICK g \in [0 .. N -> V] : g[0] = NoOpinions /\ \A l \in 1 .. N : g[l] = step[l][g[l - 1]]
    <2>1. \A st \in [1 .. N -> [V -> V]] :
            \E g \in [0 .. N -> V] : g[0] = NoOpinions /\ \A l \in 1 .. N : g[l] = st[l][g[l - 1]]
      BY <1>1, Iterates
    <2> QED
      BY <1>3, <2>1
  <1>5. ASSUME NEW l \in 1 .. N PROVE g[l] = MergeActive(q, l, g[l - 1])
    <2>1. g[l - 1] \in V
      BY <1>1, <1>4
    <2>2. step[l][g[l - 1]] = MergeActive(q, l, g[l - 1])
      BY <2>1 DEF step
    <2> QED
      BY <1>4, <2>1, <2>2
  <1>6. Rec(g)
    BY <1>4, <1>5
  <1> DEFINE f == CHOOSE f : Rec(f)
  <1>7. Rec(f)
    BY <1>6, Zenon
  <1>8. Merged(q) = f[N]
    BY DEF Merged
  <1>9. \A l \in 0 .. N : f[l] = IF l = 0 THEN NoOpinions ELSE MergeActive(q, l, f[l - 1])
    BY <1>7, Zenon
  <1> HIDE DEF f
  <1>10. f[0] = NoOpinions /\ \A l \in 1 .. N : f[l] = MergeActive(q, l, f[l - 1])
    <2>1. 0 \in 0 .. N /\ \A l \in 1 .. N : l \in 0 .. N /\ l # 0
      BY <1>1
    <2> QED
      BY <1>9, <2>1, Zenon
  <1>11. \A l \in 0 .. N : f[l] \in V
    <2> DEFINE T == { l \in 0 .. N : f[l] \in V }
    <2>1. 0 \in T
      BY <1>1, <1>10
    <2>2. ASSUME NEW l \in 1 .. N, l - 1 \in T PROVE l \in T
      BY <1>1, <1>2, <1>10, <2>2
    <2> HIDE DEF T
    <2>3. \A l \in 0 .. N : l \in T
      BY <1>1, <2>1, <2>2, Induct
    <2> QED
      BY <2>3 DEF T
  <1>12. f \in [0 .. N -> V]
    BY <1>7, <1>11
  <1> QED
    BY <1>8, <1>10, <1>12 DEF V
-----------------------------------------------------------------------------
(* Values that blend *)

\* Products with a common factor, in the form the two lemmas below need them
LEMMA Partial ==
  ASSUME NEW s \in Int, NEW u \in Int, NEW v \in Int, NEW w \in Int, NEW p \in Int, NEW f \in Int,
         NEW one \in Int
  PROVE  (s * one + v * w * u) * p + u * (one - w) * f
           = s * (one * p) + u * (v * w * p + (one - w) * f)
  <1>1. (s * one + v * w * u) * p = (s * one) * p + (v * w * u) * p
    OBVIOUS
  <1>2. (s * one) * p = s * (one * p)
    OBVIOUS
  <1>3. u * (v * w * p + (one - w) * f) = u * (v * w * p) + u * ((one - w) * f)
    OBVIOUS
  <1>4. (v * w * u) * p = u * (v * w * p)
    OBVIOUS
  <1>5. u * (one - w) * f = u * ((one - w) * f)
    OBVIOUS
  <1> QED
    BY <1>1, <1>2, <1>3, <1>4, <1>5

\* Bounds from both sides, of a product and of an interpolation
Within(x, b) == -b <= x /\ x <= b

LEMMA ProductWithin ==
  ASSUME NEW k \in Nat, NEW b \in Int, NEW x \in Int, Within(x, b) PROVE Within(k * x, k * b)
  <1> DEFINE d == b - x
             e == b + x
  <1>1. d \in Nat /\ e \in Nat /\ x = b - d /\ x = e - b
    BY DEF Within
  <1>2. k * d \in Nat /\ k * d = k * b - k * x
    BY <1>1
  <1>3. k * e \in Nat /\ k * e = k * b + k * x
    BY <1>1
  <1>4. k * x \in Int /\ k * b \in Int
    OBVIOUS
  <1> HIDE DEF d, e
  <1> QED
    BY <1>2, <1>3, <1>4 DEF Within

LEMMA LerpWithin ==
  ASSUME NEW w \in Int, NEW one \in Int, 0 <= w, w <= one, NEW x \in Int, NEW y \in Int, NEW b \in Int,
         Within(x, b), Within(y, b)
  PROVE  Within(w * x + (one - w) * y, one * b)
  <1>1. w \in Nat /\ one - w \in Nat
    OBVIOUS
  <1>2. Within(w * x, w * b) /\ Within((one - w) * y, (one - w) * b)
    BY <1>1, ProductWithin
  <1>3. (one - w) * b = one * b - w * b
    OBVIOUS
  <1>4. w * x \in Int /\ (one - w) * y \in Int /\ w * b \in Int /\ one * b \in Int
    OBVIOUS
  <1> QED
    BY <1>2, <1>3, <1>4 DEF Within

\* No layer says more than v
Bounded(q, v) == \A l \in DOMAIN q : Within(q[l].value, v)

\* The nested interpolation stays within the largest value
LEMMA LerpBounded ==
  ASSUME NEW q, Numeric(q), NEW v \in Nat, Bounded(q, v), NEW f \in [0 .. N -> Int],
         f[0] = 0, \A n \in 1 .. N : f[n] = Lerp(q, N + 1 - n, f[n - 1])
  PROVE  \A n \in 0 .. N : Within(f[n], v * Scale[n])
  <1>1. N \in Nat /\ One \in Nat
    BY LayersAssumption, BlendAssumption
  <1> DEFINE T == { n \in 0 .. N : Within(f[n], v * Scale[n]) }
  <1>2. 0 \in T
    <2>1. v * Scale[0] = v
      BY Scales
    <2> QED
      BY <1>1, <2>1 DEF Within
  <1>3. ASSUME NEW n \in 1 .. N, n - 1 \in T PROVE n \in T
    <2> DEFINE l == N + 1 - n
               p == Scale[n - 1]
               x == f[n - 1]
               b == v * p
    <2>1. n - 1 \in 0 .. N /\ N - l = n - 1 /\ n \in 0 .. N
      BY <1>1
    <2>2. p \in Nat /\ x \in Int /\ Within(x, b) /\ Scale[n] = One * p
      BY <1>3, <2>1, Scales
    <2>3. f[n] = Lerp(q, l, x)
      OBVIOUS
    <2> HIDE DEF l, p, x
    <2>4. b \in Int /\ v * (One * p) = One * b
      BY <1>1, <2>2
    <2>5. Within(Lerp(q, l, x), One * b)
      <3>1. CASE l \notin DOMAIN q
        BY <1>1, <2>2, <2>4, <3>1, ProductWithin DEF Lerp
      <3>2. CASE l \in DOMAIN q
        <4> DEFINE u == q[l].value
                   w == q[l].strength
        <4>1. u \in Int /\ w \in Int /\ 0 <= w /\ w <= One /\ Within(u, v)
          BY <1>1, <3>2 DEF Numeric, Bounded
        <4>2. Lerp(q, l, x) = u * w * p + (One - w) * x
          BY <2>1, <3>2 DEF Lerp, p
        <4> HIDE DEF u, w
        <4>3. p \in Nat /\ v \in Int
          BY <2>2
        <4>4. Within(p * u, p * v)
          BY <4>1, <4>3, ProductWithin, Zenon
        <4>5. p * v = b /\ u * w * p = w * (p * u) /\ p * u \in Int
          BY <2>2, <4>1
        <4> DEFINE y == p * u
        <4>6. y \in Int /\ Within(y, b) /\ Within(x, b) /\ One \in Int
          BY <1>1, <2>2, <4>4, <4>5
        <4>7. Lerp(q, l, x) = w * y + (One - w) * x
          BY <4>2, <4>5
        <4> HIDE DEF b, y
        <4>8. Within(w * y + (One - w) * x, One * b)
          BY <2>2, <2>4, <4>1, <4>6, LerpWithin, Zenon
        <4> QED
          BY <4>7, <4>8, Zenon
      <3> QED
        BY <3>1, <3>2
    <2>6. Within(f[n], v * Scale[n])
      BY <2>2, <2>3, <2>4, <2>5
    <2> QED
      BY <2>1, <2>6
  <1>4. \A n \in 1 .. N : n - 1 \in T => n \in T
    BY <1>3
  <1> HIDE DEF T
  <1>5. \A n \in 0 .. N : n \in T
    BY <1>1, <1>2, <1>4, Induct
  <1> QED
    BY <1>5 DEF T

LEMMA ScaleProduct == \A l \in 0 .. N : Scale[l] * Scale[N - l] = Scale[N]
  <1>1. N \in Nat /\ One \in Nat
    BY LayersAssumption, BlendAssumption
  <1> DEFINE T == { l \in 0 .. N : Scale[l] * Scale[N - l] = Scale[N] }
  <1>2. 0 \in T
    <2>1. Scale[0] = 1 /\ Scale[N] \in Nat /\ N - 0 = N
      BY <1>1, Scales
    <2> QED
      BY <1>1, <2>1
  <1>3. ASSUME NEW l \in 1 .. N, l - 1 \in T PROVE l \in T
    <2>1. /\ l - 1 \in 0 .. N /\ N - l \in 0 .. N /\ l \in 0 .. N /\ N - (l - 1) \in 1 .. N
          /\ N - (l - 1) - 1 = N - l
      BY <1>1
    <2> DEFINE x == Scale[l - 1]
               y == Scale[N - l]
    <2>2. Scale[l] = One * x /\ Scale[N - (l - 1)] = One * y /\ x \in Nat /\ y \in Nat
      BY <2>1, Scales
    <2>3. x * (One * y) = Scale[N]
      BY <1>3, <2>2
    <2> HIDE DEF x, y
    <2>4. (One * x) * y = x * (One * y)
      BY <1>1, <2>2
    <2>5. Scale[l] * Scale[N - l] = Scale[N]
      BY <2>2, <2>3, <2>4 DEF y
    <2> QED
      BY <2>1, <2>5
  <1>4. \A l \in 1 .. N : l - 1 \in T => l \in T
    BY <1>3
  <1> HIDE DEF T
  <1>5. \A l \in 0 .. N : l \in T
    BY <1>1, <1>2, <1>4, Induct
  <1> QED
    BY <1>5 DEF T

\* What is left of a throughput that is cut off, times what it would have scaled
LEMMA CutProduct ==
  ASSUME NEW u \in Nat, NEW x \in Int, NEW v \in Nat, NEW p \in Nat, NEW t \in Nat,
         Within(x, v * p), NEW cutoff \in Nat, u * cutoff < t
  PROVE  Within(u * x * cutoff, v * (t * p))
  <1> DEFINE b == v * p
             k == u * cutoff
  <1>1. b \in Nat /\ k \in Nat
    OBVIOUS
  <1>2. u * x * cutoff = k * x /\ v * (t * p) = t * b
    OBVIOUS
  <1>3. Within(x, b) /\ k < t
    OBVIOUS
  <1> HIDE DEF b, k
  <1>4. Within(k * x, k * b)
    <2>1. b \in Int
      BY <1>1
    <2> QED
      BY <1>1, <1>3, <2>1, ProductWithin, Zenon
  <1>5. k * b <= t * b
    <2> DEFINE d == t - k
    <2>1. d \in Nat
      BY <1>1, <1>3
    <2>2. t * b = k * b + d * b
      BY <1>1
    <2> HIDE DEF d
    <2>3. d * b \in Nat /\ k * b \in Int
      BY <1>1, <2>1
    <2> QED
      BY <2>2, <2>3
  <1>6. k * x \in Int /\ k * b \in Int /\ t * b \in Int
    BY <1>1
  <1>7. Within(k * x, t * b)
    BY <1>4, <1>5, <1>6 DEF Within
  <1> QED
    BY <1>2, <1>7

\* The throughput: after each layer, what is summed up and what is left for the
\* interpolation of the weaker ones add up to the nested interpolation, or what was
\* left of the throughput was cut off and no more is missing than it amounts to.
LEMMA BlendIsNested ==
  ASSUME NEW q, Numeric(q), NEW v \in Nat
  PROVE  /\ Blended(q) \in Int /\ NestedLerp(q) \in Int /\ CutsOff(q) \in BOOLEAN
         /\ ~CutsOff(q) => Blended(q) = NestedLerp(q)
         /\ CutsOff(q) /\ Bounded(q, v) =>
              Within((Blended(q) - NestedLerp(q)) * Cutoff, v * Scale[N])
  <1>1. PICK a \in [0 .. N -> BlendState] :
          /\ Blending(q) = a[N]
          /\ a[0] = [sum |-> 0, left |-> 1, cut |-> FALSE]
          /\ \A l \in 1 .. N : a[l] = Blend(q, l, a[l - 1])
    BY BlendSteps
  <1>2. PICK f \in [0 .. N -> Int] :
          /\ NestedLerp(q) = f[N]
          /\ f[0] = 0
          /\ \A n \in 1 .. N : f[n] = Lerp(q, N + 1 - n, f[n - 1])
    BY LerpSteps
  <1>3. N \in Nat /\ One \in Nat /\ Cutoff \in Nat
    BY LayersAssumption, BlendAssumption
  <1> DEFINE adds(l) == a[l].sum * Scale[N - l] + a[l].left * f[N - l] = f[N]
             misses(l) == /\ a[l].left = 0
                          /\ Bounded(q, v) =>
                               Within((a[l].sum * Scale[N - l] - f[N]) * Cutoff, v * Scale[N])
             T == { l \in 0 .. N : IF a[l].cut THEN misses(l) ELSE adds(l) }
  <1>4. \A l \in 0 .. N : /\ a[l].sum \in Int /\ a[l].left \in Nat /\ a[l].cut \in BOOLEAN
                          /\ f[l] \in Int /\ Scale[l] \in Nat
    BY Scales DEF BlendState
  <1>5. 0 \in T
    <2>1. 0 \in 0 .. N /\ N \in 0 .. N /\ N - 0 = N
      BY <1>3
    <2>2. a[0].sum = 0 /\ a[0].left = 1 /\ ~a[0].cut
      BY <1>1
    <2>3. a[0].sum * Scale[N] + a[0].left * f[N] = f[N]
      BY <1>4, <2>1, <2>2
    <2> HIDE DEF misses
    <2> QED
      BY <2>1, <2>2, <2>3
  <1>6. ASSUME NEW l \in 1 .. N, l - 1 \in T PROVE l \in T
    <2> DEFINE s == a[l - 1].sum
               u == a[l - 1].left
               p == Scale[N - l]
               g == f[N - l]
    <2>1. /\ l - 1 \in 0 .. N /\ N - l \in 0 .. N /\ l \in 0 .. N /\ N - (l - 1) \in 1 .. N
          /\ N - (l - 1) - 1 = N - l /\ N + 1 - (N - (l - 1)) = l
      BY <1>3
    <2>2. s \in Int /\ u \in Nat /\ p \in Nat /\ g \in Int
      BY <1>4, <2>1
    <2>3. Scale[N - (l - 1)] = One * p
      BY <2>1, Scales
    <2>4. f[N - (l - 1)] = Lerp(q, l, g)
      BY <1>2, <2>1
    <2>5. a[l] = Blend(q, l, a[l - 1])
      BY <1>1
    <2>6. CASE a[l - 1].cut
      <3>1. u = 0 /\ (Bounded(q, v) => Within((s * (One * p) - f[N]) * Cutoff, v * Scale[N]))
        BY <1>6, <2>3, <2>6
      <3>2. a[l].sum = s * One /\ a[l].left = 0 /\ a[l].cut
        <4>1. CASE l \notin DOMAIN q
          BY <1>3, <2>5, <2>6, <3>1, <4>1 DEF Blend
        <4>2. CASE l \in DOMAIN q
          <5> DEFINE w == q[l].strength
                     left == u * (One - w)
                     small == left # 0 /\ left * Cutoff < Scale[l]
          <5>1. w \in Int /\ q[l].value \in Int
            BY <1>3, <4>2 DEF Numeric
          <5>2. left = 0 /\ q[l].value * u = 0 /\ q[l].value * w * u = 0
            <6> DEFINE x == q[l].value
                       z == One - w
            <6>1. u = 0 /\ x \in Int /\ w \in Int /\ z \in Int
              BY <1>3, <3>1, <5>1
            <6>2. left = u * z
              OBVIOUS
            <6> HIDE DEF u, w, x, z, left
            <6>3. x * u = 0 /\ x * w * u = 0 /\ u * z = 0
              BY <6>1
            <6> QED
              BY <6>2, <6>3 DEF x
          <5>3. a[l] = IF w >= One
                       THEN [sum |-> (s + q[l].value * u) * One, left |-> 0, cut |-> a[l - 1].cut]
                       ELSE [sum |-> s * One + q[l].value * w * u,
                             left |-> IF small THEN 0 ELSE left, cut |-> a[l - 1].cut \/ small]
            BY <2>5, <4>2 DEF Blend
          <5> HIDE DEF left
          <5>4. ~small
            BY <5>2
          <5> HIDE DEF small, w
          <5>5. (s + 0) * One = s * One /\ s * One + 0 = s * One
            BY <1>3, <2>2
          <5>6. CASE w >= One
            <6>1. a[l] = [sum |-> (s + 0) * One, left |-> 0, cut |-> a[l - 1].cut]
              BY <5>2, <5>3, <5>6
            <6> QED
              BY <2>6, <5>5, <6>1
          <5>7. CASE ~(w >= One)
            <6> DEFINE cut == a[l - 1].cut \/ small
            <6>1. a[l] = [sum |-> s * One + 0, left |-> 0, cut |-> cut]
              BY <5>2, <5>3, <5>4, <5>7
            <6>2. cut
              BY <2>6
            <6> HIDE DEF cut
            <6> QED
              BY <5>5, <6>1, <6>2
          <5> QED
            BY <5>6, <5>7
        <4> QED
          BY <4>1, <4>2
      <3> HIDE DEF s, u, p, g
      <3>3. (s * One) * p = s * (One * p)
        BY <1>3, <2>2
      <3> QED
        BY <2>1, <3>1, <3>2, <3>3 DEF p
    <2>7. CASE ~a[l - 1].cut
      <3>0. s * (One * p) + u * Lerp(q, l, g) = f[N]
        BY <1>6, <2>3, <2>4, <2>7
      <3>1. CASE l \notin DOMAIN q
        <4>1. a[l].sum = s * One /\ a[l].left = u * One /\ ~a[l].cut /\ Lerp(q, l, g) = One * g
          BY <2>5, <2>7, <3>1 DEF Blend, Lerp
        <4> HIDE DEF s, u, p, g
        <4>2. (s * One) * p = s * (One * p) /\ (u * One) * g = u * (One * g)
          BY <1>3, <2>2
        <4>3. a[l].sum * p + a[l].left * g = f[N]
          BY <3>0, <4>1, <4>2
        <4> QED
          BY <2>1, <4>1, <4>3 DEF p, g
      <3>2. CASE l \in DOMAIN q
        <4> DEFINE x == q[l].value
                   w == q[l].strength
                   left == u * (One - w)
                   small == left # 0 /\ left * Cutoff < Scale[l]
        <4>1. x \in Int /\ w \in 0 .. One /\ w \in Int
          BY <1>3, <3>2 DEF Numeric
        <4>2. Lerp(q, l, g) = x * w * p + (One - w) * g
          BY <3>2 DEF Lerp
        <4>3. a[l] = IF w >= One
                     THEN [sum |-> (s + x * u) * One, left |-> 0, cut |-> a[l - 1].cut]
                     ELSE [sum |-> s * One + x * w * u,
                           left |-> IF small THEN 0 ELSE left, cut |-> a[l - 1].cut \/ small]
          BY <2>5, <3>2 DEF Blend
        <4>4. CASE w >= One
          <5>1. a[l].sum = (s + x * u) * One /\ a[l].left = 0 /\ w = One /\ ~a[l].cut
            BY <1>3, <2>7, <4>1, <4>3, <4>4
          <5> HIDE DEF s, u, p, g, x, w
          <5>2. Lerp(q, l, g) = x * One * p
            BY <1>3, <2>2, <4>1, <4>2, <5>1
          <5>3. ((s + x * u) * One) * p = s * (One * p) + u * (x * One * p)
            <6>1. (s + x * u) * One = s * One + x * One * u
              BY <1>3, <2>2, <4>1
            <6>2. (s * One + x * One * u) * p + u * (One - One) * g
                    = s * (One * p) + u * (x * One * p + (One - One) * g)
              BY <1>3, <2>2, <4>1, Partial
            <6>3. u * (One - One) * g = 0 /\ (One - One) * g = 0
              BY <1>3, <2>2
            <6>4. x * One * p \in Int /\ (s * One + x * One * u) * p \in Int
              BY <1>3, <2>2, <4>1
            <6> QED
              BY <6>1, <6>2, <6>3, <6>4
          <5>4. 0 * g = 0 /\ ((s + x * u) * One) * p \in Int
            BY <1>3, <2>2, <4>1
          <5>5. a[l].sum * p + a[l].left * g = f[N]
            BY <3>0, <5>1, <5>2, <5>3, <5>4
          <5> QED
            BY <2>1, <5>1, <5>5 DEF p, g
        <4>5. CASE ~(w >= One)
          <5>1. /\ a[l].sum = s * One + x * w * u
                /\ a[l].left = IF small THEN 0 ELSE left
                /\ a[l].cut <=> small
            <6> HIDE DEF s, u, p, g, x, w, left, small
            <6>1. a[l] = [sum |-> s * One + x * w * u,
                          left |-> IF small THEN 0 ELSE left, cut |-> a[l - 1].cut \/ small]
              BY <4>3, <4>5, Zenon
            <6> DEFINE rest == IF small THEN 0 ELSE left
                       sum == s * One + x * w * u
                       cut == a[l - 1].cut \/ small
            <6>2. a[l] = [sum |-> sum, left |-> rest, cut |-> cut]
              BY <6>1
            <6>3. cut <=> small
              BY <2>7
            <6> HIDE DEF sum, rest, cut
            <6>4. a[l].sum = sum /\ a[l].left = rest /\ a[l].cut = cut
              BY <6>2
            <6> QED
              BY <6>3, <6>4 DEF sum, rest
          <5> HIDE DEF s, p, g, x, small
          <5>2. (s * One + x * w * u) * p + left * g = f[N]
            <6> HIDE DEF u, w
            <6>1. (s * One + x * w * u) * p + u * (One - w) * g
                    = s * (One * p) + u * (x * w * p + (One - w) * g)
              BY <1>3, <2>2, <4>1, Partial
            <6> QED
              BY <3>0, <4>2, <6>1
          <5>3. left \in Nat
            <6> DEFINE z == One - w
            <6>1. z \in Nat
              BY <1>3, <4>1
            <6> HIDE DEF u, z
            <6>2. u * z \in Nat
              BY <2>2, <6>1
            <6> QED
              BY <6>2 DEF z
          <5>4. CASE ~small
            <6>1. a[l].sum * p + a[l].left * g = f[N] /\ ~a[l].cut
              <7> HIDE DEF left, u, w
              <7> QED
                BY <5>1, <5>2, <5>4, Zenon
            <6> QED
              BY <2>1, <6>1 DEF p, g
          <5>5. CASE small
            <6> DEFINE m == (s * One + x * w * u) * p
                       miss == a[l].sum * p - f[N]
            <6>1. a[l].left = 0 /\ a[l].cut /\ a[l].sum = s * One + x * w * u
              BY <5>1, <5>5
            <6>2. left * Cutoff < Scale[l]
              BY <5>5 DEF small
            <6> HIDE DEF left
            <6>3. m \in Int /\ left * g \in Int /\ m + left * g = f[N]
              <7> HIDE DEF w, u
              <7> QED
                BY <1>3, <2>2, <4>1, <5>2, <5>3
            <6>4. miss = m - f[N]
              BY <6>1
            <6> HIDE DEF m, miss
            <6>5. miss = -(left * g)
              <7> DEFINE y == left * g
              <7>1. y \in Int /\ m + y = f[N]
                BY <6>3
              <7> HIDE DEF y
              <7>2. miss = -y
                BY <6>3, <6>4, <7>1
              <7> QED
                BY <7>2 DEF y
            <6>6. Bounded(q, v) => Within(miss * Cutoff, v * Scale[N])
              <7> SUFFICES ASSUME Bounded(q, v) PROVE Within(miss * Cutoff, v * Scale[N])
                OBVIOUS
              <7>1. Within(g, v * p)
                BY <1>2, <2>1, LerpBounded DEF g, p
              <7>2. Scale[l] * p = Scale[N] /\ Scale[l] \in Nat
                BY <1>4, <2>1, ScaleProduct DEF p
              <7> DEFINE t == Scale[l]
                         b == v * (t * p)
                         y == left * g * Cutoff
              <7>3. Within(y, b)
                BY <1>3, <2>2, <5>3, <6>2, <7>1, <7>2, CutProduct
              <7>4. miss * Cutoff = -y
                <8> DEFINE z == left * g
                <8>1. z \in Int /\ miss = -z
                  BY <6>3, <6>5
                <8> HIDE DEF z
                <8>2. miss * Cutoff = -(z * Cutoff)
                  BY <1>3, <8>1
                <8> QED
                  BY <8>2 DEF z
              <7>5. y \in Int /\ b \in Int
                BY <1>3, <2>2, <5>3, <6>3, <7>2
              <7>6. b = v * Scale[N]
                BY <7>2
              <7> HIDE DEF y, b
              <7>7. Within(-y, b)
                BY <7>3, <7>5 DEF Within
              <7> QED
                BY <7>4, <7>6, <7>7
            <6> QED
              BY <2>1, <6>1, <6>6 DEF miss, p
          <5> QED
            BY <5>4, <5>5
        <4> QED
          BY <4>4, <4>5
      <3> QED
        BY <3>1, <3>2
    <2> QED
      BY <1>4, <2>1, <2>6, <2>7
  <1>7. N \in T
    <2>1. \A l \in 1 .. N : l - 1 \in T => l \in T
      BY <1>6
    <2> HIDE DEF T
    <2>2. \A l \in 0 .. N : l \in T
      BY <1>3, <1>5, <2>1, Induct
    <2> QED
      BY <1>3, <2>2
  <1>8. Scale[0] = 1 /\ f[0] = 0 /\ N - N = 0
    BY <1>2, <1>3, Scales
  <1>9. a[N].sum \in Int /\ a[N].left \in Nat /\ a[N].cut \in BOOLEAN /\ f[N] \in Int
    BY <1>3, <1>4
  <1>10. a[N].sum * 1 = a[N].sum /\ a[N].left * 0 = 0
    BY <1>9
  <1>11. ~a[N].cut => a[N].sum = f[N]
    BY <1>7, <1>8, <1>9, <1>10
  <1>12. a[N].cut /\ Bounded(q, v) => Within((a[N].sum - f[N]) * Cutoff, v * Scale[N])
    BY <1>7, <1>8, <1>10
  <1>13. Blended(q) = a[N].sum /\ CutsOff(q) = a[N].cut
    BY <1>1 DEF Blended, CutsOff
  <1> HIDE DEF T
  <1> QED
    BY <1>2, <1>9, <1>11, <1>12, <1>13
-----------------------------------------------------------------------------
(* Hash sets *)

\* The opinions of the layers up to m: some layer has one, and the strongest that
\* has one adds the hash
Opined(q, m, h) == \E l \in 1 .. m : Active(q, l) /\ h \in q[l].value.pos \cup q[l].value.neg

Added(q, m, h) ==
  \E l \in 1 .. m :
    /\ Active(q, l) /\ h \in q[l].value.pos
    /\ \A k \in 1 .. l - 1 : Active(q, k) => h \notin q[k].value.pos \cup q[k].value.neg

\* After each layer, the set has the opinions of the layers so far, in their order
LEMMA MergedOpinions ==
  ASSUME NEW q, OfSets(q)
  PROVE  /\ Merged(q) \in SetType
         /\ \A h : /\ h \in Merged(q).pos <=> Added(q, N, h)
                   /\ h \in Merged(q).neg <=> Opined(q, N, h) /\ ~Added(q, N, h)
  <1>1. PICK a \in [0 .. N -> SetType] :
          /\ Merged(q) = a[N]
          /\ a[0] = NoOpinions
          /\ \A l \in 1 .. N : a[l] = MergeActive(q, l, a[l - 1])
    BY MergeSteps
  <1>2. N \in Nat
    BY LayersAssumption
  <1> DEFINE T == { l \in 0 .. N :
               \A h : /\ h \in a[l].pos <=> Added(q, l, h)
                      /\ h \in a[l].neg <=> Opined(q, l, h) /\ ~Added(q, l, h) }
  <1>3. 0 \in T
    <2>1. \A h : ~Opined(q, 0, h) /\ ~Added(q, 0, h)
      BY DEF Opined, Added
    <2>2. a[0].pos = {} /\ a[0].neg = {}
      BY <1>1 DEF NoOpinions
    <2> QED
      BY <1>2, <2>1, <2>2
  <1>4. ASSUME NEW l \in 1 .. N, l - 1 \in T PROVE l \in T
    <2>1. l \in 0 .. N /\ 1 .. l = 1 .. (l - 1) \cup {l} /\ l \notin 1 .. l - 1 /\ l \in 1 .. l
      BY <1>2
    <2>2. a[l] = MergeActive(q, l, a[l - 1])
      BY <1>1
    <2> DEFINE mine(h) == Active(q, l) /\ h \in q[l].value.pos
               any(h) == Active(q, l) /\ h \in q[l].value.pos \cup q[l].value.neg
    <2>3. \A h : Opined(q, l, h) <=> Opined(q, l - 1, h) \/ any(h)
      BY <2>1 DEF Opined
    <2>4. \A h : Added(q, l, h) <=> Added(q, l - 1, h) \/ (mine(h) /\ ~Opined(q, l - 1, h))
      BY <2>1 DEF Added, Opined
    <2>5. \A h : Added(q, l - 1, h) => Opined(q, l - 1, h)
      BY DEF Added, Opined
    <2>6. \A h : /\ h \in a[l - 1].pos <=> Added(q, l - 1, h)
                 /\ h \in a[l - 1].neg <=> Opined(q, l - 1, h) /\ ~Added(q, l - 1, h)
      BY <1>4
    <2>7. CASE Active(q, l)
      <3>1. /\ a[l].pos = a[l - 1].pos \cup (q[l].value.pos \ a[l - 1].neg)
            /\ a[l].neg = a[l - 1].neg \cup (q[l].value.neg \ a[l].pos)
        BY <2>2, <2>7 DEF MergeActive, Merge
      <3>2. \A h : h \in a[l].pos <=> Added(q, l, h)
        BY <2>4, <2>5, <2>6, <2>7, <3>1
      <3>3. \A h : h \in a[l].neg <=> Opined(q, l, h) /\ ~Added(q, l, h)
        BY <2>3, <2>4, <2>5, <2>6, <2>7, <3>1, <3>2
      <3> QED
        BY <2>1, <3>2, <3>3
    <2>8. CASE ~Active(q, l)
      <3>1. a[l] = a[l - 1]
        BY <2>2, <2>8 DEF MergeActive
      <3> QED
        BY <2>1, <2>3, <2>4, <2>6, <2>8, <3>1
    <2> QED
      BY <2>7, <2>8
  <1>5. N \in T
    <2>1. \A l \in 1 .. N : l - 1 \in T => l \in T
      BY <1>4
    <2> HIDE DEF T
    <2>2. \A l \in 0 .. N : l \in T
      BY <1>2, <1>3, <2>1, Induct
    <2> QED
      BY <1>2, <2>2
  <1>6. a[N] \in SetType
    BY <1>2
  <1> QED
    BY <1>1, <1>5, <1>6

LEMMA MergedIsWanted ==
  ASSUME NEW q, OfSets(q)
  PROVE  Merged(q).pos = { h \in Hashes : Wanted(q, h) }
  <1>1. \A h : Wanted(q, h) <=> Added(q, N, h)
    BY DEF Wanted, Added, Layers
  <1>2. Merged(q).pos \subseteq Hashes
    BY MergedOpinions DEF SetType
  <1> QED
    BY <1>1, <1>2, MergedOpinions

-----------------------------------------------------------------------------
\* What leaving out a redundant value does

LEMMA RedundantSet ==
  ASSUME NEW q, OfSets(q), NEW l \in DOMAIN q, l \in Layers, q[l].value = Merged(Weaker(q, l))
  PROVE  Merged(Without(q, l)) = Merged(q)
  <1> DEFINE w == Weaker(q, l)
             r == Without(q, l)
  <1>1. /\ DOMAIN w = { k \in DOMAIN q : k > l } /\ \A k \in DOMAIN w : w[k] = q[k]
        /\ DOMAIN r = DOMAIN q \ {l} /\ \A k \in DOMAIN r : r[k] = q[k]
    BY DEF Weaker, Without
  <1>2. q[l].value = Merged(w)
    OBVIOUS
  <1> HIDE DEF w, r
  <1>3. OfSets(w) /\ OfSets(r)
    BY <1>1 DEF OfSets
  <1>4. N \in Nat /\ l \in 1 .. N
    BY LayersAssumption DEF Layers
  <1>5. \A k \in 1 .. N : /\ Active(w, k) <=> k > l /\ Active(q, k)
                          /\ Active(r, k) <=> k # l /\ Active(q, k)
    BY <1>1 DEF Active
  <1>6. \A k \in 1 .. N : /\ Active(w, k) => w[k] = q[k]
                          /\ Active(r, k) => r[k] = q[k]
    BY <1>1 DEF Active
  <1> DEFINE Opines(k, h) == Active(q, k) /\ h \in q[k].value.pos \cup q[k].value.neg
             Adds(k, h) == Active(q, k) /\ h \in q[k].value.pos
  <1>7. \A h : /\ h \in q[l].value.pos <=> Added(w, N, h)
               /\ h \in q[l].value.neg <=> Opined(w, N, h) /\ ~Added(w, N, h)
    BY <1>2, <1>3, MergedOpinions
  <1>8. ASSUME NEW h
        PROVE  (Opined(q, N, h) <=> Opined(r, N, h)) /\ (Added(q, N, h) <=> Added(r, N, h))
    <2>1. Opined(w, N, h) <=> \E k \in 1 .. N : k > l /\ Opines(k, h)
      BY <1>5, <1>6 DEF Opined
    <2>2. Opined(r, N, h) <=> \E k \in 1 .. N : k # l /\ Opines(k, h)
      BY <1>5, <1>6 DEF Opined
    <2>3. Added(w, N, h) <=> \E k \in 1 .. N : /\ k > l /\ Adds(k, h)
                                               /\ \A j \in 1 .. N : j < k /\ j > l => ~Opines(j, h)
      <3>1. \A k \in 1 .. N : 1 .. k - 1 = { j \in 1 .. N : j < k }
        BY <1>4
      <3> QED
        BY <1>5, <1>6, <3>1 DEF Added
    <2>4. Added(r, N, h) <=> \E k \in 1 .. N : /\ k # l /\ Adds(k, h)
                                               /\ \A j \in 1 .. N : j < k /\ j # l => ~Opines(j, h)
      <3>1. \A k \in 1 .. N : 1 .. k - 1 = { j \in 1 .. N : j < k }
        BY <1>4
      <3> QED
        BY <1>5, <1>6, <3>1 DEF Added
    <2>5. Added(q, N, h) <=> \E k \in 1 .. N : /\ Adds(k, h)
                                               /\ \A j \in 1 .. N : j < k => ~Opines(j, h)
      <3>1. \A k \in 1 .. N : 1 .. k - 1 = { j \in 1 .. N : j < k }
        BY <1>4
      <3> QED
        BY <3>1 DEF Added
    <2>6. Opined(q, N, h) <=> \E k \in 1 .. N : Opines(k, h)
      BY DEF Opined
    <2>7. Opines(l, h) => Opined(w, N, h)
      <3>1. Added(w, N, h) => Opined(w, N, h)
        BY DEF Added, Opined
      <3> QED
        BY <1>7, <3>1
    <2>8. Active(q, l) /\ Opined(w, N, h) => Opines(l, h)
      BY <1>7
    <2>9. Adds(l, h) <=> Active(q, l) /\ Added(w, N, h)
      BY <1>7
    <2>10. \A k \in 1 .. N : Adds(k, h) => Opines(k, h)
      OBVIOUS
    <2>11. Opines(l, h) => Active(q, l)
      OBVIOUS
    <2> HIDE DEF Adds, Opines
    <2>12. Opined(q, N, h) <=> Opined(r, N, h)
      BY <1>4, <2>1, <2>2, <2>6, <2>7
    <2>13. Added(q, N, h) => Added(r, N, h)
      <3> SUFFICES ASSUME Added(q, N, h) PROVE Added(r, N, h)
        OBVIOUS
      <3>1. PICK k \in 1 .. N : Adds(k, h) /\ \A j \in 1 .. N : j < k => ~Opines(j, h)
        BY <2>5
      <3>2. CASE k # l
        BY <2>4, <3>1, <3>2
      <3>3. CASE k = l
        <4>1. PICK m \in 1 .. N : /\ m > l /\ Adds(m, h)
                                  /\ \A j \in 1 .. N : j < m /\ j > l => ~Opines(j, h)
          BY <2>3, <2>9, <3>1, <3>3
        <4>2. m # l /\ \A j \in 1 .. N : j < m /\ j # l => ~Opines(j, h)
          BY <1>4, <3>1, <3>3, <4>1
        <4> QED
          BY <2>4, <4>1, <4>2
      <3> QED
        BY <3>2, <3>3
    <2>14. Added(r, N, h) => Added(q, N, h)
      <3> SUFFICES ASSUME Added(r, N, h) PROVE Added(q, N, h)
        OBVIOUS
      <3>1. PICK k \in 1 .. N : /\ k # l /\ Adds(k, h)
                                /\ \A j \in 1 .. N : j < k /\ j # l => ~Opines(j, h)
        BY <2>4
      <3>2. CASE k < l \/ ~Opines(l, h)
        BY <1>4, <2>5, <3>1, <3>2
      <3>3. CASE k > l /\ Opines(l, h)
        <4>1. Added(w, N, h)
          BY <1>4, <2>3, <3>1, <3>3
        <4>2. Adds(l, h)
          BY <2>9, <2>11, <3>3, <4>1
        <4>3. \A j \in 1 .. N : j < l => ~Opines(j, h)
          BY <1>4, <3>1, <3>3
        <4> QED
          BY <1>4, <2>5, <4>2, <4>3
      <3> QED
        BY <1>4, <3>1, <3>2, <3>3
    <2> QED
      BY <2>12, <2>13, <2>14
  <1>9. Merged(q) \in SetType /\ Merged(r) \in SetType
    BY <1>3, MergedOpinions
  <1>10. Merged(q).pos = Merged(r).pos /\ Merged(q).neg = Merged(r).neg
    <2>1. \A h : /\ h \in Merged(q).pos <=> Added(q, N, h)
                 /\ h \in Merged(q).neg <=> Opined(q, N, h) /\ ~Added(q, N, h)
      BY MergedOpinions
    <2>2. \A h : /\ h \in Merged(r).pos <=> Added(r, N, h)
                 /\ h \in Merged(r).neg <=> Opined(r, N, h) /\ ~Added(r, N, h)
      BY <1>3, MergedOpinions
    <2>3. \A h : (h \in Merged(q).pos <=> h \in Merged(r).pos)
                /\ (h \in Merged(q).neg <=> h \in Merged(r).neg)
      BY <1>8, <2>1, <2>2
    <2> QED
      BY <2>3
  <1> QED
    BY <1>9, <1>10 DEF SetType, r
-----------------------------------------------------------------------------
(* Other values, and numbers, without a redundant one *)

\* The strongest active layer decides
LEMMA StrongestIs ==
  ASSUME NEW q, NEW l \in Layers, Active(q, l), \A k \in Layers : Active(q, k) => l <= k
  PROVE  Strongest(q) = q[l].value
  <1> DEFINE P(m) == Active(q, m) /\ \A k \in Layers : Active(q, k) => m <= k
             c == CHOOSE m \in Layers : P(m)
  <1>1. P(l)
    OBVIOUS
  <1>2. c \in Layers /\ P(c)
    <2> HIDE DEF P
    <2> QED
      BY <1>1
  <1>3. Strongest(q) = q[c].value
    BY DEF Strongest
  <1> HIDE DEF c
  <1>4. l <= c /\ c <= l
    BY <1>1, <1>2
  <1>5. l \in Int /\ c \in Int
    BY <1>2 DEF Layers
  <1>6. c = l
    BY <1>4, <1>5
  <1> QED
    BY <1>3, <1>6

LEMMA SomeStrongest ==
  ASSUME NEW q, NEW m \in Layers, Active(q, m)
  PROVE  \E l \in Layers : Active(q, l) /\ \A k \in Layers : Active(q, k) => l <= k
  <1> DEFINE T == { l \in Layers : Active(q, l) }
  <1>1. T \in SUBSET Nat /\ T # {}
    BY DEF Layers
  <1>2. PICK l \in T : \A k \in T : l <= k
    BY <1>1, LeastNumber
  <1> QED
    BY <1>2

\* The default layer always has a say, so that the weaker layers have one
LEMMA RedundantPlain ==
  ASSUME NEW q, NEW l \in Layers, l # N, N \in DOMAIN q, Active(q, N), l \in DOMAIN q, Numeric(q)
  PROVE  /\ Strongest(Weaker(q, l)) \in Int
         /\ \/ Strongest(Without(q, l)) = Strongest(q)
            \/ /\ Strongest(q) = q[l].value
               /\ Strongest(Without(q, l)) = Strongest(Weaker(q, l))
  <1> DEFINE w == Weaker(q, l)
             r == Without(q, l)
  <1>1. /\ DOMAIN w = { k \in DOMAIN q : k > l } /\ \A k \in DOMAIN w : w[k] = q[k]
        /\ DOMAIN r = DOMAIN q \ {l} /\ \A k \in DOMAIN r : r[k] = q[k]
    BY DEF Weaker, Without
  <1> HIDE DEF w, r
  <1>3. N \in Layers /\ N > l /\ Layers \subseteq Int
    BY LayersAssumption DEF Layers
  <1>4. \A k \in Layers : /\ Active(w, k) <=> k > l /\ Active(q, k)
                          /\ Active(r, k) <=> k # l /\ Active(q, k)
    BY <1>1 DEF Active
  <1>5. PICK m \in Layers : Active(w, m) /\ \A k \in Layers : Active(w, k) => m <= k
    BY <1>3, <1>4, SomeStrongest
  <1>6. m > l /\ Active(q, m)
    BY <1>4, <1>5
  <1>7. PICK s \in Layers : Active(q, s) /\ \A k \in Layers : Active(q, k) => s <= k
    BY <1>3, SomeStrongest
  <1>8. Strongest(q) = q[s].value /\ Strongest(w) = w[m].value
    BY <1>5, <1>7, StrongestIs
  <1>9. Strongest(w) \in Int
    BY <1>1, <1>5, <1>8 DEF Active, Numeric
  <1>10. CASE s # l
    <2>1. Active(r, s) /\ \A k \in Layers : Active(r, k) => s <= k
      BY <1>4, <1>7, <1>10
    <2>2. Strongest(r) = r[s].value /\ r[s] = q[s]
      BY <1>1, <2>1, StrongestIs DEF Active
    <2> QED
      BY <1>8, <1>9, <2>2 DEF r, w
  <1>11. CASE s = l
    <2>1. Active(r, m) /\ \A k \in Layers : Active(r, k) => m <= k
      BY <1>3, <1>4, <1>5, <1>6, <1>7, <1>11
    <2>2. Strongest(r) = r[m].value /\ r[m] = q[m] /\ w[m] = q[m]
      BY <1>1, <1>5, <2>1, StrongestIs DEF Active
    <2> QED
      BY <1>8, <1>9, <1>11, <2>2 DEF r, w
  <1> QED
    BY <1>10, <1>11

\* Clamping takes what is between a value and what it is clamped to, to the same
Between(a, x, b) == (a <= x /\ x <= b) \/ (b <= x /\ x <= a)

LEMMA ClampBetween ==
  ASSUME NEW lim \in LimitsType, NEW scale \in Nat, NEW x \in Int, NEW y \in Int,
         Between(Clamp(lim, scale, y), x, y)
  PROVE  Clamp(lim, scale, x) = Clamp(lim, scale, y)
  <1> DEFINE a == lim.min * scale
             b == lim.max * scale
             low == lim.min # NoLimit
             high == lim.max # NoLimit
             up(v) == IF low /\ v < a THEN a ELSE v
             down(v) == IF high /\ v > b THEN b ELSE v
  <1>1. (low => a \in Int) /\ (high => b \in Int)
    BY DEF LimitsType, Limit
  <1>2. \A v : Clamp(lim, scale, v) = down(up(v))
    BY DEF Clamp, AtMost, AtLeast
  <1>3. Between(down(up(y)), x, y)
    BY <1>2
  <1> HIDE DEF a, b, low, high
  <1>4. down(up(x)) = down(up(y))
    BY <1>1, <1>3 DEF Between
  <1> QED
    BY <1>2, <1>4

LEMMA ClampIsInt ==
  ASSUME NEW lim \in LimitsType, NEW scale \in Nat, NEW x \in Int PROVE Clamp(lim, scale, x) \in Int
  <1>1. lim.min # NoLimit => lim.min * scale \in Int
    BY DEF LimitsType, Limit
  <1>2. lim.max # NoLimit => lim.max * scale \in Int
    BY DEF LimitsType, Limit
  <1> QED
    BY <1>1, <1>2 DEF Clamp, AtMost, AtLeast

\* A common factor keeps the order, and an interpolation is between its ends
LEMMA OrderScales ==
  ASSUME NEW k \in Nat, NEW x \in Int, NEW y \in Int, x <= y PROVE k * x <= k * y
  <1> DEFINE d == y - x
  <1>1. d \in Nat /\ y = x + d
    OBVIOUS
  <1> HIDE DEF d
  <1>2. k * y = k * x + k * d /\ k * d \in Nat /\ k * x \in Int
    BY <1>1
  <1> QED
    BY <1>2

LEMMA BetweenScales ==
  ASSUME NEW k \in Nat, NEW a \in Int, NEW x \in Int, NEW b \in Int, Between(a, x, b)
  PROVE  Between(k * a, k * x, k * b)
  <1>1. CASE a <= x /\ x <= b
    <2>1. k * a <= k * x /\ k * x <= k * b
      BY <1>1, OrderScales
    <2> QED
      BY <2>1 DEF Between
  <1>2. CASE b <= x /\ x <= a
    <2>1. k * b <= k * x /\ k * x <= k * a
      BY <1>2, OrderScales
    <2> QED
      BY <2>1 DEF Between
  <1> QED
    BY <1>1, <1>2 DEF Between

LEMMA LerpBetween ==
  ASSUME NEW w \in Int, NEW one \in Int, 0 <= w, w <= one, NEW a \in Int, NEW b \in Int
  PROVE  Between(one * a, w * a + (one - w) * b, one * b)
  <1> DEFINE z == one - w
  <1>1. w \in Nat /\ z \in Nat
    OBVIOUS
  <1>2. one * a = w * a + z * a /\ one * b = w * b + z * b
    OBVIOUS
  <1> HIDE DEF z
  <1> DEFINE wa == w * a
             wb == w * b
             za == z * a
             zb == z * b
  <1>3. wa \in Int /\ wb \in Int /\ za \in Int /\ zb \in Int
    BY <1>1
  <1>4. (wa <= wb /\ za <= zb) \/ (wb <= wa /\ zb <= za)
    <2>1. CASE a <= b
      BY <1>1, <2>1, OrderScales
    <2>2. CASE b <= a
      BY <1>1, <2>2, OrderScales
    <2> QED
      BY <2>1, <2>2
  <1>5. one * a = wa + za /\ one * b = wb + zb /\ w * a + (one - w) * b = wa + zb
    BY <1>2 DEF z
  <1> HIDE DEF wa, wb, za, zb
  <1>6. Between(wa + za, wa + zb, wb + zb)
    BY <1>3, <1>4 DEF Between
  <1> QED
    BY <1>5, <1>6

\* Counted from the weakest layer, a weaker one comes earlier
LEMMA Places ==
  ASSUME NEW m \in Int, NEW l \in Int, NEW n \in Int PROVE m + 1 - n > l <=> n < m + 1 - l
  OBVIOUS

\* A common factor
LEMMA Cancel ==
  ASSUME NEW a \in Nat, a > 0, NEW v \in Int, NEW x \in Int, NEW y \in Int,
         a * x = v * (a * y)
  PROVE  x = v * y
  <1> DEFINE z == v * y
             d == x - z
  <1>1. z \in Int /\ a * z = v * (a * y)
    OBVIOUS
  <1> HIDE DEF z
  <1>2. d \in Int /\ a * d = a * x - a * z /\ x = d + z
    BY <1>1
  <1>3. a * d = 0
    BY <1>1, <1>2
  <1> HIDE DEF d
  <1>4. d = 0
    BY <1>2, <1>3
  <1>5. x = z
    BY <1>1, <1>2, <1>4
  <1> QED
    BY <1>5 DEF z

\* The weaker layers resolve to the value of the layer.  Either they do without
\* the limits: then so does what its interpolation makes of them, and the stronger
\* layers start from the same value.  Or they are clamped to it: then the stronger
\* layers, none of which blends, either settle the value or leave what they start
\* from, with the layer somewhere between what is clamped and what it is clamped to.
LEMMA RedundantNumber ==
  ASSUME NEW q, Numeric(q), NEW l \in Layers, l \in DOMAIN q,
         NEW lim \in LimitsType, q[l].value * Scale[N] = Clamp(lim, Scale[N], Blended(Weaker(q, l))),
         ~CutsOff(q), ~CutsOff(Without(q, l)), ~CutsOff(Weaker(q, l)),
         BlendsOver(q, l) => Clamp(lim, Scale[N], Blended(Weaker(q, l))) = Blended(Weaker(q, l))
  PROVE  Clamp(lim, Scale[N], Blended(Without(q, l))) = Clamp(lim, Scale[N], Blended(q))
  <1> DEFINE w == Weaker(q, l)
             r == Without(q, l)
             c == N + 1 - l
             v == q[l].value
             inside == v * Scale[N] = Blended(w)
  <1>1. /\ DOMAIN w = { k \in DOMAIN q : k > l } /\ \A k \in DOMAIN w : w[k] = q[k]
        /\ DOMAIN r = DOMAIN q \ {l} /\ \A k \in DOMAIN r : r[k] = q[k]
    BY DEF Weaker, Without
  <1>2. /\ v * Scale[N] = Clamp(lim, Scale[N], Blended(w))
        /\ BlendsOver(q, l) => inside
        /\ ~CutsOff(w) /\ ~CutsOff(r)
    OBVIOUS
  <1> HIDE DEF w, r
  <1>3. Numeric(w) /\ Numeric(r)
    BY <1>1 DEF Numeric
  <1>4. PICK f \in [0 .. N -> Int] :
          /\ NestedLerp(q) = f[N] /\ f[0] = 0
          /\ \A n \in 1 .. N : f[n] = Lerp(q, N + 1 - n, f[n - 1])
    BY LerpSteps
  <1>5. PICK g \in [0 .. N -> Int] :
          /\ NestedLerp(r) = g[N] /\ g[0] = 0
          /\ \A n \in 1 .. N : g[n] = Lerp(r, N + 1 - n, g[n - 1])
    BY <1>3, LerpSteps
  <1>6. PICK h \in [0 .. N -> Int] :
          /\ NestedLerp(w) = h[N] /\ h[0] = 0
          /\ \A n \in 1 .. N : h[n] = Lerp(w, N + 1 - n, h[n - 1])
    BY <1>3, LerpSteps
  <1>7. /\ N \in Nat /\ One \in Nat /\ One > 0 /\ l \in 1 .. N
        /\ c \in 1 .. N /\ c - 1 \in 0 .. N /\ N + 1 - c = l /\ N - l = c - 1
        /\ v \in Int /\ q[l].strength \in Int
    BY LayersAssumption, BlendAssumption DEF Layers, Numeric
  <1>8. /\ Blended(q) = f[N] /\ Blended(r) = g[N] /\ Blended(w) = h[N]
    <2>1. 0 \in Nat
      OBVIOUS
    <2> QED
      BY <1>2, <1>3, <1>4, <1>5, <1>6, <2>1, BlendIsNested, Zenon
  <1>9. ASSUME NEW n \in 1 .. N, n # c, NEW y PROVE Lerp(r, N + 1 - n, y) = Lerp(q, N + 1 - n, y)
    <2> DEFINE k == N + 1 - n
    <2>1. k # l
      BY <1>7, <1>9
    <2> HIDE DEF k
    <2>2. Lerp(r, k, y) = Lerp(q, k, y)
      BY <1>1, <2>1 DEF Lerp
    <2> QED
      BY <2>2 DEF k
  <1>10. ASSUME NEW n \in 1 .. N, NEW y
         PROVE  Lerp(w, N + 1 - n, y) = IF n < c THEN Lerp(q, N + 1 - n, y) ELSE One * y
    <2> DEFINE k == N + 1 - n
    <2>1. k > l <=> n < c
      <3>1. N \in Int /\ l \in Int /\ n \in Int
        BY <1>7
      <3> QED
        BY <3>1, Places
    <2> HIDE DEF k, c
    <2>2. Lerp(w, k, y) = IF k > l THEN Lerp(q, k, y) ELSE One * y
      BY <1>1 DEF Lerp
    <2> QED
      BY <2>1, <2>2 DEF k
  <1> HIDE DEF c, v
  \* the weaker layers resolve alike in all three queues
  <1>11. \A n \in 0 .. c - 1 : f[n] = g[n] /\ f[n] = h[n]
    <2> DEFINE T == { n \in 0 .. c - 1 : f[n] = g[n] /\ f[n] = h[n] }
    <2>1. 0 \in T
      BY <1>4, <1>5, <1>6, <1>7
    <2>2. ASSUME NEW n \in 1 .. c - 1, n - 1 \in T PROVE n \in T
      <3>1. n \in 1 .. N /\ n # c /\ n < c
        BY <1>7
      <3>2. f[n] = Lerp(q, N + 1 - n, f[n - 1]) /\ g[n] = Lerp(q, N + 1 - n, g[n - 1])
        BY <1>4, <1>5, <1>9, <3>1
      <3>3. h[n] = Lerp(q, N + 1 - n, h[n - 1])
        BY <1>6, <1>10, <3>1
      <3> QED
        BY <2>2, <3>2, <3>3
    <2> HIDE DEF T
    <2>3. c - 1 \in Nat /\ \A n \in 1 .. c - 1 : n - 1 \in T => n \in T
      BY <1>7, <2>2
    <2>4. \A n \in 0 .. c - 1 : n \in T
      BY <2>1, <2>3, Induct
    <2> QED
      BY <2>4 DEF T
  \* and to the value of layer l, unless they are clamped to it
  <1>12. inside => h[c - 1] = v * Scale[c - 1]
    <2> SUFFICES ASSUME inside PROVE h[c - 1] = v * Scale[c - 1]
      OBVIOUS
    <2> DEFINE T == { m \in 0 .. N - (c - 1) : h[N - m] = v * Scale[N - m] }
    <2>1. 0 \in T
      <3>1. h[N] = v * Scale[N]
        BY <1>8
      <3>2. N - 0 = N /\ 0 \in 0 .. N - (c - 1)
        BY <1>7
      <3> QED
        BY <3>1, <3>2, Zenon
    <2>2. ASSUME NEW m \in 1 .. N - (c - 1), m - 1 \in T PROVE m \in T
      <3> DEFINE n == N - (m - 1)
      <3>1. n \in 1 .. N /\ ~(n < c) /\ n - 1 = N - m /\ n - 1 \in 0 .. N
        BY <1>7
      <3>2. h[n] = v * Scale[n]
        BY <2>2
      <3> HIDE DEF n, inside
      <3>3. h[n] = One * h[n - 1] /\ Scale[n] = One * Scale[n - 1]
        BY <1>6, <1>10, <3>1, Scales
      <3>4. h[n - 1] \in Int /\ Scale[n - 1] \in Int
        BY <3>1, Scales
      <3>5. One * h[n - 1] = v * (One * Scale[n - 1])
        BY <3>2, <3>3
      <3>6. h[n - 1] = v * Scale[n - 1]
        <4> DEFINE x == h[n - 1]
                   y == Scale[n - 1]
        <4>1. x \in Int /\ y \in Int /\ One * x = v * (One * y)
          BY <3>4, <3>5
        <4> HIDE DEF x, y
        <4>2. x = v * y
          BY <1>7, <4>1, Cancel
        <4> QED
          BY <4>2 DEF x, y
      <3> QED
        BY <3>1, <3>6
    <2> HIDE DEF T
    <2>3. N - (c - 1) \in Nat /\ \A m \in 1 .. N - (c - 1) : m - 1 \in T => m \in T
      BY <1>7, <2>2
    <2>4. \A m \in 0 .. N - (c - 1) : m \in T
      BY <2>1, <2>3, Induct
    <2>5. N - (c - 1) \in T /\ N - (N - (c - 1)) = c - 1
      BY <1>7, <2>4
    <2> QED
      BY <2>5 DEF T
  <1> HIDE DEF inside
  \* so that it makes no difference whether layer l is interpolated, or it stays
  \* between the two
  <1> DEFINE differs(n) == ~inside /\ g[n] = h[n] /\ Between(v * Scale[n], f[n], h[n])
             alike(n) == f[n] = g[n] \/ differs(n)
  <1>13. alike(c)
    <2> DEFINE p == Scale[c - 1]
               s == q[l].strength
               y == h[c - 1]
               x == v * p
    <2>1. f[c - 1] = y /\ g[c - 1] = y /\ Scale[c] = One * p
      <3>1. c - 1 \in 0 .. c - 1
        BY <1>7
      <3> QED
        BY <1>7, <1>11, <3>1, Scales
    <2>2. f[c] = v * s * p + (One - s) * y
      BY <1>4, <1>7, <2>1 DEF Lerp, v
    <2>3. g[c] = One * y
      BY <1>1, <1>5, <1>7, <2>1 DEF Lerp
    <2>4. h[c] = One * y
      BY <1>6, <1>7, <1>10
    <2>5. p \in Int /\ y \in Int /\ s \in Int /\ 0 <= s /\ s <= One
      <3>1. c - 1 \in 0 .. N /\ s \in 0 .. One /\ One \in Int
        BY <1>7 DEF Numeric
      <3>2. p \in Nat
        BY <3>1, Scales
      <3>3. y \in Int
        BY <3>1
      <3> HIDE DEF p, s, y
      <3> QED
        BY <3>1, <3>2, <3>3
    <2> HIDE DEF p, s, y
    <2>6. x \in Int /\ v * s * p = s * x /\ v * (One * p) = One * x
      BY <1>7, <2>5
    <2>7. inside => x = y
      BY <1>12 DEF p, y
    <2> HIDE DEF x
    <2>8. Between(One * x, s * x + (One - s) * y, One * y)
      <3>1. One \in Int
        BY <1>7
      <3> QED
        BY <2>5, <2>6, <3>1, LerpBetween, Zenon
    <2>9. CASE inside
      <3>1. (One - s) * x = One * x - s * x /\ s * x \in Int /\ One * x \in Int
        BY <1>7, <2>5, <2>6
      <3>2. f[c] = s * x + (One - s) * x /\ g[c] = One * x
        BY <2>2, <2>3, <2>6, <2>7, <2>9
      <3> QED
        BY <3>1, <3>2
    <2>10. CASE ~inside
      <3>1. f[c] = s * x + (One - s) * y /\ v * Scale[c] = One * x
        BY <2>1, <2>2, <2>6
      <3> QED
        BY <2>3, <2>4, <2>8, <2>10, <3>1, Zenon
    <2> QED
      BY <2>9, <2>10
  \* A stronger layer that does not blend passes on what it gets, or settles it
  <1>14. ASSUME NEW n \in 1 .. N, n > c, alike(n - 1) PROVE alike(n)
    <2> DEFINE k == N + 1 - n
               p == Scale[n - 1]
    <2>1. n - 1 \in 0 .. N /\ k < l /\ N - k = n - 1 /\ n # c /\ ~(n < c)
      <3>1. N \in Int /\ n \in Int /\ l \in Int /\ n > c /\ n \in 1 .. N
        BY <1>7, <1>14
      <3>2. n > N + 1 - l
        BY <3>1 DEF c
      <3>3. N + 1 - l \in Int /\ c \in Int
        BY <3>1 DEF c
      <3>4. k < l /\ N - k = n - 1
        BY <3>1, <3>2
      <3> QED
        BY <3>1, <3>3, <3>4
    <2>2. f[n] = Lerp(q, k, f[n - 1]) /\ g[n] = Lerp(q, k, g[n - 1])
      BY <1>4, <1>5, <1>9, <2>1
    <2>3. CASE f[n - 1] = g[n - 1]
      BY <2>2, <2>3
    <2>4. CASE differs(n - 1)
      <3>1. h[n] = One * h[n - 1] /\ Scale[n] = One * p
        BY <1>6, <1>10, <2>1, Scales
      <3>2. ~BlendsOver(q, l)
        BY <1>2, <2>4
      <3>3. /\ p \in Int /\ f[n - 1] \in Int /\ g[n - 1] \in Int /\ h[n - 1] \in Int
        BY <2>1, Scales
      <3>4. CASE k \in DOMAIN q /\ q[k].strength = One
        <4> DEFINE x == f[n - 1]
                   y == g[n - 1]
                   b == q[k].value * One * p
        <4>1. f[n] = b + (One - One) * x /\ g[n] = b + (One - One) * y
          BY <2>1, <2>2, <3>4 DEF Lerp
        <4>2. x \in Int /\ y \in Int
          BY <3>3
        <4> HIDE DEF x, y, b
        <4>3. (One - One) * x = 0 /\ (One - One) * y = 0
          BY <1>7, <4>2
        <4> QED
          BY <4>1, <4>3
      <3>5. CASE ~(k \in DOMAIN q /\ q[k].strength = One)
        <4>1. f[n] = One * f[n - 1] /\ g[n] = One * g[n - 1]
          <5>1. CASE k \notin DOMAIN q
            BY <2>2, <5>1 DEF Lerp
          <5>2. CASE k \in DOMAIN q
            <6>1. q[k].strength = 0 /\ q[k].value \in Int
              <7>1. q[k].strength \in 0 .. One /\ q[k].value \in Int
                BY <5>2 DEF Numeric
              <7>2. q[k].strength \notin 1 .. One - 1
                BY <2>1, <3>2, <5>2 DEF BlendsOver
              <7> DEFINE s == q[k].strength
              <7>3. s \in 0 .. One /\ s # One /\ s \notin 1 .. One - 1
                BY <3>5, <5>2, <7>1, <7>2
              <7> HIDE DEF s
              <7>4. s = 0
                BY <1>7, <7>3
              <7> QED
                BY <7>1, <7>4 DEF s
            <6> DEFINE u == q[k].value
                       x == f[n - 1]
                       y == g[n - 1]
            <6>2. /\ f[n] = u * 0 * p + (One - 0) * x
                  /\ g[n] = u * 0 * p + (One - 0) * y
              BY <2>1, <2>2, <5>2, <6>1 DEF Lerp
            <6>3. u \in Int /\ x \in Int /\ y \in Int
              BY <3>3, <6>1
            <6> HIDE DEF u, x, y, p
            <6>4. u * 0 * p = 0 /\ One - 0 = One /\ One * x \in Int /\ One * y \in Int
              BY <1>7, <3>3, <6>3
            <6>5. f[n] = One * x /\ g[n] = One * y
              BY <6>2, <6>4
            <6> QED
              BY <6>5 DEF x, y
          <5> QED
            BY <5>1, <5>2
        <4> DEFINE a == v * p
                   x == f[n - 1]
                   b == h[n - 1]
        <4>2. a \in Int /\ x \in Int /\ b \in Int /\ v * (One * p) = One * a /\ Between(a, x, b)
          <5>1. Between(a, x, b)
            BY <2>4
          <5> HIDE DEF p
          <5>2. a \in Int /\ v * (One * p) = One * a
            BY <1>7, <3>3
          <5> QED
            BY <3>3, <5>1, <5>2
        <4> HIDE DEF a, x, b
        <4>3. Between(One * a, One * x, One * b)
          BY <1>7, <4>2, BetweenScales
        <4>4. f[n] = One * x /\ g[n] = h[n] /\ h[n] = One * b /\ v * Scale[n] = One * a
          BY <2>4, <3>1, <4>1, <4>2 DEF x, b
        <4> QED
          BY <2>4, <4>3, <4>4, Zenon
      <3> QED
        BY <3>4, <3>5
    <2> QED
      BY <1>14, <2>3, <2>4
  <1> HIDE DEF alike
  <1>15. \A m \in 0 .. N - c : alike(c + m)
    <2> DEFINE T == { m \in 0 .. N - c : alike(c + m) }
    <2>1. 0 \in T
      BY <1>7, <1>13
    <2>2. ASSUME NEW m \in 1 .. N - c, m - 1 \in T PROVE m \in T
      <3> DEFINE n == c + m
      <3>1. n \in 1 .. N /\ n > c /\ n - 1 = c + (m - 1)
        <4>1. c \in Int /\ c >= 1 /\ m \in 1 .. N - c /\ N \in Int
          BY <1>7
        <4> QED
          BY <4>1
      <3>2. alike(n - 1)
        BY <2>2, <3>1
      <3> HIDE DEF n
      <3>3. alike(n)
        BY <1>14, <3>1, <3>2
      <3> QED
        BY <2>2, <3>3 DEF n
    <2> HIDE DEF T
    <2>3. N - c \in Nat
      <3>1. N \in Nat /\ c \in 1 .. N
        BY <1>7
      <3>2. c \in Int /\ c <= N
        BY <3>1
      <3> QED
        BY <3>1, <3>2
    <2>4. \A m \in 1 .. N - c : m - 1 \in T => m \in T
      BY <2>2
    <2>5. \A m \in 0 .. N - c : m \in T
      BY <2>1, <2>3, <2>4, Induct
    <2> QED
      BY <2>5 DEF T
  <1>16. alike(N)
    <2>1. N - c \in 0 .. N - c /\ c + (N - c) = N
      BY <1>7
    <2> QED
      BY <1>15, <2>1
  <1>17. Clamp(lim, Scale[N], f[N]) = Clamp(lim, Scale[N], g[N])
    <2>1. CASE f[N] = g[N]
      BY <2>1
    <2>2. CASE differs(N)
      <3>1. Scale[N] \in Nat /\ f[N] \in Int /\ h[N] \in Int
        BY <1>7, Scales
      <3>2. Between(Clamp(lim, Scale[N], h[N]), f[N], h[N]) /\ g[N] = h[N]
        BY <1>2, <1>8, <2>2
      <3> QED
        BY <3>1, <3>2, ClampBetween
    <2> QED
      BY <1>16, <2>1, <2>2 DEF alike
  <1> QED
    BY <1>8, <1>17 DEF r
-----------------------------------------------------------------------------
(* The values and settings that every queue holds *)

\* The settings of layer l, and of what it says of option o
Settings(x, l) ==
  /\ x.strength \in 0 .. One /\ x.reqStrength \in -1 .. One
  /\ l = N => /\ x.strength = One /\ x.threshold = OwnThreshold
              /\ x.reqStrength = -1 /\ x.reqThreshold = Empty

Says(e, l, o) ==
  /\ e.value \in ValueType(o) /\ e.strength \in 0 .. One
  /\ l = N => e.strength = One /\ e.threshold = OwnThreshold

Typed(q, o) == \A l \in DOMAIN q : Says(q[l], l, o)

\* Nobody requests anything of the default layer: it always has a say
VInv ==
  /\ BInv
  /\ \A l \in Layers : Settings(layer[l], l)
  /\ \A o \in Options : Typed(queue[o], o)

LEMMA OpinionTypes ==
  ASSUME NEW o, Kind[o] = "set", NEW set \in ValueType(o), NEW other \in ValueType(o),
         NEW h \in Hashes
  PROVE  /\ NoOpinions \in ValueType(o) /\ Merge(set, other) \in ValueType(o)
         /\ Forget(set, h) \in ValueType(o)
         /\ \A wanted : Opine(set, h, wanted) \in ValueType(o)
  <1>1. /\ set.pos \subseteq Hashes /\ set.neg \subseteq Hashes
        /\ other.pos \subseteq Hashes /\ other.neg \subseteq Hashes
    BY DEF ValueType
  <1> QED
    BY <1>1 DEF ValueType, NoOpinions, Merge, Forget, Opine

LEMMA PutTyped ==
  ASSUME NEW q, NEW o, NEW l, l # N, Fits(q, o, layer, missed), Typed(q, o),
         Settings(layer[l], l), NEW v \in ValueType(o)
  PROVE  Typed(Put(q, l, v), o)
  <1> DEFINE r == Put(q, l, v)
  <1>1. DOMAIN r = DOMAIN q \cup {l} /\ \A k \in DOMAIN q : k # l => r[k] = q[k]
    BY DEF Put
  <1>2. Says(r[l], l, o)
    <2>1. CASE l \in DOMAIN q
      <3>1. r[l] = [q[l] EXCEPT !.value = v] /\ IsEntry(q[l]) /\ Says(q[l], l, o)
        BY <2>1 DEF Put, Fits, Typed
      <3>2. r[l] = [value |-> v, strength |-> q[l].strength, threshold |-> q[l].threshold]
        BY <3>1 DEF IsEntry
      <3> HIDE DEF r
      <3> QED
        BY <3>1, <3>2 DEF Says
    <2>2. CASE l \notin DOMAIN q
      <3>1. r[l] = [value |-> v, strength |-> layer[l].strength, threshold |-> layer[l].threshold]
        BY <2>2 DEF Put, Entry
      <3> HIDE DEF r
      <3> QED
        BY <3>1 DEF Says, Settings
    <2> QED
      BY <2>1, <2>2
  <1> HIDE DEF r
  <1>3. Typed(r, o)
    BY <1>1, <1>2 DEF Typed
  <1> QED
    BY <1>3 DEF r

LEMMA WithoutTyped == ASSUME NEW q, NEW o, NEW l, Typed(q, o) PROVE Typed(Without(q, l), o)
  BY DEF Typed, Without

LEMMA ApplyTyped ==
  ASSUME NEW q, NEW o \in Options, NEW l \in Layers, l # N, Typed(q, o), NEW s \in 0 .. One, NEW t
  PROVE  Typed(Apply(q, l, o, s, t), o)
  <1> DEFINE r == Apply(q, l, o, s, t)
  <1>1. CASE o \notin Configured(l)
    BY <1>1, ApplyNothing
  <1>2. CASE o \in Configured(l)
    <2>1. /\ DOMAIN r = DOMAIN q \cup {l} /\ \A k \in DOMAIN q : k # l => r[k] = q[k]
          /\ r[l] = [value |-> Config[l][o], strength |-> s, threshold |-> t]
      BY <1>2 DEF Apply, Configured
    <2> HIDE DEF r
    <2>2. Says(r[l], l, o)
      BY <1>2, <2>1, ValuesAssumption DEF Says, Configured
    <2>3. Typed(r, o)
      BY <2>1, <2>2 DEF Typed
    <2> QED
      BY <2>3 DEF r
  <1> QED
    BY <1>1, <1>2
-----------------------------------------------------------------------------
LEMMA OneTyped ==
  ASSUME VInv, BInv', NEW o \in Options, NEW q, Typed(q, o),
         queue' = [queue EXCEPT ![o] = q], UNCHANGED layer
  PROVE  VInv'
  <1>1. \A k \in Options : queue'[k] = IF k = o THEN q ELSE queue[k]
    BY DEF VInv, BInv, IInv
  <1>2. \A k \in Options : Typed(queue'[k], k)
    BY <1>1 DEF VInv
  <1> QED
    BY <1>2 DEF VInv

LEMMA SetSomethingTyped == ASSUME VInv, BInv', NEW o \in Options, SetSomething(o) PROVE VInv'
  <1> PICK l \in Layers :
        \/ \E v \in Values[o] : SetDeferred(o, l, v) \/ SetImmediately(o, l, v)
        \/ \E h \in Hashes : (\E wanted \in BOOLEAN : SetHash(o, l, h, wanted)) \/ ClearHash(o, l, h)
    BY DEF SetSomething
  <1>1. Fits(queue[o], o, layer, missed) /\ Typed(queue[o], o) /\ Settings(layer[l], l)
    BY DEF VInv, BInv
  <1>2. ASSUME NEW v \in Values[o], SetDeferred(o, l, v) \/ SetImmediately(o, l, v) PROVE VInv'
    <2>1. l # N /\ Kind[o] # "set"
      BY <1>2 DEF SetDeferred, SetImmediately, Known
    <2>2. v \in ValueType(o)
      BY <2>1, ValuesAssumption DEF ValueType
    <2>3. Typed(Put(queue[o], l, v), o)
      BY <1>1, <2>1, <2>2, PutTyped
    <2> QED
      BY <1>2, <2>3, OneTyped DEF SetDeferred, SetImmediately
  <1>3. Kind[o] = "set" => Opinions(o, l) \in ValueType(o)
    BY <1>1 DEF Opinions, Typed, Says, ValueType, NoOpinions
  <1>4. ASSUME NEW h \in Hashes, NEW wanted, SetHash(o, l, h, wanted) PROVE VInv'
    <2>1. l # N /\ Kind[o] = "set"
      BY <1>4 DEF SetHash, Known
    <2> DEFINE v == Opine(Opinions(o, l), h, wanted)
    <2>2. v \in ValueType(o)
      BY <1>3, <2>1, OpinionTypes
    <2>3. queue' = [queue EXCEPT ![o] = Put(queue[o], l, v)] /\ UNCHANGED layer
      BY <1>4 DEF SetHash
    <2> HIDE DEF v
    <2>4. Typed(Put(queue[o], l, v), o)
      BY <1>1, <2>1, <2>2, PutTyped
    <2> QED
      BY <2>3, <2>4, OneTyped
  <1>5. ASSUME NEW h \in Hashes, ClearHash(o, l, h) PROVE VInv'
    <2>1. l # N /\ Kind[o] = "set"
      BY <1>5 DEF ClearHash, Known
    <2> DEFINE set == Forget(Opinions(o, l), h)
               q == IF set = NoOpinions THEN Without(queue[o], l) ELSE Put(queue[o], l, set)
    <2>2. set \in ValueType(o)
      BY <1>3, <2>1, OpinionTypes
    <2>3. queue' = [queue EXCEPT ![o] = q] /\ UNCHANGED layer
      BY <1>5 DEF ClearHash
    <2> HIDE DEF set
    <2>4. Typed(q, o)
      BY <1>1, <2>1, <2>2, PutTyped, WithoutTyped
    <2> HIDE DEF q
    <2> QED
      BY <2>3, <2>4, OneTyped
  <1> QED
    BY <1>2, <1>4, <1>5

LEMMA UserInterfaceTyped == ASSUME VInv, BInv', UserInterface PROVE VInv'
  <1>0. /\ \A o \in Options : Typed(queue[o], o) /\ Fits(queue[o], o, layer, missed)
        /\ \A l \in Layers : Settings(layer[l], l)
    BY DEF VInv, BInv
  <1>1. ASSUME NEW l \in Layers, Reload(l) PROVE VInv'
    <2> DEFINE kept(o) == IF o \in NoReset THEN queue[o] ELSE Without(queue[o], l)
               q(o) == Apply(kept(o), l, o, layer[l].strength, layer[l].threshold)
               b == layer[l].blendDirty /\ Configured(l) = {}
    <2>1. /\ queue' = [o \in Options |-> q(o)]
          /\ layer' = [layer EXCEPT ![l].blendDirty = b] /\ l # N
      BY <1>1 DEF Reload, Known
    <2>2. \A o \in Options : Typed(kept(o), o)
      BY <1>0, WithoutTyped
    <2>3. layer[l].strength \in 0 .. One
      BY <1>0 DEF Settings
    <2> HIDE DEF kept, b
    <2>4. \A o \in Options : Typed(q(o), o)
      BY <2>1, <2>2, <2>3, ApplyTyped
    <2> HIDE DEF q
    <2>5. \A k \in Layers :
            /\ layer'[k].strength = layer[k].strength /\ layer'[k].threshold = layer[k].threshold
            /\ layer'[k].reqStrength = layer[k].reqStrength
            /\ layer'[k].reqThreshold = layer[k].reqThreshold
      BY <2>1 DEF VInv, BInv, LayerType
    <2> QED
      BY <1>0, <2>1, <2>4, <2>5 DEF VInv, Settings
  <1>2. ASSUME NEW l \in Layers, RemoveRedundant(l) PROVE VInv'
    <2> DEFINE gone == { o \in Options : Redundant(Kind[o], limits[o], queue[o], l) }
               q(o) == IF o \in gone THEN Without(queue[o], l) ELSE queue[o]
    <2>1. queue' = [o \in Options |-> q(o)] /\ UNCHANGED layer
      BY <1>2 DEF RemoveRedundant
    <2> HIDE DEF gone
    <2>2. \A o \in Options : Typed(q(o), o)
      BY <1>0, WithoutTyped
    <2> HIDE DEF q
    <2> QED
      BY <1>0, <2>1, <2>2 DEF VInv
  <1>3. ASSUME NEW o \in Options, NEW l, ClearStronger(o, l) PROVE VInv'
    <2> DEFINE q == [k \in DOMAIN queue[o] \ { k \in DOMAIN queue[o] : k < l } |-> queue[o][k]]
    <2>1. queue' = [queue EXCEPT ![o] = q] /\ UNCHANGED layer
      BY <1>3 DEF ClearStronger
    <2>2. Typed(q, o)
      BY <1>0 DEF Typed
    <2> HIDE DEF q
    <2> QED
      BY <2>1, <2>2, OneTyped
  <1>4. ASSUME NEW o \in Options, NEW src \in Layers, NEW dst \in Layers, Move(o, src, dst) PROVE VInv'
    <2> DEFINE v == Moved(o, src, dst)
    <2>1. /\ dst # N /\ src \in DOMAIN queue[o]
          /\ queue' = [queue EXCEPT ![o] = Without(Put(queue[o], dst, v), src)] /\ UNCHANGED layer
      BY <1>4 DEF Move, Known
    <2>2. v \in ValueType(o)
      <3>1. queue[o][src].value \in ValueType(o)
        BY <1>0, <2>1 DEF Typed, Says
      <3>2. CASE Kind[o] = "set"
        <4>1. Opinions(o, dst) \in ValueType(o)
          BY <1>0, <3>2 DEF Opinions, Typed, Says, ValueType, NoOpinions
        <4>2. v = Merge(Opinions(o, dst), queue[o][src].value)
          BY <3>2 DEF Moved
        <4>3. /\ Opinions(o, dst).pos \subseteq Hashes /\ Opinions(o, dst).neg \subseteq Hashes
              /\ queue[o][src].value.pos \subseteq Hashes /\ queue[o][src].value.neg \subseteq Hashes
          BY <3>1, <3>2, <4>1 DEF ValueType
        <4> QED
          BY <3>2, <4>2, <4>3 DEF ValueType, Merge
      <3>3. CASE Kind[o] # "set"
        BY <3>1, <3>3 DEF Moved
      <3> QED
        BY <3>2, <3>3
    <2> HIDE DEF v
    <2>3. Typed(Put(queue[o], dst, v), o)
      BY <1>0, <2>1, <2>2, PutTyped
    <2>4. Typed(Without(Put(queue[o], dst, v), src), o)
      BY <2>3, WithoutTyped
    <2> QED
      BY <2>1, <2>4, OneTyped
  <1> QED
    BY <1>1, <1>2, <1>3, <1>4 DEF UserInterface
\* Layers with other references or requests, and the queues they leave
LEMMA LayerTyped ==
  ASSUME VInv, BInv', NEW l \in Layers, NEW x, Settings(x, l), layer' = [layer EXCEPT ![l] = x],
         \A o \in Options : Typed(queue'[o], o)
  PROVE  VInv'
  <1>1. \A k \in Layers : layer'[k] = IF k = l THEN x ELSE layer[k]
    BY DEF VInv, BInv
  <1> QED
    BY <1>1 DEF VInv

LEMMA NewLayerSettings ==
  ASSUME NEW l, l # N, NEW b PROVE Settings([NewLayer EXCEPT !.blendDirty = b], l)
  <1>1. One \in 0 .. One /\ -1 \in -1 .. One
    BY BlendAssumption
  <1>2. NewLayer.strength = One /\ NewLayer.reqStrength = -1
    BY DEF NewLayer
  <1>3. /\ [NewLayer EXCEPT !.blendDirty = b].strength = NewLayer.strength
        /\ [NewLayer EXCEPT !.blendDirty = b].reqStrength = NewLayer.reqStrength
    BY DEF NewLayer
  <1> QED
    BY <1>1, <1>2, <1>3 DEF Settings

LEMMA ComponentsTyped == ASSUME VInv, BInv', Components PROVE VInv'
  <1>0. /\ \A o \in Options : Typed(queue[o], o)
        /\ \A l \in Layers : Settings(layer[l], l) /\ layer[l] \in LayerType
    BY DEF VInv, BInv
  <1>1. ASSUME NEW l \in Dynamic, Acquire(l) PROVE VInv'
    <2>1. l \in Layers /\ l # N
      BY LayersAssumption
    <2>2. CASE layer[l].refs > 0
      <3> DEFINE x == [layer[l] EXCEPT !.refs = @ + 1]
      <3>1. layer' = [layer EXCEPT ![l] = x] /\ UNCHANGED queue
        BY <1>1, <2>2 DEF Acquire
      <3>2. Settings(x, l)
        BY <1>0, <2>1 DEF Settings, LayerType
      <3> HIDE DEF x
      <3> QED
        BY <1>0, <2>1, <3>1, <3>2, LayerTyped
    <2>3. CASE ~(layer[l].refs > 0)
      <3>1. PICK b \in BOOLEAN : layer' = [layer EXCEPT ![l] = [NewLayer EXCEPT !.blendDirty = b]]
        BY <1>1, <2>3 DEF Acquire
      <3>2. queue' = [o \in Options |-> Apply(queue[o], l, o, One, OwnThreshold)]
        BY <1>1, <2>3 DEF Acquire
      <3>3. One \in 0 .. One
        BY BlendAssumption
      <3>4. \A o \in Options : Typed(queue'[o], o)
        BY <1>0, <2>1, <3>2, <3>3, ApplyTyped
      <3> DEFINE x == [NewLayer EXCEPT !.blendDirty = b]
      <3>5. Settings(x, l)
        BY <2>1, NewLayerSettings
      <3> HIDE DEF x
      <3> QED
        BY <2>1, <3>1, <3>4, <3>5, LayerTyped DEF x
    <2> QED
      BY <2>2, <2>3
  <1>2. ASSUME NEW l \in Dynamic, Release(l) PROVE VInv'
    <2>1. l \in Layers /\ l # N
      BY LayersAssumption
    <2> DEFINE x == [layer[l] EXCEPT !.refs = @ - 1]
    <2>2. layer' = [layer EXCEPT ![l] = x]
      BY <1>2 DEF Release
    <2>3. Settings(x, l)
      BY <1>0, <2>1 DEF Settings, LayerType
    <2>4. UNCHANGED queue \/ queue' = [o \in Options |-> Without(queue[o], l)]
      BY <1>2 DEF Release
    <2>5. \A o \in Options : Typed(queue'[o], o)
      BY <1>0, <2>4, WithoutTyped
    <2> HIDE DEF x
    <2> QED
      BY <2>1, <2>2, <2>3, <2>5, LayerTyped
  <1>3. ASSUME NEW l \in Dynamic, NEW enabled \in BOOLEAN, NEW s \in Strengths, NEW t \in Thresholds,
               Request(l, enabled, s, t)
        PROVE  VInv'
    <2>1. l \in Layers /\ l # N
      BY LayersAssumption
    <2> DEFINE en == IF enabled THEN "on" ELSE IF layer[l].reqEnabled = "none" THEN "off"
                     ELSE layer[l].reqEnabled
               st == IF enabled /\ s > layer[l].reqStrength THEN s ELSE layer[l].reqStrength
               th == IF enabled /\ t < layer[l].reqThreshold THEN t ELSE layer[l].reqThreshold
               x == [layer[l] EXCEPT !.reqEnabled = en, !.reqStrength = st, !.reqThreshold = th]
    <2>2. layer' = [layer EXCEPT ![l] = x] /\ UNCHANGED queue
      BY <1>3, <2>1 DEF Request, VInv, BInv
    <2>3. st \in -1 .. One
      <3>1. s \in 0 .. One /\ One \in Nat /\ layer[l].reqStrength \in -1 .. One
        BY <1>0, <2>1, BlendAssumption DEF Settings
      <3> QED
        BY <3>1
    <2> HIDE DEF en, st, th
    <2>4. x.strength = layer[l].strength /\ x.reqStrength = st
      BY <1>0, <2>1 DEF LayerType
    <2> HIDE DEF x
    <2>5. Settings(x, l)
      BY <1>0, <2>1, <2>3, <2>4 DEF Settings
    <2> QED
      BY <1>0, <2>1, <2>2, <2>5, LayerTyped
  <1> QED
    BY <1>1, <1>2, <1>3 DEF Components

\* Resolving the requests of a layer keeps its settings within their bounds, and
\* leaves the default layer alone
LEMMA ResolvedSettings ==
  ASSUME NEW y \in LayerType, NEW l, Settings(y, l)
  PROVE  Settings([ResolvedRequests(y) EXCEPT !.dirty = FALSE, !.blendDirty = FALSE], l)
         /\ Settings(ResolvedRequests(y), l)
  <1> DEFINE en == IF y.reqEnabled = "none" THEN y.enabled ELSE y.reqEnabled = "on"
             st == IF y.reqStrength > -1 THEN y.reqStrength ELSE y.strength
             th == IF y.reqThreshold < Empty THEN y.reqThreshold ELSE y.threshold
             r == ResolvedRequests(y)
             z == [r EXCEPT !.dirty = FALSE, !.blendDirty = FALSE]
  <1>1. /\ r.strength = st /\ r.threshold = th /\ r.reqStrength = -1 /\ r.reqThreshold = Empty
    <2> DEFINE di == y.dirty \/ en # y.enabled
               bd == y.blendDirty \/ st # y.strength \/ th # y.threshold
    <2>1. r = [y EXCEPT !.enabled = en, !.strength = st, !.threshold = th,
                        !.dirty = di, !.blendDirty = bd,
                        !.reqEnabled = "none", !.reqStrength = -1, !.reqThreshold = Empty]
      BY Zenon DEF ResolvedRequests
    <2> HIDE DEF r, en, st, th, di, bd
    <2> QED
      BY <2>1 DEF LayerType
  <1>2. r \in LayerType
    BY RequestsResolved
  <1>3. /\ st \in 0 .. One
        /\ l = N => st = One /\ th = OwnThreshold
    <2>1. One \in Nat /\ Empty \in Int
      BY BlendAssumption DEF Empty
    <2> QED
      BY <2>1 DEF Settings
  <1> HIDE DEF r, st, th
  <1>4. -1 \in -1 .. One
    BY BlendAssumption
  <1>5. Settings(r, l)
    BY <1>1, <1>3, <1>4 DEF Settings
  <1>6. /\ z.strength = r.strength /\ z.threshold = r.threshold
        /\ z.reqStrength = r.reqStrength /\ z.reqThreshold = r.reqThreshold
    BY <1>2 DEF LayerType
  <1> HIDE DEF z
  <1>7. Settings(z, l)
    BY <1>5, <1>6 DEF Settings
  <1> QED
    BY <1>5, <1>7 DEF r, z

LEMMA ApplyLayersTyped == ASSUME VInv, BInv', ApplyLayers PROVE VInv'
  <1> DEFINE x(l) == ResolvedRequests(layer[l])
             live == { l \in Layers : layer[l].refs > 0 }
             kept(o) == { l \in DOMAIN queue[o] : l \in live => ~Removes(x(l), l, o) }
             read(o) == { l \in live : Reads(x(l), l, o) }
             entry(o, l) ==
               IF l \in read(o)
               THEN [value |-> Config[l][o], strength |-> x(l).strength, threshold |-> x(l).threshold]
               ELSE IF l \in live /\ Blends(x(l), l, o)
               THEN [queue[o][l] EXCEPT !.strength = x(l).strength, !.threshold = x(l).threshold]
               ELSE queue[o][l]
             new(l) == [x(l) EXCEPT !.dirty = FALSE, !.blendDirty = FALSE]
             q(o) == [l \in kept(o) \cup read(o) |-> entry(o, l)]
  <1>1. /\ layer' = [l \in Layers |-> IF l \in live THEN new(l) ELSE layer[l]]
        /\ queue' = [o \in Options |-> q(o)]
    BY ZenonT(60) DEF ApplyLayers
  <1>2. \A l \in Layers : Settings(x(l), l) /\ Settings(new(l), l) /\ Settings(layer[l], l)
    BY ResolvedSettings DEF VInv, BInv
  <1> HIDE DEF x, new
  <1>3. ASSUME NEW o \in Options PROVE Typed(q(o), o)
    <2>1. ASSUME NEW l \in kept(o) \cup read(o) PROVE Says(entry(o, l), l, o)
      <3>1. l \in Layers /\ (l \in DOMAIN queue[o] \/ l \in read(o))
        BY DEF VInv, BInv, Fits
      <3>2. Settings(x(l), l)
        BY <1>2, <3>1
      <3>3. CASE l \in read(o)
        <4>1. o \in DOMAIN Config[l]
          BY <3>3 DEF Reads, Configured
        <4>2. Config[l][o] \in ValueType(o)
          BY <3>1, <4>1, ValuesAssumption
        <4>3. entry(o, l) = [value |-> Config[l][o], strength |-> x(l).strength,
                             threshold |-> x(l).threshold]
          BY <3>3
        <4> HIDE DEF entry
        <4> QED
          BY <3>2, <4>2, <4>3 DEF Says, Settings
      <3>4. CASE l \notin read(o)
        <4>1. l \in DOMAIN queue[o] /\ IsEntry(queue[o][l]) /\ Says(queue[o][l], l, o)
          BY <3>1, <3>4 DEF VInv, BInv, Fits, Typed
        <4>2. CASE l \in live /\ Blends(x(l), l, o)
          <5>1. entry(o, l) = [queue[o][l] EXCEPT !.strength = x(l).strength,
                                                  !.threshold = x(l).threshold]
            BY <3>4, <4>2
          <5>2. entry(o, l) = [value |-> queue[o][l].value, strength |-> x(l).strength,
                               threshold |-> x(l).threshold]
            BY <4>1, <5>1 DEF IsEntry
          <5> HIDE DEF entry
          <5> QED
            BY <3>2, <4>1, <5>2 DEF Says, Settings
        <4>3. CASE ~(l \in live /\ Blends(x(l), l, o))
          BY <3>4, <4>1, <4>3
        <4> QED
          BY <4>2, <4>3
      <3> QED
        BY <3>3, <3>4
    <2> HIDE DEF entry, kept, read
    <2> QED
      BY <2>1 DEF Typed
  <1> HIDE DEF q
  <1> QED
    BY <1>1, <1>2, <1>3 DEF VInv

LEMMA InitTyped == Init => VInv
  <1> SUFFICES ASSUME Init PROVE VInv
    OBVIOUS
  <1>1. \A l \in Layers : Settings(layer[l], l) /\ layer[l].strength = One /\ layer[l].threshold = OwnThreshold
    <2>1. layer \in [Layers -> { [NewLayer EXCEPT !.blendDirty = b] : b \in BOOLEAN }
                               \cup {[NewLayer EXCEPT !.refs = 0]}]
      BY DEF Init
    <2>2. One \in 0 .. One /\ -1 \in -1 .. One
      BY BlendAssumption
    <2>3. /\ NewLayer.strength = One /\ NewLayer.reqStrength = -1
          /\ NewLayer.threshold = OwnThreshold /\ NewLayer.reqThreshold = Empty
      BY DEF NewLayer
    <2>4. ASSUME NEW y \in { [NewLayer EXCEPT !.blendDirty = b] : b \in BOOLEAN }
                           \cup {[NewLayer EXCEPT !.refs = 0]}
          PROVE  /\ y.strength = NewLayer.strength /\ y.reqStrength = NewLayer.reqStrength
                 /\ y.threshold = NewLayer.threshold /\ y.reqThreshold = NewLayer.reqThreshold
      BY DEF NewLayer
    <2> QED
      BY <2>1, <2>2, <2>3, <2>4 DEF Settings
  <1>2. ASSUME NEW o \in Options PROVE Typed(queue[o], o)
    <2> DEFINE D == { l \in Layers : l = N \/ (layer[l].refs > 0 /\ o \in DOMAIN Config[l]) }
               q == [l \in D |-> Entry(IF l = N THEN Default[o] ELSE Config[l][o], l)]
    <2>1. queue[o] = q
      BY DEF Init
    <2>2. ASSUME NEW l \in D PROVE Says(q[l], l, o)
      <3> DEFINE v == IF l = N THEN Default[o] ELSE Config[l][o]
      <3>1. v \in ValueType(o)
        BY ValuesAssumption
      <3>2. q[l] = Entry(v, l)
        OBVIOUS
      <3> HIDE DEF v, q
      <3>3. One \in 0 .. One
        BY BlendAssumption
      <3> QED
        BY <1>1, <3>1, <3>2, <3>3 DEF Says, Entry
    <2>3. DOMAIN q = D
      OBVIOUS
    <2> HIDE DEF q
    <2> QED
      BY <2>1, <2>2, <2>3 DEF Typed
  <1> QED
    BY <1>1, <1>2, InitFits DEF VInv

LEMMA NextTyped == VInv /\ [Next]_vars => VInv'
  <1> SUFFICES ASSUME VInv, [Next]_vars PROVE VInv'
    OBVIOUS
  <1>1. BInv'
    BY NextFits DEF VInv
  <1>2. ASSUME UNCHANGED <<layer, queue>> PROVE VInv'
    BY <1>1, <1>2 DEF VInv
  <1>3. CASE ApplyPendingValues
    BY <1>2, <1>3 DEF ApplyPendingValues, ResolvePass, Callback, PassDone, ClearDirty
  <1>4. CASE UNCHANGED vars
    BY <1>2, <1>4 DEF vars
  <1> QED
    BY <1>1, <1>3, <1>4, SetSomethingTyped, UserInterfaceTyped, ComponentsTyped, ApplyLayersTyped
       DEF Next

LEMMA AlwaysTyped == Spec => []VInv
  BY InitTyped, NextTyped, PTL DEF Spec
-----------------------------------------------------------------------------
\* What the lemmas about resolving need of a queue
LEMMA TypedQueues ==
  ASSUME NEW q, NEW o, Typed(q, o)
  PROVE  /\ "float" \in Kinds(o) => Numeric(q)
         /\ "set" \in Kinds(o) => OfSets(q)
  <1>1. "float" \in Kinds(o) => Kind[o] # "set"
    BY DEF Kinds
  <1>2. "set" \in Kinds(o) => Kind[o] = "set"
    BY DEF Kinds
  <1>3. Kind[o] # "set" => Numeric(q)
    BY DEF Typed, Says, ValueType, Numeric
  <1>4. Kind[o] = "set" => OfSets(q)
    BY DEF Typed, Says, ValueType, OfSets, SetType
  <1> QED
    BY <1>1, <1>2, <1>3, <1>4

\* A distance, and a bound on it
LEMMA AbsWithin ==
  ASSUME NEW x \in Int, NEW k \in Nat, NEW b \in Int, Within(x * k, b) PROVE Abs(x) * k <= b
  <1>1. x * k \in Int /\ (-x) * k = -(x * k)
    OBVIOUS
  <1> QED
    BY <1>1 DEF Within, Abs

\* The loop of resolveValue from the strongest layer, with its throughput, computes
\* the nested interpolation from the weakest that its comment describes, whatever
\* layers there are and however they blend, or where it cuts a throughput off,
\* misses it by no more than that part of the largest value; a hash set holds
\* exactly the hashes that the strongest active layer with an opinion adds.
THEOREM ResolutionHolds == Spec => []ResolvesAsDescribed
  <1>1. ASSUME NEW q, Numeric(q)
        PROVE  LET miss == Abs(Blended(q) - NestedLerp(q))
               IN IF CutsOff(q)
                  THEN \A l \in DOMAIN q : Largest(q, l) => miss * Cutoff <= Abs(q[l].value) * Scale[N]
                  ELSE miss = 0
    <2> DEFINE x == Blended(q) - NestedLerp(q)
    <2>1. x \in Int /\ Cutoff \in Nat /\ Scale[N] \in Int
      <3>1. 0 \in Nat /\ N \in 0 .. N
        BY LayersAssumption
      <3> QED
        BY <1>1, <3>1, BlendIsNested, BlendAssumption, Scales
    <2>2. CASE ~CutsOff(q)
      <3>1. Blended(q) = NestedLerp(q) /\ Blended(q) \in Int
        <4>1. 0 \in Nat
          OBVIOUS
        <4> QED
          BY <1>1, <2>2, <4>1, BlendIsNested
      <3> QED
        BY <2>2, <3>1 DEF Abs
    <2>3. ASSUME CutsOff(q), NEW l \in DOMAIN q, Largest(q, l)
          PROVE  Abs(x) * Cutoff <= Abs(q[l].value) * Scale[N]
      <3> DEFINE v == Abs(q[l].value)
      <3>1. v \in Nat /\ \A k \in DOMAIN q : q[k].value \in Int
        BY <1>1 DEF Numeric, Abs
      <3>2. Bounded(q, v)
        BY <2>3, <3>1 DEF Largest, Bounded, Within, Abs
      <3> HIDE DEF v
      <3>3. Within(x * Cutoff, v * Scale[N])
        BY <1>1, <2>3, <3>1, <3>2, BlendIsNested, Zenon
      <3> HIDE DEF x
      <3>4. v * Scale[N] \in Int
        BY <2>1, <3>1
      <3> QED
        BY <2>1, <3>3, <3>4, AbsWithin DEF v
    <2> QED
      BY <2>2, <2>3
  <1>2. VInv => ResolvesAsDescribed
    BY <1>1, TypedQueues, MergedIsWanted DEF VInv, ResolvesAsDescribed
  <1> QED
    BY <1>2, AlwaysTyped, PTL

\* What removeRedundantLayerValues takes for redundant makes no difference when it is
\* gone, wherever the limits are and however the layers blend: no option resolves to
\* another value without it.  Where the weaker layers resolve to something beyond the
\* limits, it takes that no stronger layer mixes what it says with theirs; and that
\* no throughput is cut off.
THEOREM RedundantIsSafe == Spec => []RedundantHasNoEffect
  <1>1. ASSUME VInv, NEW o \in Options, NEW l \in DOMAIN queue[o] \ {N}, NEW kind \in Kinds(o),
               Redundant(kind, limits[o], queue[o], l), ~Misjudged(kind, limits[o], queue[o], l)
        PROVE  Resolve(kind, limits[o], Without(queue[o], l)) = Resolve(kind, limits[o], queue[o])
    <2> DEFINE q == queue[o]
               lim == limits[o]
    <2>1. /\ l \in Layers /\ l \in DOMAIN q /\ l # N /\ N \in DOMAIN q
          /\ Typed(q, o) /\ lim \in LimitsType
      BY <1>1 DEF VInv, BInv, IInv, Fits
    <2>2. Active(q, N)
      <3>1. q[N].strength = One /\ q[N].threshold = OwnThreshold
        BY <2>1 DEF Typed, Says
      <3> QED
        BY <2>1, <3>1, BlendAssumption DEF Active
    <2>3. /\ Scaled(kind, q[l].value) = Resolve(kind, lim, Weaker(q, l))
          /\ ~Misjudged(kind, lim, q, l)
      BY <1>1 DEF Redundant
    <2> HIDE DEF q, lim
    <2>4. kind \in {"float", "plain", "set"}
      BY <1>1 DEF Kinds
    <2>5. CASE kind = "float"
      <3>1. q[l].value * Scale[N] = Clamp(lim, Scale[N], Blended(Weaker(q, l)))
        BY <2>3, <2>5 DEF Scaled, Resolve
      <3>2. Numeric(q)
        BY <2>1, <2>5, TypedQueues
      <3>3. /\ ~CutsOff(q) /\ ~CutsOff(Without(q, l)) /\ ~CutsOff(Weaker(q, l))
            /\ BlendsOver(q, l) =>
                 Clamp(lim, Scale[N], Blended(Weaker(q, l))) = Blended(Weaker(q, l))
        BY <2>3, <2>5 DEF Misjudged
      <3>4. Clamp(lim, Scale[N], Blended(Without(q, l))) = Clamp(lim, Scale[N], Blended(q))
        BY <2>1, <3>1, <3>2, <3>3, RedundantNumber
      <3> QED
        BY <2>5, <3>4 DEF Resolve, q, lim
    <2>6. CASE kind = "set"
      <3>1. q[l].value = Merged(Weaker(q, l))
        BY <2>3, <2>6 DEF Scaled, Resolve
      <3>2. OfSets(q)
        BY <2>1, <2>6, TypedQueues
      <3>3. Merged(Without(q, l)) = Merged(q)
        BY <2>1, <3>1, <3>2, RedundantSet
      <3> QED
        BY <2>6, <3>3 DEF Resolve, q
    <2>7. CASE kind = "plain"
      <3> DEFINE y == Strongest(Weaker(q, l))
      <3>1. q[l].value = Clamp(lim, 1, y)
        BY <2>3, <2>7 DEF Scaled, Resolve
      <3>2. Numeric(q)
        BY <1>1, <2>1, <2>7 DEF Kinds, Typed, Says, ValueType, Numeric
      <3>3. /\ y \in Int
            /\ \/ Strongest(Without(q, l)) = Strongest(q)
               \/ Strongest(q) = q[l].value /\ Strongest(Without(q, l)) = y
        BY <2>1, <2>2, <3>2, RedundantPlain
      <3> HIDE DEF y
      <3>4. 1 \in Nat /\ Clamp(lim, 1, y) \in Int
        BY <2>1, <3>3, ClampIsInt
      <3>5. Between(Clamp(lim, 1, y), Clamp(lim, 1, y), y)
        BY <3>3, <3>4 DEF Between
      <3>6. Clamp(lim, 1, Clamp(lim, 1, y)) = Clamp(lim, 1, y)
        BY <2>1, <3>3, <3>4, <3>5, ClampBetween
      <3>7. Clamp(lim, 1, Strongest(Without(q, l))) = Clamp(lim, 1, Strongest(q))
        BY <3>1, <3>3, <3>6
      <3> QED
        BY <2>7, <3>7 DEF Resolve, q, lim
    <2> QED
      BY <2>4, <2>5, <2>6, <2>7
  <1>2. VInv => RedundantHasNoEffect
    BY <1>1 DEF RedundantHasNoEffect
  <1> QED
    BY <1>2, AlwaysTyped, PTL
==============================================================================
