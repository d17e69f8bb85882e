-------------------------- MODULE RtxOptionLayers ---------------------------
(***************************************************************************)
(* The layered options of the renderer (rtx_option.h, rtx_option.cpp,      *)
(* rtx_option_layer.h, rtx_option_layer.cpp, rtx_option_manager.cpp,       *)
(* util_hash_set_layer.h).  Every option keeps the values the layers give  *)
(* it, with the blend settings each layer had when they were captured, the *)
(* limits to which resolving clamps, and a resolved value that everybody   *)
(* reads.  Whoever changes a value or a limit marks the option dirty; after*)
(* a frame applyPendingValues resolves what is dirty and calls the options'*)
(* callbacks, which may set options and limits again.                      *)
(*                                                                         *)
(* Any thread may set a value under the update mutex.  The rest runs on    *)
(* the thread that renders, between two calls of applyPendingValues, and   *)
(* the callbacks within them.  A layer is its place in the order of        *)
(* RtxOptionLayerKey: layer 1 is the strongest, layer N the default.       *)
(***************************************************************************)
EXTENDS Integers, FiniteSets

CONSTANTS
  N,             \* how many layers there are
  Dynamic,       \* the layers that components acquire and release
  MaxRefs,       \* bound: references to a dynamic layer
  Options, Kind, \* each option is a "float", a hash "set" or "plain"
  NoReset,       \* the options that have this flag
  Values,        \* of each option that is not a set: the values it may be set to
  Hashes,
  Default,       \* of each option: the value of the default layer
  NoLimit,       \* a minimum or maximum that an option does not have
  Limits,        \* of each option: the limits it is made with
  Adjusts,       \* of each option: the limits its callback may set, as [option, side, at]
  Config,        \* of each layer: the options its file sets, and their values
  One,           \* the blend strength 1.0
  Strengths, Thresholds,   \* what may be requested, on the same scale
  OwnThreshold,  \* the threshold of the layers as they are made
  Cutoff,        \* throughputs below 1 / Cutoff are taken for 0: 10000 in the code
  MaxResolves    \* maxResolves

Layers == 1 .. N

\* What an option may be set to: the opinions of a hash set, or a number on the
\* scale of the values
ValueType(o) ==
  IF Kind[o] = "set" THEN [pos : SUBSET Hashes, neg : SUBSET Hashes] ELSE Int

ASSUME LayersAssumption ==
  /\ N \in Nat \ {0} /\ Dynamic \subseteq Layers \ {N} /\ MaxRefs \in Nat
  /\ \A l \in Layers : DOMAIN Config[l] \subseteq Options
  /\ Config[N] = [o \in {} |-> 0]

ASSUME BlendAssumption ==
  /\ One \in Nat \ {0} /\ OwnThreshold \in 0 .. One /\ MaxResolves \in Nat \ {0}
  /\ Strengths \subseteq 0 .. One /\ Thresholds \subseteq 0 .. One
  /\ Cutoff \in Nat \ {0}

Limit == Int \cup {NoLimit}

ASSUME LimitsAssumption ==
  /\ NoLimit \notin Int
  /\ \A o \in Options :
       /\ Limits[o] \in [min : Limit, max : Limit]
       /\ Adjusts[o] \subseteq
            [option : { p \in Options : Kind[p] # "set" }, side : {"min", "max"}, at : Int]

ASSUME ValuesAssumption ==
  \A o \in Options :
    /\ Default[o] \in ValueType(o)
    /\ \A l \in Layers : o \in DOMAIN Config[l] => Config[l][o] \in ValueType(o)
    /\ Kind[o] # "set" => Values[o] \subseteq Int

VARIABLES
  layer,     \* of each layer: references, m_enabled, blend settings, dirty flags, requests
  queue,     \* of each option: m_optionLayerValueQueue
  limits,    \* of each option: minValue and maxValue
  resolved,  \* of each option: m_resolvedValue
  dirty,     \* the dirty option map
  apply,     \* where applyPendingValues is, its pass, the callbacks to call
  lost,      \* history: options whose dirt the end of applyPendingValues swept away
  missed     \* history: <<option, layer>> whose blend settings were not brought up to date

vars == <<layer, queue, limits, resolved, dirty, apply, lost, missed>>
-----------------------------------------------------------------------------
(* HashSetLayer *)

NoOpinions == [pos |-> {}, neg |-> {}]

\* Faulty: a negative opinion does not stop the positive one of a weaker layer
MergePositives(set, weaker) ==
  LET pos == set.pos \cup weaker.pos
  IN [pos |-> pos, neg |-> set.neg \cup (weaker.neg \ pos)]

\* mergeFrom: the opinions of a weaker layer where there is none yet
Merge(set, weaker) ==
  LET pos == set.pos \cup (weaker.pos \ set.neg)
  IN [pos |-> pos, neg |-> set.neg \cup (weaker.neg \ pos)]

\* add and remove
Opine(set, h, wanted) ==
  IF wanted THEN [pos |-> set.pos \cup {h}, neg |-> set.neg \ {h}]
  ELSE [pos |-> set.pos \ {h}, neg |-> set.neg \cup {h}]

Forget(set, h) == [pos |-> set.pos \ {h}, neg |-> set.neg \ {h}]
-----------------------------------------------------------------------------
(* resolveValue *)

Active(q, l) == l \in DOMAIN q /\ q[l].strength >= q[l].threshold

\* One^l
Scale[l \in 0 .. N] == IF l = 0 THEN 1 ELSE One * Scale[l - 1]

\* Values that blend: "left" is the throughput, and both are on the scale One^l
\* after layer l.  A layer of full strength leaves nothing to the weaker ones, and
\* a throughput that is too small is cut off.
Blend(q, l, a) ==
  LET e == q[l]
      left == a.left * (One - e.strength)
      small == left # 0 /\ left * Cutoff < Scale[l]
  IN IF l \notin DOMAIN q THEN [sum |-> a.sum * One, left |-> a.left * One, cut |-> a.cut]
     ELSE IF e.strength >= One
     THEN [sum |-> (a.sum + e.value * a.left) * One, left |-> 0, cut |-> a.cut]
     ELSE [sum |-> a.sum * One + e.value * e.strength * a.left,
           left |-> IF small THEN 0 ELSE left, cut |-> a.cut \/ small]

Blending(q) ==
  LET Acc[l \in 0 .. N] ==
        IF l = 0 THEN [sum |-> 0, left |-> 1, cut |-> FALSE] ELSE Blend(q, l, Acc[l - 1])
  IN Acc[N]

Blended(q) == Blending(q).sum

CutsOff(q) == Blending(q).cut

\* Hash sets: all active layers, from the strongest
MergeActive(q, l, set) == IF Active(q, l) THEN Merge(set, q[l].value) ELSE set

Merged(q) ==
  LET Acc[l \in 0 .. N] == IF l = 0 THEN NoOpinions ELSE MergeActive(q, l, Acc[l - 1])
  IN Acc[N]

\* Other values: the strongest active layer
Strongest(q) ==
  q[CHOOSE l \in Layers : Active(q, l) /\ \A k \in Layers : Active(q, k) => l <= k].value

\* clampValue, of a value on a scale: the minimum first, then the maximum
AtLeast(lim, scale, v) ==
  IF lim.min # NoLimit /\ v < lim.min * scale THEN lim.min * scale ELSE v

AtMost(lim, scale, v) ==
  IF lim.max # NoLimit /\ v > lim.max * scale THEN lim.max * scale ELSE v

Clamp(lim, scale, v) == AtMost(lim, scale, AtLeast(lim, scale, v))

Resolve(kind, lim, q) ==
  CASE kind = "float" -> Clamp(lim, Scale[N], Blended(q))
    [] kind = "set" -> Merged(q)
    [] OTHER -> Clamp(lim, 1, Strongest(q))

\* Faulty: the layer itself is not left out
WeakerOrSame(q, l) == [k \in { k \in DOMAIN q : k >= l } |-> q[k]]

Weaker(q, l) == [k \in { k \in DOMAIN q : k > l } |-> q[k]]

Without(q, l) == [k \in DOMAIN q \ {l} |-> q[k]]

\* A value on the scale of the resolved values
Scaled(kind, v) == IF kind = "float" THEN v * Scale[N] ELSE v

\* isLayerValueRedundant: the weaker layers resolve, within the limits, to the value
\* of the layer, which nobody clamps
Redundant(kind, lim, q, l) ==
  l \in DOMAIN q /\ Scaled(kind, q[l].value) = Resolve(kind, lim, Weaker(q, l))
-----------------------------------------------------------------------------
Entry(v, l) == [value |-> v, strength |-> layer[l].strength, threshold |-> layer[l].threshold]

\* kRtxOptionLayerEmptyBlendThresholdRequest; the empty request of a strength is -1
Empty == 2 * One

NewLayer == [refs |-> 1, enabled |-> TRUE, strength |-> One, threshold |-> OwnThreshold,
             dirty |-> FALSE, blendDirty |-> FALSE,
             reqEnabled |-> "none", reqStrength |-> -1, reqThreshold |-> Empty]

\* What initializeSystemLayers and the first resolve leave.  The constructor does
\* not initialize m_blendStrengthDirty: only reading a config clears it.
Init ==
  /\ layer \in [Layers -> { [NewLayer EXCEPT !.blendDirty = b] : b \in BOOLEAN }
                          \cup {[NewLayer EXCEPT !.refs = 0]}]
  /\ \A l \in Layers : (layer[l].refs = 0) <=> (l \in Dynamic)
  /\ \A l \in Layers : layer[l].blendDirty => DOMAIN Config[l] = {}
  /\ queue = [o \in Options |->
       [l \in { l \in Layers : l = N \/ (layer[l].refs > 0 /\ o \in DOMAIN Config[l]) } |->
          Entry(IF l = N THEN Default[o] ELSE Config[l][o], l)]]
  /\ limits = [o \in Options |-> Limits[o]]
  /\ resolved = [o \in Options |-> Resolve(Kind[o], limits[o], queue[o])]
  /\ dirty = {} /\ lost = {} /\ missed = {}
  /\ apply = [pc |-> "idle", pass |-> 0, calls |-> {}]
-----------------------------------------------------------------------------
(* Setting values, on any thread, under the update mutex *)

Known(l) == l \in Layers \ {N} /\ layer[l].refs > 0

\* getOrCreateGenericValue, and the value written
Put(q, l, v) ==
  [k \in DOMAIN q \cup {l} |->
     IF k # l THEN q[k] ELSE IF l \in DOMAIN q THEN [q[l] EXCEPT !.value = v] ELSE Entry(v, l)]

\* Faulty: the option is not marked dirty
SetUnmarked(o, l, v) ==
  /\ Known(l) /\ Kind[o] # "set"
  /\ queue' = [queue EXCEPT ![o] = Put(@, l, v)]
  /\ UNCHANGED <<layer, limits, resolved, dirty, apply, lost, missed>>

SetDeferred(o, l, v) ==
  /\ Known(l) /\ Kind[o] # "set"
  /\ queue' = [queue EXCEPT ![o] = Put(@, l, v)]
  /\ dirty' = dirty \cup {o}
  /\ UNCHANGED <<layer, limits, resolved, apply, lost, missed>>

SetImmediately(o, l, v) ==
  /\ Known(l) /\ Kind[o] # "set"
  /\ queue' = [queue EXCEPT ![o] = Put(@, l, v)]
  /\ resolved' = [resolved EXCEPT ![o] = Resolve(Kind[o], limits[o], queue'[o])]
  /\ dirty' = dirty \cup {o}
  /\ UNCHANGED <<layer, limits, apply, lost, missed>>

Opinions(o, l) == IF l \in DOMAIN queue[o] THEN queue[o][l].value ELSE NoOpinions

\* addHash and removeHash
SetHash(o, l, h, wanted) ==
  /\ Known(l) /\ Kind[o] = "set"
  /\ queue' = [queue EXCEPT ![o] = Put(@, l, Opine(Opinions(o, l), h, wanted))]
  /\ dirty' = dirty \cup {o}
  /\ UNCHANGED <<layer, limits, resolved, apply, lost, missed>>

\* clearHash: a set without opinions leaves the layer
ClearHash(o, l, h) ==
  LET set == Forget(Opinions(o, l), h)
  IN /\ Known(l) /\ Kind[o] = "set"
     /\ queue' = [queue EXCEPT ![o] = IF set = NoOpinions THEN Without(@, l) ELSE Put(@, l, set)]
     /\ dirty' = dirty \cup {o}
     /\ UNCHANGED <<layer, limits, resolved, apply, lost, missed>>

SetSomething(o) ==
  \E l \in Layers :
    \/ \E v \in Values[o] : SetDeferred(o, l, v) \/ SetImmediately(o, l, v)
    \/ \E h \in Hashes : (\E wanted \in BOOLEAN : SetHash(o, l, h, wanted)) \/ ClearHash(o, l, h)
-----------------------------------------------------------------------------
(* The thread that renders: layers and the user interface, during a frame *)

Idle == apply.pc = "idle"

\* updateRange of a component that controls the layer: requestEnabled, and for an
\* enabled layer requestBlendStrength and requestBlendThreshold
Request(l, enabled, strength, threshold) ==
  /\ Idle /\ l \in Dynamic /\ layer[l].refs > 0
  /\ layer' = [layer EXCEPT
       ![l].reqEnabled = IF enabled THEN "on" ELSE IF @ = "none" THEN "off" ELSE @,
       ![l].reqStrength = IF enabled /\ strength > @ THEN strength ELSE @,
       ![l].reqThreshold = IF enabled /\ threshold < @ THEN threshold ELSE @]
  /\ UNCHANGED <<queue, limits, resolved, dirty, apply, lost, missed>>

\* readOptionLayer with the blend settings of the layer
Apply(q, l, o, s, t) ==
  IF o \notin DOMAIN Config[l] THEN q
  ELSE [k \in DOMAIN q \cup {l} |->
          IF k = l THEN [value |-> Config[l][o], strength |-> s, threshold |-> t] ELSE q[k]]

Configured(l) == DOMAIN Config[l]

\* acquireLayer: the first reference makes the layer and applies its config
Acquire(l) ==
  /\ Idle /\ l \in Dynamic /\ layer[l].refs < MaxRefs
  /\ IF layer[l].refs > 0
     THEN /\ layer' = [layer EXCEPT ![l].refs = @ + 1]
          /\ UNCHANGED <<queue, dirty, missed>>
     ELSE /\ \E b \in IF Configured(l) = {} THEN BOOLEAN ELSE {FALSE} :
               layer' = [layer EXCEPT ![l] = [NewLayer EXCEPT !.blendDirty = b]]
          /\ queue' = [o \in Options |-> Apply(queue[o], l, o, One, OwnThreshold)]
          /\ dirty' = dirty \cup Configured(l)
          /\ missed' = { m \in missed : m[2] # l }
  /\ UNCHANGED <<limits, resolved, apply, lost>>

Holding(l) == { o \in Options : l \in DOMAIN queue[o] }

\* releaseLayer: with the last reference the layer goes, and its values, NoReset or not
Release(l) ==
  /\ Idle /\ l \in Dynamic /\ layer[l].refs > 0
  /\ layer' = [layer EXCEPT ![l].refs = @ - 1]
  /\ IF layer[l].refs > 1 THEN UNCHANGED <<queue, dirty, missed>>
     ELSE /\ queue' = [o \in Options |-> Without(queue[o], l)]
          /\ dirty' = dirty \cup Holding(l)
          /\ missed' = { m \in missed : m[2] # l }
  /\ UNCHANGED <<limits, resolved, apply, lost>>

\* reload: remove what may be reset, and read the file again
Reload(l) ==
  /\ Idle /\ Known(l) /\ l \notin Dynamic
  /\ queue' = [o \in Options |->
       Apply(IF o \in NoReset THEN queue[o] ELSE Without(queue[o], l),
             l, o, layer[l].strength, layer[l].threshold)]
  /\ dirty' = dirty \cup (Holding(l) \ NoReset) \cup Configured(l)
  /\ layer' = [layer EXCEPT ![l].blendDirty = @ /\ Configured(l) = {}]
  /\ UNCHANGED <<limits, resolved, apply, lost, missed>>

\* clearFromStrongerLayers
ClearStronger(o, l) ==
  LET stronger == { k \in DOMAIN queue[o] : k < l }
  IN /\ Idle /\ l \in Layers /\ stronger # {}
     /\ queue' = [queue EXCEPT ![o] = [k \in DOMAIN @ \ stronger |-> @[k]]]
     /\ dirty' = dirty \cup {o}
     /\ UNCHANGED <<layer, limits, resolved, apply, lost, missed>>

Moved(o, src, dst) ==
  IF Kind[o] = "set" THEN Merge(Opinions(o, dst), queue[o][src].value) ELSE queue[o][src].value

\* moveLayerValue
Move(o, src, dst) ==
  /\ Idle /\ Known(src) /\ Known(dst) /\ src # dst /\ src \in DOMAIN queue[o]
  /\ queue' = [queue EXCEPT ![o] = Without(Put(@, dst, Moved(o, src, dst)), src)]
  /\ dirty' = dirty \cup {o}
  /\ UNCHANGED <<layer, limits, resolved, apply, lost, missed>>

\* removeRedundantLayerValues
RemoveRedundant(l) ==
  LET gone == { o \in Options : Redundant(Kind[o], limits[o], queue[o], l) }
  IN /\ Idle /\ Known(l) /\ gone # {}
     /\ queue' = [o \in Options |-> IF o \in gone THEN Without(queue[o], l) ELSE queue[o]]
     /\ dirty' = dirty \cup gone
     /\ UNCHANGED <<layer, limits, resolved, apply, lost, missed>>
-----------------------------------------------------------------------------
(* applyPendingValues *)

\* resolvePendingRequests
ResolvedRequests(x) ==
  LET enabled == IF x.reqEnabled = "none" THEN x.enabled ELSE x.reqEnabled = "on"
      strength == IF x.reqStrength > -1 THEN x.reqStrength ELSE x.strength
      threshold == IF x.reqThreshold < Empty THEN x.reqThreshold ELSE x.threshold
  IN [x EXCEPT !.enabled = enabled, !.strength = strength, !.threshold = threshold,
               !.dirty = @ \/ enabled # x.enabled,
               !.blendDirty = @ \/ strength # x.strength \/ threshold # x.threshold,
               !.reqEnabled = "none", !.reqStrength = -1, !.reqThreshold = Empty]

\* applyPendingChanges of layer l, whose requests are resolved to x, for option o
Reads(x, l, o) == x.dirty /\ x.enabled /\ o \in Configured(l)

Removes(x, l, o) == x.dirty /\ ~x.enabled /\ o \notin NoReset /\ l \in DOMAIN queue[o]

\* applyToAllOptions clears m_blendStrengthDirty, unless the layer has no config
Reblends(x, l) == x.blendDirty /\ ~(x.dirty /\ x.enabled /\ Configured(l) # {})

Differs(e, x) == e.strength # x.strength \/ e.threshold # x.threshold

\* Faulty: only values from the config get the new blend settings
BlendsConfigured(x, l, o) ==
  /\ Reblends(x, l) /\ l \in DOMAIN queue[o] /\ ~Removes(x, l, o) /\ o \in Configured(l)
  /\ Differs(queue[o][l], x)

\* updateLayerBlendStrength, for values from the config and values set at run time
Blends(x, l, o) ==
  /\ Reblends(x, l) /\ l \in DOMAIN queue[o] /\ ~Removes(x, l, o)
  /\ Differs(queue[o][l], x)

\* The first part, under the update mutex: every layer is processed
ApplyLayers ==
  LET x(l) == ResolvedRequests(layer[l])
      live == { l \in Layers : layer[l].refs > 0 }
      kept(o) == { l \in DOMAIN queue[o] : l \in live => ~Removes(x(l), l, o) }
      read(o) == { l \in live : Reads(x(l), l, o) }
      entry(o, l) ==
        IF l \in read(o)
        THEN [value |-> Config[l][o], strength |-> x(l).strength, threshold |-> x(l).threshold]
        ELSE IF l \in live /\ Blends(x(l), l, o)
        THEN [queue[o][l] EXCEPT !.strength = x(l).strength, !.threshold = x(l).threshold]
        ELSE queue[o][l]
      overlooked(l) == { o \in Holding(l) : ~Reads(x(l), l, o) /\ Differs(queue[o][l], x(l)) }
  IN /\ Idle
     /\ layer' = [l \in Layers |->
          IF l \in live THEN [x(l) EXCEPT !.dirty = FALSE, !.blendDirty = FALSE] ELSE layer[l]]
     /\ queue' = [o \in Options |-> [l \in kept(o) \cup read(o) |-> entry(o, l)]]
     /\ dirty' = dirty \cup { o \in Options : \E l \in live :
                   Reads(x(l), l, o) \/ Removes(x(l), l, o) \/ Blends(x(l), l, o) }
     /\ missed' = { m \in missed : m[2] \in live => ~Reblends(x(m[2]), m[2]) }
                  \cup UNION { { <<o, l>> : o \in overlooked(l) } :
                               l \in { k \in live : x(k).dirty /\ x(k).enabled /\ x(k).blendDirty
                                                    /\ ~Reblends(x(k), k) } }
     /\ apply' = [pc |-> "resolve", pass |-> 0, calls |-> {}]
     /\ UNCHANGED <<limits, resolved, lost>>

\* One pass, under the mutex: resolve, remember who changed, forget the dirt
ResolvePass ==
  LET value(o) == Resolve(Kind[o], limits[o], queue[o])
  IN /\ apply.pc = "resolve"
     /\ resolved' = [o \in Options |-> IF o \in dirty THEN value(o) ELSE resolved[o]]
     /\ apply' = [apply EXCEPT !.pc = "call", !.pass = @ + 1,
                               !.calls = { o \in dirty : value(o) # resolved[o] }]
     /\ lost' = lost \ dirty
     /\ dirty' = {}
     /\ UNCHANGED <<layer, queue, limits, missed>>

\* setMinValue and setMaxValue, under the mutex.  The limits hold for what resolving
\* makes of the layers, not for what a layer says.
SetLimit(new) ==
  /\ limits' = [limits EXCEPT ![new.option][new.side] = new.at]
  /\ dirty' = IF new.at = limits[new.option][new.side] THEN dirty ELSE dirty \cup {new.option}

\* Without the mutex: the callbacks, each of which may set options, and the limit of
\* another option after its own value
Callback(o) ==
  /\ apply.pc = "call" /\ o \in apply.calls
  /\ apply' = [apply EXCEPT !.calls = @ \ {o}]
  /\ UNCHANGED <<limits, dirty>> \/ \E new \in Adjusts[o] : SetLimit(new)
  /\ UNCHANGED <<layer, queue, resolved, lost, missed>>

\* Still without it: is anything dirty again, and may there be another pass?
PassDone ==
  /\ apply.pc = "call" /\ apply.calls = {}
  /\ apply' = [apply EXCEPT !.pc = IF dirty = {} \/ apply.pass >= MaxResolves THEN "clear" ELSE "resolve"]
  /\ UNCHANGED <<layer, queue, limits, resolved, dirty, lost, missed>>

\* "Don't let dirty options persist across frames", without the mutex
ClearDirty ==
  /\ apply.pc = "clear"
  /\ apply' = [pc |-> "idle", pass |-> 0, calls |-> {}]
  /\ lost' = lost \cup dirty
  /\ dirty' = {}
  /\ UNCHANGED <<layer, queue, limits, resolved, missed>>
-----------------------------------------------------------------------------
UserInterface ==
  \/ \E l \in Layers : Reload(l) \/ RemoveRedundant(l)
  \/ \E o \in Options, l \in Layers : ClearStronger(o, l)
  \/ \E o \in Options, src, dst \in Layers : Move(o, src, dst)

Components ==
  \E l \in Dynamic :
    \/ Acquire(l) \/ Release(l)
    \/ \E enabled \in BOOLEAN, s \in Strengths, t \in Thresholds : Request(l, enabled, s, t)

ApplyPendingValues ==
  ResolvePass \/ (\E o \in Options : Callback(o)) \/ PassDone \/ ClearDirty

Next ==
  \/ \E o \in Options : SetSomething(o)
  \/ UserInterface
  \/ Components
  \/ ApplyLayers \/ ApplyPendingValues

Spec == Init /\ [][Next]_vars

-----------------------------------------------------------------------------
(* Properties *)

\* The type invariant
TypeOK ==
  /\ DOMAIN queue = Options /\ DOMAIN resolved = Options
  /\ dirty \subseteq Options /\ lost \subseteq Options
  /\ \A o \in Options : N \in DOMAIN queue[o] /\ DOMAIN queue[o] \subseteq Layers

\* Whoever changes what a layer says of an option, how the layer blends, or a limit
\* of the option, marks the option dirty: an option that is not dirty has the value
\* its layers resolve to within its limits, unless the end of applyPendingValues
\* swept its dirt away.
ResolvedIsCurrent ==
  \A o \in Options \ (dirty \cup lost) : resolved[o] = Resolve(Kind[o], limits[o], queue[o])

\* v = lerp(lerp(...), ...) from the weakest layer: From[n] is of the n weakest, on
\* the scale One^n
Lerp(q, l, weaker) ==
  IF l \in DOMAIN q
  THEN q[l].value * q[l].strength * Scale[N - l] + (One - q[l].strength) * weaker
  ELSE One * weaker

NestedLerp(q) ==
  LET From[n \in 0 .. N] == IF n = 0 THEN 0 ELSE Lerp(q, N + 1 - n, From[n - 1])
  IN From[N]

\* The opinion on a hash of the strongest active layer that has one
Wanted(q, h) ==
  \E l \in Layers :
    /\ Active(q, l) /\ h \in q[l].value.pos
    /\ \A k \in 1 .. l - 1 : Active(q, k) => h \notin q[k].value.pos \cup q[k].value.neg

\* What is kept of an option does not depend on whether its values blend
Kinds(o) == IF Kind[o] = "set" THEN {"set"} ELSE {"float", "plain"}

Abs(v) == IF v < 0 THEN -v ELSE v

\* The layer says the largest value, or the smallest if that is the larger one
Largest(q, l) == \A k \in DOMAIN q : Abs(q[k].value) <= Abs(q[l].value)

\* The loop from the strongest layer with its throughput computes the nested
\* interpolation that its comment describes, or where it cuts the throughput off,
\* misses it by no more than that part of the largest value; a hash set holds a hash
\* if the strongest active layer with an opinion adds it.
ResolvesAsDescribed ==
  \A o \in Options :
    /\ "float" \in Kinds(o) =>
         LET q == queue[o]
             miss == Abs(Blended(q) - NestedLerp(q))
         IN IF CutsOff(q)
            THEN \A l \in DOMAIN q : Largest(q, l) => miss * Cutoff <= Abs(q[l].value) * Scale[N]
            ELSE miss = 0
    /\ "set" \in Kinds(o) => Merged(queue[o]).pos = { h \in Hashes : Wanted(queue[o], h) }

\* Some stronger layer mixes what it says with what the weaker ones resolve to
BlendsOver(q, l) == \E k \in DOMAIN q : k < l /\ q[k].strength \in 1 .. One - 1

\* The comparison says nothing of a value that blends: the weaker layers resolve to
\* something beyond the limits, which the stronger ones would blend with before it
\* is clamped, or the loop cuts the throughput off.
Misjudged(kind, lim, q, l) ==
  /\ kind = "float"
  /\ \/ BlendsOver(q, l) /\ Clamp(lim, Scale[N], Blended(Weaker(q, l))) # Blended(Weaker(q, l))
     \/ \E r \in {q, Without(q, l), Weaker(q, l)} : CutsOff(r)

\* Removing the values of a layer that removeRedundantLayerValues takes for redundant
\* changes no option, whatever the stronger layers say, however the layers blend and
\* wherever the limits are.  The exceptions are of options that blend: what the
\* comparison with the clamped value of the weaker layers misjudges.
RedundantHasNoEffect ==
  \A o \in Options : \A l \in DOMAIN queue[o] \ {N}, kind \in Kinds(o) :
    Redundant(kind, limits[o], queue[o], l) /\ ~Misjudged(kind, limits[o], queue[o], l) =>
      Resolve(kind, limits[o], Without(queue[o], l)) = Resolve(kind, limits[o], queue[o])

\* After the layers were processed, every value has the blend settings its layer
\* has, also the ones set at run time.  The exception: a layer that is enabled and
\* gets new settings in the same frame brings up to date what is in its config.
BlendIsCaptured ==
  \A o \in Options : \A l \in DOMAIN queue[o] :
    ~Differs(queue[o][l], layer[l]) \/ <<o, l>> \in missed
=============================================================================
