-------------------------- MODULE MCRtxOptionLayers --------------------------
(***************************************************************************)
(* Instances of RtxOptionLayers: a dynamic layer over one with a config    *)
(* file and the default layer.                                             *)
(***************************************************************************)
EXTENDS RtxOptionLayers

MCKind == [fog |-> "float", textures |-> "set"]
MCHashes == {"h"}
MCValues == [fog |-> {8}, textures |-> {}]
MCDefault == [fog |-> 8, textures |-> NoOpinions]
MCLimits == [fog |-> [min |-> 2, max |-> NoLimit], textures |-> [min |-> NoLimit, max |-> NoLimit]]
MCAdjusts == [fog |-> {}, textures |-> {[option |-> "fog", side |-> "max", at |-> 4]}]
MCConfig == << [fog |-> 0],
               [fog |-> 4, textures |-> [pos |-> {}, neg |-> {"h"}]],
               [o \in {} |-> 0] >>

\* The values that are not the ones of the config of their layer
Departing ==
  { d \in Options \X (Layers \ {N}) :
      /\ d[2] \in DOMAIN queue[d[1]]
      /\ d[1] \in Configured(d[2]) => queue[d[1]][d[2]].value # Config[d[2]][d[1]] }

\* Bound: no behaviour goes on from a state with more than one such value, or with
\* one after a limit was set or the dirt of an option was lost.
MCBound == Cardinality(Departing) <= IF lost = {} /\ limits = Limits THEN 1 ELSE 0
==============================================================================
