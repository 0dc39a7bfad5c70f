----------------------------- MODULE MCSurface ------------------------------
(* Instances of WolfenSurface: one client, one surface, one buffer, and one
   value of each request argument that is not the initial one. *)
EXTENDS WolfenSurface, FiniteSets

CONSTANTS
  c1, s1, b1, region1, callback1,
  MaxChanged  \* how many fields of the pending state differ from the initial one

Visual24 == [screen |-> 0, class |-> "TrueColor", depth |-> 24, rgb |-> "888",
             bits_per_rgb |-> 8, visualid |-> 1]
MCDisplay == [visuals |-> {Visual24}, screen |-> 0, default_visual |-> Visual24]

MCClient == {c1}
MCSurfaces == {s1}
MCBuffer == {b1}
MCOwner == [o \in {s1, b1} |-> c1]
MCBufferInfo == [b \in MCBuffer |-> [format |-> "ARGB8888", width |-> 2, height |-> 3]]
MCPosition == {[x |-> 0, y |-> 1]}
MCScale == {-1, 2}
MCTransform == {1}
MCRect == {[x |-> 1, y |-> 0, width |-> 2, height |-> 1]}
MCRegion == {region1}
MCCallback == {callback1}
None == {}

FewChanged ==
  \A s \in Surface :
    Cardinality({f \in DOMAIN InitialState \ {"prop_changed"} :
                   state_buffer[s][f] # InitialState[f]}) <= MaxChanged

=============================================================================
