--------------------------- MODULE ReleaseChannel ---------------------------
(***************************************************************************)
(* What users of released images see, whoever builds, crashes or recovers: *)
(* a version is published at once, as one image, in every registry and in  *)
(* the assets, and never as another; it is completed later, and a          *)
(* registry's latest is moved only to the highest version completed.       *)
(* ReleasePublish is shown to implement this module.                       *)
(***************************************************************************)
EXTENDS Naturals

CONSTANTS
  Versions,    \* numbered as they are compared
  Digests,     \* images
  Registries,
  None         \* "no version yet"

VARIABLES
  offered,     \* the images one can get as a version, wherever one asks
  completed,   \* the versions whose publication was completed
  latest       \* the version each registry calls latest

vars == <<offered, completed, latest>>

Init ==
  /\ offered = [v \in Versions |-> {}]
  /\ completed = {}
  /\ latest = [r \in Registries |-> None]

Publish(v, d) ==
  /\ offered[v] = {}
  /\ offered' = [offered EXCEPT ![v] = {d}]
  /\ UNCHANGED <<completed, latest>>

Complete(v) ==
  /\ offered[v] # {}
  /\ completed' = completed \cup {v}
  /\ UNCHANGED <<offered, latest>>

Point(r, v) ==
  /\ v \in completed
  /\ \A x \in completed : x <= v
  /\ latest' = [latest EXCEPT ![r] = v]
  /\ UNCHANGED <<offered, completed>>

Next ==
  \E v \in Versions :
    \/ Complete(v)
    \/ \E d \in Digests : Publish(v, d)
    \/ \E r \in Registries : Point(r, v)

Spec == Init /\ [][Next]_vars
=============================================================================
