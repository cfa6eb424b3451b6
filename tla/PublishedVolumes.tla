-------------------------- MODULE PublishedVolumes --------------------------
(***************************************************************************)
(* What the node service promises the pods of a node, without saying how:  *)
(* a pod starts only when its volume is attached at the pod's target path, *)
(* and an attachment is taken away only once the pod has been stopped.     *)
(***************************************************************************)
CONSTANT Targets   \* target paths, one per pod and volume

VARIABLES
  attached,  \* target paths where the volume can be used
  phase      \* life of the pod behind a target path

Init ==
  /\ attached = {}
  /\ phase = [t \in Targets |-> "starting"]

Attach(t) == attached' = attached \cup {t} /\ UNCHANGED phase

Detach(t) ==
  /\ phase[t] \in {"stopping", "gone"}
  /\ attached' = attached \ {t}
  /\ UNCHANGED phase

Start(t) ==
  /\ phase[t] = "starting" /\ t \in attached
  /\ phase' = [phase EXCEPT ![t] = "running"]
  /\ UNCHANGED attached

Stop(t) ==
  /\ phase[t] \in {"starting", "running"}
  /\ phase' = [phase EXCEPT ![t] = "stopping"]
  /\ UNCHANGED attached

Leave(t) ==
  /\ phase[t] = "stopping"
  /\ phase' = [phase EXCEPT ![t] = "gone"]
  /\ UNCHANGED attached

Next == \E t \in Targets : Attach(t) \/ Detach(t) \/ Start(t) \/ Stop(t) \/ Leave(t)

Spec == Init /\ [][Next]_<<attached, phase>>

=============================================================================
