---------------------------- MODULE Provisioning ----------------------------
(***************************************************************************)
(* A volume from its claim to its removal, over the nodes of the cluster:  *)
(* the controller service (controllerserver.go) with the external          *)
(* provisioner and the scheduler around it.  The controller keeps no state *)
(* and creates no storage: it only names the node the volume is to be      *)
(* used on, and the node creates the logical volume when the first pod     *)
(* arrives there (nodeserver.go, see module NodeServer for its steps).     *)
(***************************************************************************)
EXTENDS Naturals, Sequences, FiniteSets

CONSTANTS
  Nodes,         \* each registers TopologyNodeKey = its ID, see NodeGetInfo
  EmptyId,       \* the empty string
  Volumes,       \* names of volumes, pvc-<uid>, never used again
  Requirements,  \* accessibility requirements the provisioner may send
  Space,         \* logical volumes the group of a node has room for
  MaxLost,       \* bound: answers of the controller that are lost
  MaxStarts      \* bound: pods scheduled per volume

\* The TopologyNodeKey segment of a topology: {} when it has none.
Topologies == {{}} \cup {{n} : n \in Nodes \cup {EmptyId}}

ASSUME RequirementsAssumption ==
  /\ \A r \in Requirements : /\ r.preferred \in Seq(Topologies)
                             /\ r.requisite \in Seq(Topologies)
  /\ EmptyId \notin Nodes
  /\ Space \in [Nodes -> Nat]
  /\ MaxLost \in Nat /\ MaxStarts \in Nat

VARIABLES
  phase,      \* API server: the persistent volume of a claim
  nodes,      \* its node affinity
  scheduled,  \* nodes where the kubelet has a pod of the volume to start
  running,    \* nodes where such a pod runs
  copies,     \* nodes where a logical volume exists
  lost, starts

vars == <<phase, nodes, scheduled, running, copies, lost, starts>>

Phases == {"claimed", "bound", "released", "deleted"}

Init ==
  /\ phase = [v \in Volumes |-> "claimed"]
  /\ nodes = [v \in Volumes |-> {}]
  /\ scheduled = [v \in Volumes |-> {}]
  /\ running = [v \in Volumes |-> {}]
  /\ copies = [v \in Volumes |-> {}]
  /\ lost = 0
  /\ starts = [v \in Volumes |-> 0]

-----------------------------------------------------------------------------
(***************************************************************************)
(* The controller.                                                         *)
(***************************************************************************)
\* The first topology of a list that has the key; {} if there is none.
FirstWithKey(topologies) ==
  LET with == {i \in DOMAIN topologies : topologies[i] # {}} IN
    UNION {topologies[i] : i \in {j \in with : \A k \in with : j <= k}}

\* Mutant of pickNodeID: the requisite topologies are not tried.
pickNodeIDPreferred(requirement) == FirstWithKey(requirement.preferred)

\* Mutant of pickNodeID: a topology is returned in place of its segment.
pickNodeIDTopology(requirement) ==
  {requirement.preferred[i] : i \in DOMAIN requirement.preferred \cap {1}}

\* A nil requirement has two empty lists.  A key with an empty value ends the
\* search like any other.
pickNodeID(requirement) ==
  IF FirstWithKey(requirement.preferred) # {}
  THEN FirstWithKey(requirement.preferred)
  ELSE FirstWithKey(requirement.requisite)

\* No ID and an empty one are the same to CreateVolume.  Without AccessibleTopology
\* the volume may be used from every node.
Accessible(requirement) ==
  IF pickNodeID(requirement) \subseteq {EmptyId} THEN Nodes ELSE pickNodeID(requirement)

\* The provisioner asks again, maybe with another requirement, when the answer
\* is lost, and writes the persistent volume from the answer that arrives.
CreateVolume(v) ==
  /\ phase[v] = "claimed"
  /\ \/ /\ \E r \in Requirements : nodes' = [nodes EXCEPT ![v] = Accessible(r)]
        /\ phase' = [phase EXCEPT ![v] = "bound"]
        /\ UNCHANGED lost
     \/ lost < MaxLost /\ lost' = lost + 1 /\ UNCHANGED <<phase, nodes>>
  /\ UNCHANGED <<scheduled, running, copies, starts>>

\* Success is reported and nothing is done.
DeleteVolume(v) ==
  /\ phase[v] = "released"
  /\ \/ phase' = [phase EXCEPT ![v] = "deleted"] /\ UNCHANGED lost
     \/ lost < MaxLost /\ lost' = lost + 1 /\ UNCHANGED phase
  /\ UNCHANGED <<nodes, scheduled, running, copies, starts>>

-----------------------------------------------------------------------------
(***************************************************************************)
(* The node service, in one step: the device is created when it is not     *)
(* there and the pod starts.                                               *)
(***************************************************************************)
\* Logical volumes in the group of a node.
Used(n) == Cardinality({v \in Volumes : n \in copies[v]})

NodePublishVolume(v, n) ==
  /\ n \in scheduled[v]
  /\ n \in copies[v] \/ Used(n) < Space[n]
  /\ running' = [running EXCEPT ![v] = @ \cup {n}]
  /\ scheduled' = [scheduled EXCEPT ![v] = @ \ {n}]
  /\ copies' = [copies EXCEPT ![v] = @ \cup {n}]
  /\ UNCHANGED <<phase, nodes, lost, starts>>

NodeUnpublishVolume(v, n) ==
  /\ n \in running[v]
  /\ running' = [running EXCEPT ![v] = @ \ {n}]
  /\ UNCHANGED <<phase, nodes, scheduled, copies, lost, starts>>

-----------------------------------------------------------------------------
(***************************************************************************)
(* The cluster (external): pods of a claim, one or several, go where the   *)
(* volume's affinity allows; the claim is deleted when none is left.       *)
(***************************************************************************)
Schedule(v, n) ==
  /\ phase[v] = "bound"
  /\ n \in nodes[v] \ (scheduled[v] \cup running[v])
  /\ starts[v] < MaxStarts
  /\ starts' = [starts EXCEPT ![v] = @ + 1]
  /\ scheduled' = [scheduled EXCEPT ![v] = @ \cup {n}]
  /\ UNCHANGED <<phase, nodes, running, copies, lost>>

DeleteClaim(v) ==
  /\ phase[v] = "bound"
  /\ scheduled[v] = {} /\ running[v] = {}
  /\ phase' = [phase EXCEPT ![v] = "released"]
  /\ UNCHANGED <<nodes, scheduled, running, copies, lost, starts>>

Next ==
  \E v \in Volumes :
    \/ CreateVolume(v) \/ DeleteVolume(v) \/ DeleteClaim(v)
    \/ \E n \in Nodes : Schedule(v, n) \/ NodePublishVolume(v, n)
                        \/ NodeUnpublishVolume(v, n)

Spec == Init /\ [][Next]_vars

-----------------------------------------------------------------------------
(***************************************************************************)
(* Properties.                                                             *)
(***************************************************************************)
\* Every variable keeps its type.
TypeOK ==
  /\ phase \in [Volumes -> Phases]
  /\ nodes \in [Volumes -> SUBSET Nodes]
  /\ scheduled \in [Volumes -> SUBSET Nodes]
  /\ running \in [Volumes -> SUBSET Nodes]
  /\ copies \in [Volumes -> SUBSET Nodes]
  /\ lost \in Nat
  /\ starts \in [Volumes -> Nat]

\* A volume has its data in one place: whatever pods come and go, and whatever
\* requirement an answer that got lost was for, no second logical volume of the
\* same name is created on another node (where its pod would find it empty).
OneCopy == \A v \in Volumes : Cardinality(copies[v]) <= 1

=============================================================================
