------------------------- MODULE ProvisioningProofs -------------------------
(***************************************************************************)
(* With a provisioner that always offers a node, a volume has one copy: in *)
(* every cluster, with every set of requirements and whatever space the    *)
(* nodes have.                                                             *)
(***************************************************************************)
EXTENDS Provisioning, FiniteSetTheorems, TLAPS

\* What pickNodeID needs: some topology of every requirement has the key, and the
\* first such one has a value.
EveryRequirementHasANode == \A r \in Requirements : ~(pickNodeID(r) \subseteq {EmptyId})

\* The affinity of a volume is empty or one node.
AtMostOne(S) == \A x, y \in S : x = y

Pinned ==
  /\ phase \in [Volumes -> Phases]
  /\ nodes \in [Volumes -> SUBSET Nodes]
  /\ scheduled \in [Volumes -> SUBSET Nodes]
  /\ copies \in [Volumes -> SUBSET Nodes]
  /\ \A v \in Volumes :
       /\ AtMostOne(nodes[v])
       /\ phase[v] = "claimed" => nodes[v] = {}
       /\ scheduled[v] \subseteq nodes[v]
       /\ copies[v] \subseteq nodes[v]

-----------------------------------------------------------------------------
\* What the scan of a list returns is one of its topologies, or nothing.
LEMMA FirstIsOne ==
  ASSUME NEW ts \in Seq(Topologies)
  PROVE  FirstWithKey(ts) \subseteq Nodes \cup {EmptyId} /\ AtMostOne(FirstWithKey(ts))
<1> DEFINE with == {i \in DOMAIN ts : ts[i] # {}}
           least == {j \in with : \A k \in with : j <= k}
<1>1. \A i \in DOMAIN ts : i \in Nat /\ ts[i] \in Topologies
  OBVIOUS
<1>2. \A i, j \in least : i = j
  BY <1>1
<1>3. \A i \in least : ts[i] \subseteq Nodes \cup {EmptyId} /\ AtMostOne(ts[i])
  BY <1>1 DEF Topologies, AtMostOne
<1> HIDE DEF least
<1>4. FirstWithKey(ts) = UNION {ts[i] : i \in least}
  BY DEF FirstWithKey, least
<1> QED
  BY <1>2, <1>3, <1>4 DEF AtMostOne

\* pickNodeID names at most one node of the cluster, or none.
LEMMA PickIsOne ==
  ASSUME NEW r \in Requirements
  PROVE  pickNodeID(r) \subseteq Nodes \cup {EmptyId} /\ AtMostOne(pickNodeID(r))
  BY RequirementsAssumption, FirstIsOne DEF pickNodeID

\* CreateVolume answers with nodes of the cluster, one if pickNodeID has named it.
LEMMA AccessibleNodes ==
  ASSUME NEW r \in Requirements
  PROVE  /\ Accessible(r) \subseteq Nodes
         /\ EveryRequirementHasANode => AtMostOne(Accessible(r))
  BY PickIsOne DEF Accessible, EveryRequirementHasANode, AtMostOne

\* Nothing is pinned, scheduled or created at first.
LEMMA PinnedInit == Init => Pinned
  BY DEF Init, Pinned, AtMostOne, Phases

\* The affinity is chosen once, before a pod is scheduled by it.
LEMMA PinnedStep ==
  ASSUME EveryRequirementHasANode, Pinned, [Next]_vars
  PROVE  Pinned'
<1>1. ASSUME NEW v \in Volumes, CreateVolume(v)
      PROVE Pinned'
  <2>1. CASE UNCHANGED nodes /\ UNCHANGED phase
    BY <1>1, <2>1 DEF CreateVolume, Pinned
  <2>2. CASE /\ \E r \in Requirements : nodes' = [nodes EXCEPT ![v] = Accessible(r)]
             /\ phase' = [phase EXCEPT ![v] = "bound"]
    <3> PICK r \in Requirements : nodes' = [nodes EXCEPT ![v] = Accessible(r)]
      BY <2>2
    <3>1. Accessible(r) \subseteq Nodes /\ AtMostOne(Accessible(r))
      BY AccessibleNodes
    <3>2. nodes[v] = {} /\ scheduled[v] = {} /\ copies[v] = {}
      BY <1>1 DEF CreateVolume, Pinned
    <3>3. phase' \in [Volumes -> Phases]
      BY <2>2 DEF Pinned, Phases
    <3>4. nodes' \in [Volumes -> SUBSET Nodes]
      BY <3>1 DEF Pinned
    <3>5. scheduled' = scheduled /\ copies' = copies
      BY <1>1 DEF CreateVolume
    <3>6. \A w \in Volumes : w # v => nodes'[w] = nodes[w]
      BY DEF Pinned
    <3>7. nodes'[v] = Accessible(r)
      BY DEF Pinned
    <3>8. ASSUME NEW w \in Volumes, phase'[w] = "claimed"
          PROVE nodes'[w] = {}
      BY <2>2, <3>2, <3>6, <3>8 DEF Pinned
    <3> QED
      BY <3>1, <3>2, <3>3, <3>4, <3>5, <3>6, <3>7, <3>8 DEF Pinned
  <2> QED
    BY <1>1, <2>1, <2>2 DEF CreateVolume
<1>2. ASSUME NEW v \in Volumes, DeleteVolume(v) \/ DeleteClaim(v)
      PROVE Pinned'
  <2>1. UNCHANGED <<nodes, scheduled, copies>>
    BY <1>2 DEF DeleteVolume, DeleteClaim
  <2>2. /\ phase' \in [Volumes -> Phases]
        /\ \A w \in Volumes : phase'[w] = "claimed" => phase[w] = "claimed"
    BY <1>2 DEF DeleteVolume, DeleteClaim, Pinned, Phases
  <2> QED
    BY <2>1, <2>2 DEF Pinned
<1>3. ASSUME NEW v \in Volumes, NEW n \in Nodes, Schedule(v, n)
      PROVE Pinned'
  BY <1>3 DEF Schedule, Pinned
<1>4. ASSUME NEW v \in Volumes, NEW n \in Nodes, NodePublishVolume(v, n)
      PROVE Pinned'
  BY <1>4 DEF NodePublishVolume, Pinned
<1>5. ASSUME NEW v \in Volumes, NEW n \in Nodes, NodeUnpublishVolume(v, n)
      PROVE Pinned'
  BY <1>5 DEF NodeUnpublishVolume, Pinned
<1>6. CASE UNCHANGED vars
  BY <1>6 DEF vars, Pinned
<1> QED
  BY <1>1, <1>2, <1>3, <1>4, <1>5, <1>6 DEF Next

\* Every variable keeps its type: CreateVolume answers with nodes of the cluster,
\* also where pickNodeID finds no key.
THEOREM TypeCorrect == Spec => []TypeOK
<1>1. Init => TypeOK
  BY DEF Init, TypeOK, Phases
<1>2. TypeOK /\ [Next]_vars => TypeOK'
  <2> SUFFICES ASSUME TypeOK, [Next]_vars PROVE TypeOK'
    OBVIOUS
  <2>1. ASSUME NEW v \in Volumes, CreateVolume(v)
        PROVE  TypeOK'
    <3>1. \A r \in Requirements : Accessible(r) \in SUBSET Nodes
      BY AccessibleNodes
    <3> QED
      BY <2>1, <3>1 DEF CreateVolume, TypeOK, Phases
  <2>2. ASSUME NEW v \in Volumes, DeleteVolume(v) \/ DeleteClaim(v)
        PROVE  TypeOK'
    BY <2>2 DEF DeleteVolume, DeleteClaim, TypeOK, Phases
  <2>3. ASSUME NEW v \in Volumes, NEW n \in Nodes,
               Schedule(v, n) \/ NodePublishVolume(v, n) \/ NodeUnpublishVolume(v, n)
        PROVE  TypeOK'
    BY <2>3 DEF Schedule, NodePublishVolume, NodeUnpublishVolume, TypeOK
  <2>4. CASE UNCHANGED vars
    BY <2>4 DEF vars, TypeOK
  <2> QED
    BY <2>1, <2>2, <2>3, <2>4 DEF Next
<1> QED
  BY <1>1, <1>2, PTL DEF Spec

-----------------------------------------------------------------------------
\* A set of at most one element has a cardinality of at most one.
LEMMA SmallSet ==
  ASSUME NEW S, AtMostOne(S)
  PROVE  Cardinality(S) <= 1
<1>1. CASE S = {}
  BY <1>1, FS_EmptySet
<1>2. CASE S # {}
  <2> PICK x : x \in S
    BY <1>2
  <2>1. S = {x}
    BY DEF AtMostOne
  <2>2. Cardinality({x}) = 1
    BY FS_Singleton, Zenon
  <2> QED
    BY <2>1, <2>2
<1> QED
  BY <1>1, <1>2

\* A volume's data is in one place (CreateVolume and pickNodeID), if every
\* requirement names a node.
THEOREM CopiesAreUnique ==
  ASSUME EveryRequirementHasANode
  PROVE  Spec => []OneCopy
<1>1. Pinned /\ [Next]_vars => Pinned'
  BY EveryRequirementHasANode, PinnedStep
<1>2. Pinned => OneCopy
  <2> SUFFICES ASSUME Pinned, NEW v \in Volumes PROVE Cardinality(copies[v]) <= 1
    BY DEF OneCopy
  <2>1. AtMostOne(copies[v])
    BY DEF Pinned, AtMostOne
  <2> QED
    BY <2>1, SmallSet
<1> QED
  BY PinnedInit, <1>1, <1>2, PTL DEF Spec

=============================================================================
