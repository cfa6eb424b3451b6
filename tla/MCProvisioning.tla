--------------------------- MODULE MCProvisioning ---------------------------
(***************************************************************************)
(* Instances of Provisioning for TLC.                                      *)
(***************************************************************************)
EXTENDS Provisioning, TLC

CONSTANTS n1, n2, v1, v2

\* What a provisioner with topology support sends: the node the scheduler chose
\* as the only one, all nodes in some order, topologies of which some lack the
\* driver's key (a node where it is not registered), or no preference.
Topological ==
  {[preferred |-> <<{n1}>>, requisite |-> <<{n1}>>],
   [preferred |-> <<{n2}, {n1}>>, requisite |-> <<{n1}, {n2}>>],
   [preferred |-> <<{}>>, requisite |-> <<{}, {n2}>>],
   [preferred |-> <<>>, requisite |-> <<{n2}, {n1}>>]}

\* What it sends without topology support (the Topology feature gate off, as
\* in hack/deployment/csi-kata-controller.yaml): nothing.
Nil == {[preferred |-> <<>>, requisite |-> <<>>]}

\* Not enough for both volumes on n1.
Room1 == (n1 :> 1) @@ (n2 :> 2)

=============================================================================
