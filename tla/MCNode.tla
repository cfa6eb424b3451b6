------------------------------- MODULE MCNode -------------------------------
(***************************************************************************)
(* Instances of Node for TLC: two pods that use one volume, together or    *)
(* one after the other.                                                    *)
(***************************************************************************)
EXTENDS Node, TLC

CONSTANTS h1, h2, p1, p2, v1

Paths == {<<p1, v1>>, <<p2, v1>>}

Volume == [t \in Paths |-> t[2]]

OnlyPlain == v1 :> [vgName |-> "present", pvType |-> "clouddisk", lvmType |-> "linear",
                    direct |-> "absent", pvVG |-> "same"]

Size8 == v1 :> 8

Symmetry == Permutations({h1, h2}) \cup Permutations({p1, p2})

=============================================================================
