------------------------------ MODULE MCStartup ------------------------------
(***************************************************************************)
(* Instances of Startup for TLC: a host that runs the two pods of          *)
(* hack/deployment, node and controller, which set neither SERVICE_TYPE    *)
(* nor SERVICE_PORT; and a process with two driver names and no node ID.   *)
(***************************************************************************)
EXTENDS Startup, TLC

CONSTANTS node, controller, other, e1, e2, e3, host, Unset, Id, Page

Counts   == (node :> 1) @@ (controller :> 1) @@ (other :> 2)
Sockets  == (node :> e1) @@ (controller :> e2) @@ (other :> e3)
Flags    == (node :> host) @@ (controller :> host) @@ (other :> Unset)
Types    == (node :> Unset) @@ (controller :> Unset) @@ (other :> "provisioner")
NoPorts  == [p \in {node, controller, other} |-> Unset]

=============================================================================
