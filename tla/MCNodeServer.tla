---------------------------- MODULE MCNodeServer ----------------------------
(***************************************************************************)
(* Instances of NodeServer for TLC.  Bytes are scaled down: a GiB is 8, a  *)
(* MiB 2 and an LVM extent 4, so 12 is "1.5Gi" and 6 is "768Mi".           *)
(***************************************************************************)
EXTENDS NodeServer, TLC

CONSTANTS h1, h2, v1, v2, t1, t2

\* A pod per volume.
Separate == (t1 :> v1) @@ (t2 :> v2)

\* Two pods, one after the other or together, on one volume.
OneVolume == (t1 :> v1) @@ (t2 :> v1)

Plain == [vgName |-> "present", pvType |-> "clouddisk", lvmType |-> "linear",
          direct |-> "absent", pvVG |-> "same"]

OnlyPlain == v1 :> Plain

\* A volume striped over local disks, whose storage class misspells direct.
Striped == v1 :> [Plain EXCEPT !.lvmType = "striping", !.pvType = "localdisk",
                               !.direct = "malformed"]

\* One volume for the host, one for kata.
Mixed == (v1 :> Plain)
      @@ (v2 :> [Plain EXCEPT !.pvType = "localdisk", !.direct = "true"])

\* The second volume names no group and cannot be published.
NoGroup == (v1 :> Plain) @@ (v2 :> [Plain EXCEPT !.vgName = "unset"])

Size6      == v1 :> 6
Size8      == v1 :> 8
Sizes8     == (v1 :> 8) @@ (v2 :> 8)

Symmetry == Permutations({h1, h2})

=============================================================================
