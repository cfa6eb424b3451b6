------------------------------- MODULE PvInfo -------------------------------
(***************************************************************************)
(* The sizes the node service hands to LVM.  getPvInfo reads a PV's        *)
(* capacity in bytes and turns it into an integer number of GiB, or of MiB *)
(* below one GiB; LVM rounds what it is asked for up to whole extents.     *)
(***************************************************************************)
EXTENDS Integers

CONSTANTS
  Mi,      \* bytes in the unit "m"
  Gi,      \* bytes in the unit "g"
  Extent   \* bytes in an LVM extent

ASSUME UnitsAssumption ==
  Mi \in Nat \ {0} /\ Gi \in Nat \ {0} /\ Extent \in Nat \ {0}

\* The size given to "lvcreate -L" and "lvextend -L", in bytes, for a PV of
\* b bytes: the integer division drops what does not fill the unit.
LvmSize(b) == IF b \div Gi = 0 THEN (b \div Mi) * Mi ELSE (b \div Gi) * Gi

\* What LVM allocates when asked for n bytes.
RoundUp(n) == ((n + Extent - 1) \div Extent) * Extent

=============================================================================
