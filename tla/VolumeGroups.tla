---------------------------- MODULE VolumeGroups ----------------------------
(***************************************************************************)
(* The driver's library over the LVM commands (pkg/csi/lvm/vg.go), on one  *)
(* node.  Goroutines of the driver call it side by side.  Every command is *)
(* atomic, since LVM locks its metadata, but an operation that runs two or *)
(* more (CreateVolumeGroup, LookupLogicalVolume of a snapshot) can be      *)
(* interrupted in between, and what the library returns is a handle by     *)
(* name, which stays as it is whatever happens to the thing it names.  An  *)
(* operation that fails at once changes nothing and is left out.           *)
(***************************************************************************)
EXTENDS Naturals, FiniteSets

CONSTANTS
  Clients,     \* goroutines
  Devices,     \* block devices
  Groups,      \* names of volume groups
  Names,       \* names of logical volumes
  Sizes,       \* sizes in bytes that are asked for; 0 is MaxSize
  Extent,      \* bytes in an extent
  DevExtents,  \* extents on a device
  MaxFaults,   \* bound: commands that fail
  MaxIds       \* bound: logical volumes and groups created

\* Labels of a device that is in no group.
Unlabelled == "unlabelled"
Orphan     == "orphan"

ASSUME LvmAssumption ==
  /\ Unlabelled \notin Groups /\ Orphan \notin Groups
  /\ Extent \in Nat \ {0} /\ DevExtents \in Nat
  /\ Sizes \subseteq Nat
  /\ MaxFaults \in Nat /\ MaxIds \in Nat

VARIABLES
  label,    \* device -> its LVM label: none, one without a group, or a group
  lvs,      \* logical volumes, each with an id of its own
  known,    \* groups in lvmetad's cache, which all commands read
  client,   \* what each goroutine is doing, and the handles it has
  crashed,  \* a panic has ended the process
  faults, ids

vars == <<label, lvs, known, client, crashed, faults, ids>>

\* origin is {} or the name of the volume a snapshot was taken of.
Volumes == [vg : Groups, name : Names, bytes : Nat, origin : SUBSET Names, id : Nat]

\* A *LogicalVolume; the id is not in the code, it tells volumes apart that had
\* the same name one after the other.
Handles == [vg : Groups, name : Names, size : Nat, id : Nat]

\* pvs and vgs are the *PhysicalVolume and *VolumeGroup handles, by name; group,
\* name and lv hold at most one element.
States == [pc    : {"idle", "pvscan", "vgscan", "usage", "lvcreate"},
           pvs   : SUBSET Devices,
           vgs   : SUBSET Groups,
           lv    : SUBSET Handles,
           group : SUBSET Groups,
           name  : SUBSET Names,
           size  : Nat]

Fresh == [pc |-> "idle", pvs |-> {}, vgs |-> {}, lv |-> {}, group |-> {}, name |-> {},
          size |-> 0]

Init ==
  /\ label = [d \in Devices |-> Unlabelled]
  /\ lvs = {}
  /\ known = {}
  /\ client = [c \in Clients |-> Fresh]
  /\ crashed = FALSE
  /\ faults = 0 /\ ids = 0

-----------------------------------------------------------------------------
(***************************************************************************)
(* What LVM reports.                                                       *)
(***************************************************************************)
GroupsOnDisk == {g \in Groups : \E d \in Devices : label[d] = g}

\* IsPhysicalVolumeNotFound: pvs finds no such device, or no label on it.
IsPhysicalVolumeNotFound(d) == label[d] = Unlabelled

\* IsVolumeGroupNotFound: the commands believe lvmetad.
IsVolumeGroupNotFound(g) == g \notin known

ListPhysicalVolumes == {d \in Devices : ~IsPhysicalVolumeNotFound(d)}

ListPhysicalVolumeNames(g) == {d \in Devices : label[d] = g}

In(g) == {v \in lvs : v.vg = g}

ListLogicalVolumeNames(g) == {v.name : v \in In(g)}

RoundUp(bytes) == ((bytes + Extent - 1) \div Extent) * Extent

ExtentCount(g) == DevExtents * Cardinality(ListPhysicalVolumeNames(g))

\* Volumes are whole extents: a volume has the extents its size covers.
ExtentFreeCount(g) ==
  ExtentCount(g) - Cardinality({ve \in In(g) \X (1..ExtentCount(g)) :
                                  ve[2] * Extent <= ve[1].bytes})

BytesFree(g) == ExtentFreeCount(g) * Extent

-----------------------------------------------------------------------------
Running(c, p) == ~crashed /\ client[c].pc = p

\* A command fails for a reason of its own; warnings it prints do not count.
Fault == faults < MaxFaults /\ faults' = faults + 1

\* The operation at hand ends, with this handle of a logical volume.
Return(c, handle) ==
  client' = [client EXCEPT ![c] = [@ EXCEPT !.pc = "idle", !.group = {}, !.name = {},
                                            !.size = 0, !.lv = handle]]

(***************************************************************************)
(* Physical volumes.                                                       *)
(***************************************************************************)
\* pvcreate refuses a device that is part of a group.
CreatePhysicalVolume(c, d) ==
  /\ Running(c, "idle")
  /\ label[d] \notin Groups
  /\ label' = [label EXCEPT ![d] = Orphan]
  /\ client' = [client EXCEPT ![c].pvs = @ \cup {d}]
  /\ UNCHANGED <<lvs, known, crashed, faults, ids>>

LookupPhysicalVolume(c, d) ==
  /\ Running(c, "idle")
  /\ d \in ListPhysicalVolumes
  /\ client' = [client EXCEPT ![c].pvs = @ \cup {d}]
  /\ UNCHANGED <<label, lvs, known, crashed, faults, ids>>

\* pvremove wants a label and no group.
PhysicalVolumeRemove(c, d) ==
  /\ Running(c, "idle")
  /\ d \in client[c].pvs
  /\ label[d] = Orphan
  /\ label' = [label EXCEPT ![d] = Unlabelled]
  /\ UNCHANGED <<lvs, known, client, crashed, faults, ids>>

-----------------------------------------------------------------------------
(***************************************************************************)
(* Volume groups.                                                          *)
(***************************************************************************)
\* vgcreate of devices without a group; lvmetad may fail to pick it up.
VgCreate(c, g, ds) ==
  /\ Running(c, "idle")
  /\ ids < MaxIds
  /\ g \notin GroupsOnDisk
  /\ ds # {} /\ \A d \in ds : label[d] \notin Groups
  /\ label' = [d \in Devices |-> IF d \in ds THEN g ELSE label[d]]
  /\ known' \in {known, known \cup {g}}
  /\ ids' = ids + 1
  /\ UNCHANGED <<lvs, crashed, faults>>

\* Mutant of CreateVolumeGroup: no scan follows.
CreateVolumeGroupNoScan(c, g) ==
  /\ \E ds \in SUBSET client[c].pvs : VgCreate(c, g, ds)
  /\ client' = [client EXCEPT ![c].vgs = @ \cup {g}]

CreateVolumeGroup(c, g) ==
  /\ \E ds \in SUBSET client[c].pvs : VgCreate(c, g, ds)
  /\ client' = [client EXCEPT ![c].pc = "pvscan", ![c].group = {g},
                              ![c].vgs = @ \cup {g}]

\* pvscan --cache, then vgscan --cache; their errors are logged and ignored.
Scan(c) ==
  /\ Running(c, "pvscan") \/ Running(c, "vgscan")
  /\ \/ known' = GroupsOnDisk /\ UNCHANGED faults
     \/ Fault /\ UNCHANGED known
  /\ IF client[c].pc = "pvscan"
     THEN client' = [client EXCEPT ![c].pc = "vgscan"]
     ELSE Return(c, client[c].lv)
  /\ UNCHANGED <<label, lvs, crashed, ids>>

LookupVolumeGroup(c, g) ==
  /\ Running(c, "idle")
  /\ ~IsVolumeGroupNotFound(g)
  /\ client' = [client EXCEPT ![c].vgs = @ \cup {g}]
  /\ UNCHANGED <<label, lvs, known, crashed, faults, ids>>

\* vgremove -f takes the logical volumes with it.
VolumeGroupRemove(c, g) ==
  /\ Running(c, "idle")
  /\ g \in client[c].vgs \cap known
  /\ label' = [d \in Devices |-> IF label[d] = g THEN Orphan ELSE label[d]]
  /\ lvs' = lvs \ In(g)
  /\ known' = known \ {g}
  /\ UNCHANGED <<client, crashed, faults, ids>>

-----------------------------------------------------------------------------
(***************************************************************************)
(* Logical volumes.                                                        *)
(***************************************************************************)
\* The call, with a name and tags that are valid; others are turned down.
CreateLogicalVolume(c, g, n) ==
  /\ Running(c, "idle")
  /\ ids < MaxIds
  /\ g \in client[c].vgs
  /\ \E s \in Sizes :
       client' = [client EXCEPT ![c].pc = "lvcreate", ![c].group = {g},
                                ![c].name = {n}, ![c].size = s]
  /\ UNCHANGED <<label, lvs, known, crashed, faults, ids>>

\* lvcreate --size=<size>b: it takes neither a size of zero nor a name in use.
Allocatable(g, n, size) ==
  /\ ~IsVolumeGroupNotFound(g)
  /\ n \notin ListLogicalVolumeNames(g)
  /\ size > 0 /\ RoundUp(size) <= BytesFree(g)

\* The command runs.  The handle holds the size asked for; on an error, ErrNoSpace
\* or another, there is none.
LvCreate(c) ==
  /\ Running(c, "lvcreate")
  /\ \E g \in client[c].group, n \in client[c].name :
       LET size == client[c].size IN
       \/ /\ Allocatable(g, n, size)
          /\ lvs' = lvs \cup {[vg |-> g, name |-> n, bytes |-> RoundUp(size),
                               origin |-> {}, id |-> ids]}
          /\ ids' = ids + 1
          /\ Return(c, {[vg |-> g, name |-> n, size |-> size, id |-> ids]})
          /\ UNCHANGED faults
       \/ ~Allocatable(g, n, size) /\ Return(c, {}) /\ UNCHANGED <<lvs, ids, faults>>
       \/ Fault /\ Return(c, {}) /\ UNCHANGED <<lvs, ids>>
  /\ UNCHANGED <<label, known, crashed>>

\* Mutant of HandleOf: the line itself.
HandleOfLine(v) == v

\* The *LogicalVolume made from a line of lvs.
HandleOf(v) == [vg |-> v.vg, name |-> v.name, size |-> v.bytes, id |-> v.id]

\* The volume of a group that has the name.
Named(g, n) == {v \in In(g) : v.name = n}

\* lvs prints the volumes of the group; for a snapshot a second lvs, which asks
\* for its usage, comes before the return.
LookupLogicalVolume(c, g, n) ==
  /\ Running(c, "idle")
  /\ g \in client[c].vgs \cap known
  /\ \E v \in Named(g, n) :
       client' = [client EXCEPT ![c].lv = {HandleOf(v)},
                                ![c].pc = IF v.origin = {} THEN "idle" ELSE "usage"]
  /\ UNCHANGED <<label, lvs, known, crashed, faults, ids>>

\* The error of the second lvs is dropped and the first line of its output is
\* indexed: without one the goroutine panics, and the process with it.
SnapshotUsage(c) ==
  /\ Running(c, "usage")
  /\ \E h \in client[c].lv :
       \/ /\ h.name \in ListLogicalVolumeNames(h.vg)
          /\ Return(c, {h})
          /\ UNCHANGED <<crashed, faults>>
       \/ /\ h.name \notin ListLogicalVolumeNames(h.vg)
          /\ crashed' = TRUE
          /\ UNCHANGED <<client, faults>>
       \/ Fault /\ crashed' = TRUE /\ UNCHANGED client
  /\ UNCHANGED <<label, lvs, known, ids>>

\* lvremove -f takes the snapshots of the volume with it.
LogicalVolumeRemove(c) ==
  /\ Running(c, "idle")
  /\ \E h \in client[c].lv : \E v \in Named(h.vg, h.name) :
       /\ h.vg \in known
       /\ lvs' = lvs \ ({v} \cup {w \in In(v.vg) : v.name \in w.origin})
  /\ UNCHANGED <<label, known, client, crashed, faults, ids>>

\* A volume is given another size, if the group has room for s more bytes.
SetSize(c, h, s, v, bytes) ==
  /\ Running(c, "idle")
  /\ h.vg \in known
  /\ s > 0 /\ RoundUp(s) <= BytesFree(h.vg)
  /\ lvs' = (lvs \ {v}) \cup {[v EXCEPT !.bytes = bytes]}
  /\ UNCHANGED <<label, known, client, crashed, faults, ids>>

\* Mutant of Expand: lvresize --size=<size>b.
ExpandResizes(c) ==
  \E h \in client[c].lv, s \in Sizes : \E v \in Named(h.vg, h.name) :
    SetSize(c, h, s, v, RoundUp(s))

\* lvextend --size=+<size>b, on the volume that has the handle's name by now.
Expand(c) ==
  \E h \in client[c].lv, s \in Sizes : \E v \in Named(h.vg, h.name) :
    SetSize(c, h, s, v, v.bytes + RoundUp(s))

\* Someone else on the node takes a snapshot (external).
TakeSnapshot(v, n) ==
  /\ ids < MaxIds
  /\ v.origin = {} /\ n \notin ListLogicalVolumeNames(v.vg)
  /\ Extent <= BytesFree(v.vg)
  /\ lvs' = lvs \cup {[v EXCEPT !.name = n, !.bytes = Extent, !.origin = {v.name},
                                !.id = ids]}
  /\ ids' = ids + 1
  /\ UNCHANGED <<label, known, client, crashed, faults>>

Next ==
  \/ \E c \in Clients :
       \/ \E d \in Devices : \/ CreatePhysicalVolume(c, d) \/ LookupPhysicalVolume(c, d)
                             \/ PhysicalVolumeRemove(c, d)
       \/ \E g \in Groups : \/ CreateVolumeGroup(c, g) \/ LookupVolumeGroup(c, g)
                            \/ VolumeGroupRemove(c, g)
       \/ \E g \in Groups, n \in Names :
            CreateLogicalVolume(c, g, n) \/ LookupLogicalVolume(c, g, n)
       \/ Scan(c) \/ LvCreate(c) \/ SnapshotUsage(c)
       \/ LogicalVolumeRemove(c) \/ Expand(c)
  \/ \E v \in lvs, n \in Names : TakeSnapshot(v, n)

Spec == Init /\ [][Next]_vars

-----------------------------------------------------------------------------
(***************************************************************************)
(* Properties.                                                             *)
(***************************************************************************)
\* Every variable keeps its type.
TypeOK ==
  /\ label \in [Devices -> Groups \cup {Unlabelled, Orphan}]
  /\ lvs \subseteq Volumes
  /\ known \subseteq Groups
  /\ client \in [Clients -> States]
  /\ crashed \in BOOLEAN
  /\ faults \in Nat /\ ids \in Nat

\* A handle promises no more than there is: while the volume it was made for
\* exists, it has the handle's name and at least the handle's size, whatever
\* other goroutines create, expand or remove.
HandleWithinVolume ==
  \A c \in Clients : \A h \in client[c].lv, v \in lvs :
    v.id = h.id => v.vg = h.vg /\ v.name = h.name /\ v.bytes >= h.size

\* A group that CreateVolumeGroup reported is found afterwards, even if lvmetad
\* missed it and one of the two scans failed.
CreatedGroupsKnown ==
  ~crashed /\ faults <= 1 =>
    \A g \in GroupsOnDisk :
      g \in known \/ \E c \in Clients : client[c].pc \in {"pvscan", "vgscan"}

=============================================================================
