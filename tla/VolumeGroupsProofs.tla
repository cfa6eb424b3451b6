------------------------- MODULE VolumeGroupsProofs -------------------------
(***************************************************************************)
(* Theorems about VolumeGroups, for any goroutines, devices, groups, names *)
(* and sizes, any extent, and any number of failing commands.              *)
(***************************************************************************)
EXTENDS VolumeGroups, TLAPS

\* Volumes and handles are numbered below the counter, volumes once each.
Numbered ==
  /\ \A v \in lvs : v.id < ids
  /\ \A v, w \in lvs : v.id = w.id => v = w
  /\ \A c \in Clients : \A h \in client[c].lv : h.id < ids

\* Of a group that lvmetad has missed some goroutine still owes a scan, the last
\* one only after the first has failed.
ScanOwed ==
  ~crashed /\ faults <= 1 =>
    \A g \in GroupsOnDisk \ known :
      \E c \in Clients : \/ client[c].pc = "pvscan"
                         \/ faults = 1 /\ client[c].pc = "vgscan"

IInv == TypeOK /\ Numbered /\ HandleWithinVolume /\ ScanOwed

-----------------------------------------------------------------------------
\* LVM allocates at least what it is asked for.
LEMMA RoundUpCovers ==
  ASSUME NEW b \in Nat
  PROVE  RoundUp(b) \in Nat /\ RoundUp(b) >= b
<1> DEFINE x == b + Extent - 1
           q == x \div Extent
<1>1. Extent \in Nat \ {0} /\ x \in Nat
  BY LvmAssumption
<1>2. q \in Nat /\ q * Extent \in Nat /\ x < q * Extent + Extent
  <2> HIDE DEF x
  <2> QED
    BY <1>1
<1>3. q * Extent >= b
  <2> HIDE DEF q
  <2> QED
    BY <1>1, <1>2
<1> QED
  BY <1>2, <1>3 DEF RoundUp

LEMMA FreshType == Fresh \in States
BY DEF Fresh, States

LEMMA InitHolds == Init => IInv
<1> SUFFICES ASSUME Init PROVE IInv
  OBVIOUS
<1>1. TypeOK
  BY FreshType DEF Init, TypeOK
<1>2. \A c \in Clients : client[c].lv = {}
  BY DEF Init, Fresh
<1>3. Numbered /\ HandleWithinVolume
  BY <1>2 DEF Init, Numbered, HandleWithinVolume
<1>4. ScanOwed
  <2> SUFFICES GroupsOnDisk = {}
    BY DEF ScanOwed
  <2> QED
    BY LvmAssumption DEF Init, GroupsOnDisk
<1> QED
  BY <1>1, <1>3, <1>4 DEF IInv

-----------------------------------------------------------------------------
(***************************************************************************)
(* Handles and volumes.                                                    *)
(***************************************************************************)
\* The part of the invariant that speaks of handles.
Promised == Numbered /\ HandleWithinVolume

\* A step that makes neither a volume nor a handle keeps the promise.
LEMMA FewerKeep ==
  ASSUME Promised, ids' = ids, lvs' \subseteq lvs,
         \A c \in Clients : client'[c].lv \subseteq client[c].lv
  PROVE  Promised'
BY DEF Promised, Numbered, HandleWithinVolume

LEMMA ReturnType ==
  ASSUME TypeOK, NEW c \in Clients, NEW handle \in SUBSET Handles, Return(c, handle)
  PROVE  /\ client' \in [Clients -> States]
         /\ client'[c].pc = "idle" /\ client'[c].lv = handle
         /\ \A d \in Clients : d # c => client'[d] = client[d]
<1> DEFINE r == [client[c] EXCEPT !.pc = "idle", !.group = {}, !.name = {}, !.size = 0,
                                  !.lv = handle]
<1>1. client[c] \in States
  BY DEF TypeOK
<1>2. r \in States /\ r.pc = "idle" /\ r.lv = handle
  BY <1>1 DEF States
<1>3. client' = [client EXCEPT ![c] = r]
  BY DEF Return
<1> HIDE DEF r
<1> QED
  BY <1>2, <1>3 DEF TypeOK

LEMMA LvCreatePromised ==
  ASSUME TypeOK, Promised, NEW c \in Clients, LvCreate(c)
  PROVE  Promised' /\ lvs' \subseteq Volumes /\ ids' \in Nat /\ client' \in [Clients -> States]
<1>1. PICK g \in client[c].group, n \in client[c].name :
        LET size == client[c].size IN
        \/ /\ Allocatable(g, n, size)
           /\ lvs' = lvs \cup {[vg |-> g, name |-> n, bytes |-> RoundUp(size),
                                origin |-> {}, id |-> ids]}
           /\ ids' = ids + 1
           /\ Return(c, {[vg |-> g, name |-> n, size |-> size, id |-> ids]})
        \/ Return(c, {}) /\ UNCHANGED <<lvs, ids>>
  BY DEF LvCreate
<1> DEFINE size == client[c].size
           v == [vg |-> g, name |-> n, bytes |-> RoundUp(size), origin |-> {}, id |-> ids]
           h == [vg |-> g, name |-> n, size |-> size, id |-> ids]
<1>2. g \in Groups /\ n \in Names /\ size \in Nat /\ ids \in Nat
  BY DEF TypeOK, States
<1>3. RoundUp(size) \in Nat /\ RoundUp(size) >= size
  BY <1>2, RoundUpCovers
<1>4. CASE Return(c, {}) /\ UNCHANGED <<lvs, ids>>
  <2>1. client' \in [Clients -> States]
    BY <1>4, ReturnType
  <2>2. \A d \in Clients : client'[d].lv \subseteq client[d].lv
    BY <1>4, ReturnType
  <2> QED
    BY <1>4, <2>1, <2>2, FewerKeep DEF TypeOK
<1>5. CASE lvs' = lvs \cup {v} /\ ids' = ids + 1 /\ Return(c, {h})
  <2>1. v \in Volumes /\ h \in Handles
    BY <1>2, <1>3 DEF Volumes, Handles
  <2>2. client' \in [Clients -> States]
    BY <1>5, <2>1, ReturnType
  <2>3. \A d \in Clients : client'[d].lv = IF d = c THEN {h} ELSE client[d].lv
    BY <1>5, <2>1, ReturnType
  <2>4. v.id = ids /\ h.id = ids /\ v.vg = h.vg /\ v.name = h.name /\ v.bytes >= h.size
    BY <1>3
  <2>5. \A w \in lvs : w.id \in Nat /\ w.id < ids
    BY DEF TypeOK, Volumes, Promised, Numbered
  <2>6. \A d \in Clients : \A k \in client[d].lv : k.id \in Nat /\ k.id < ids
    BY DEF TypeOK, States, Handles, Promised, Numbered
  <2> HIDE DEF v, h
  <2>7. Numbered'
    BY <1>2, <1>5, <2>3, <2>4, <2>5, <2>6 DEF Promised, Numbered
  <2>8. HandleWithinVolume'
    BY <1>2, <1>5, <2>3, <2>4, <2>5, <2>6 DEF Promised, HandleWithinVolume
  <2> QED
    BY <1>2, <1>5, <2>1, <2>2, <2>7, <2>8 DEF TypeOK, Promised
<1> QED
  BY <1>1, <1>4, <1>5

\* A handle is made from a line of lvs: it is as large as the volume.
LEMMA LookupPromised ==
  ASSUME TypeOK, Promised, NEW c \in Clients, NEW g \in Groups, NEW n \in Names,
         LookupLogicalVolume(c, g, n)
  PROVE  Promised' /\ client' \in [Clients -> States]
<1>1. PICK v \in lvs :
        client' = [client EXCEPT ![c].lv = {HandleOf(v)},
                                 ![c].pc = IF v.origin = {} THEN "idle" ELSE "usage"]
  BY DEF LookupLogicalVolume, Named, In
<1> DEFINE h == HandleOf(v)
<1>2. v \in Volumes
  BY DEF TypeOK
<1>3. h \in Handles /\ v.bytes \in Nat
  BY <1>2 DEF HandleOf, Handles, Volumes
<1>4. h.id = v.id /\ h.vg = v.vg /\ h.name = v.name /\ h.size = v.bytes
  BY DEF HandleOf
<1>5. UNCHANGED <<lvs, ids>>
  BY DEF LookupLogicalVolume
<1> HIDE DEF h
<1>6. client' \in [Clients -> States]
  <2>1. PICK pc \in {"idle", "usage"} :
          client' = [client EXCEPT ![c] = [client[c] EXCEPT !.lv = {h}, !.pc = pc]]
    BY <1>1 DEF h, TypeOK
  <2>2. client[c] \in States
    BY DEF TypeOK
  <2>3. [client[c] EXCEPT !.lv = {h}, !.pc = pc] \in States
    BY <1>3, <2>2 DEF States
  <2> QED
    BY <2>1, <2>3 DEF TypeOK
<1>7. \A d \in Clients : client'[d].lv = IF d = c THEN {h} ELSE client[d].lv
  BY <1>1 DEF TypeOK, States, h
<1>8. Numbered'
  BY <1>4, <1>5, <1>7 DEF Promised, Numbered
<1>9. HandleWithinVolume'
  BY <1>3, <1>4, <1>5, <1>7 DEF Promised, Numbered, HandleWithinVolume
<1> QED
  BY <1>6, <1>8, <1>9 DEF Promised

\* lvextend grows a volume and leaves its name alone.
LEMMA ExpandPromised ==
  ASSUME TypeOK, Promised, NEW c \in Clients, Expand(c)
  PROVE  Promised' /\ lvs' \subseteq Volumes /\ UNCHANGED <<client, ids>>
<1>1. PICK s \in Sizes, v \in lvs :
        /\ lvs' = (lvs \ {v}) \cup {[v EXCEPT !.bytes = v.bytes + RoundUp(s)]}
        /\ UNCHANGED <<client, ids>>
  BY DEF Expand, SetSize, Named, In
<1> DEFINE w == [v EXCEPT !.bytes = v.bytes + RoundUp(s)]
<1>2. v \in Volumes /\ RoundUp(s) \in Nat
  BY RoundUpCovers, LvmAssumption DEF TypeOK
<1>3. /\ w \in Volumes /\ w.id = v.id /\ w.vg = v.vg /\ w.name = v.name
      /\ v.bytes \in Nat /\ w.bytes \in Nat /\ w.bytes >= v.bytes
  BY <1>2 DEF Volumes
<1> HIDE DEF w
<1>4. lvs' = (lvs \ {v}) \cup {w} /\ client' = client /\ ids' = ids
  BY <1>1 DEF w
<1>5. Numbered'
  BY <1>3, <1>4 DEF Promised, Numbered
<1>6. \A d \in Clients : \A h \in client[d].lv : h.size \in Nat
  BY DEF TypeOK, States, Handles
<1>7. HandleWithinVolume'
  BY <1>3, <1>4, <1>6 DEF Promised, HandleWithinVolume
<1> QED
  BY <1>3, <1>4, <1>5, <1>7 DEF Promised, TypeOK

LEMMA SnapshotPromised ==
  ASSUME TypeOK, Promised, NEW v \in lvs, NEW n \in Names, TakeSnapshot(v, n)
  PROVE  Promised' /\ lvs' \subseteq Volumes /\ ids' \in Nat /\ UNCHANGED client
<1> DEFINE w == [v EXCEPT !.name = n, !.bytes = Extent, !.origin = {v.name}, !.id = ids]
<1>1. w \in Volumes /\ w.id = ids /\ ids \in Nat
  BY LvmAssumption DEF TypeOK, Volumes
<1>2. \A u \in lvs : u.id \in Nat /\ u.id < ids
  BY DEF TypeOK, Volumes, Promised, Numbered
<1>3. \A d \in Clients : \A h \in client[d].lv : h.id \in Nat /\ h.id < ids
  BY DEF TypeOK, States, Handles, Promised, Numbered
<1>4. lvs' = lvs \cup {w} /\ ids' = ids + 1 /\ client' = client
  BY DEF TakeSnapshot
<1> HIDE DEF w
<1>5. Numbered'
  BY <1>1, <1>2, <1>3, <1>4 DEF Promised, Numbered
<1>6. HandleWithinVolume'
  BY <1>1, <1>3, <1>4 DEF Promised, HandleWithinVolume
<1> QED
  BY <1>1, <1>4, <1>5, <1>6 DEF Promised, TypeOK

-----------------------------------------------------------------------------
(***************************************************************************)
(* Scans.                                                                  *)
(***************************************************************************)
Scanning == {"pvscan", "vgscan"}

\* A step that adds no unknown group and lets scans wait keeps what is owed.
LEMMA ScansWait ==
  ASSUME TypeOK, ScanOwed, crashed => crashed', faults' \in {faults, faults + 1},
         GroupsOnDisk' \ known' \subseteq GroupsOnDisk \ known,
         \A c \in Clients : client[c].pc \in Scanning => client'[c].pc = client[c].pc
  PROVE  ScanOwed'
BY DEF TypeOK, ScanOwed, Scanning

LEMMA ScanKeeps ==
  ASSUME IInv, NEW c \in Clients, Scan(c)
  PROVE  IInv'
<1>1. UNCHANGED <<label, lvs, crashed, ids>> /\ GroupsOnDisk' = GroupsOnDisk
  BY DEF Scan, GroupsOnDisk
<1>2. client[c] \in States /\ client[c].pc \in Scanning /\ faults \in Nat
  BY DEF Scan, Running, Scanning, IInv, TypeOK
<1>3. /\ client' \in [Clients -> States]
      /\ client'[c].pc = IF client[c].pc = "pvscan" THEN "vgscan" ELSE "idle"
      /\ client'[c].lv = client[c].lv
      /\ \A d \in Clients : d # c => client'[d] = client[d]
  <2>1. CASE client[c].pc = "pvscan"
    BY <1>2, <2>1 DEF Scan, IInv, TypeOK, States
  <2>2. CASE client[c].pc # "pvscan"
    <3>1. client[c].lv \in SUBSET Handles
      BY <1>2 DEF States
    <3> QED
      BY <2>2, <3>1, ReturnType DEF Scan, IInv
  <2> QED
    BY <2>1, <2>2
<1>4. \/ known' = GroupsOnDisk /\ faults' = faults
      \/ known' = known /\ faults' = faults + 1
  BY DEF Scan, Fault
<1>5. TypeOK'
  BY <1>1, <1>2, <1>3, <1>4 DEF IInv, TypeOK, GroupsOnDisk
<1>6. Promised'
  BY <1>1, <1>3, FewerKeep DEF IInv, Promised
<1>7. ScanOwed'
  <2>1. CASE known' = GroupsOnDisk
    BY <1>1, <2>1 DEF ScanOwed
  <2>2. CASE known' = known /\ faults' = faults + 1
    <3> SUFFICES ASSUME ~crashed, faults = 0, NEW g \in GroupsOnDisk \ known
                 PROVE  \E d \in Clients : client'[d].pc \in Scanning
      BY <1>1, <1>2, <1>3, <2>2 DEF ScanOwed, Scanning
    <3>1. PICK d \in Clients : client[d].pc = "pvscan"
      BY DEF IInv, ScanOwed
    <3> QED
      BY <1>3, <3>1 DEF Scanning
  <2> QED
    BY <1>4, <2>1, <2>2
<1> QED
  BY <1>5, <1>6, <1>7 DEF IInv, Promised

-----------------------------------------------------------------------------
\* Operations on devices and groups.
LEMMA DeviceKeeps ==
  ASSUME IInv, NEW c \in Clients, NEW d \in Devices,
         \/ CreatePhysicalVolume(c, d) \/ LookupPhysicalVolume(c, d)
         \/ PhysicalVolumeRemove(c, d)
  PROVE  IInv'
<1>1. UNCHANGED <<lvs, known, crashed, faults, ids>>
  BY DEF CreatePhysicalVolume, LookupPhysicalVolume, PhysicalVolumeRemove
<1>2. /\ client' \in [Clients -> States]
      /\ \A e \in Clients : client'[e].pc = client[e].pc /\ client'[e].lv = client[e].lv
  BY DEF CreatePhysicalVolume, LookupPhysicalVolume, PhysicalVolumeRemove, IInv, TypeOK,
         States
<1>3. label' \in [Devices -> Groups \cup {Unlabelled, Orphan}]
  BY DEF CreatePhysicalVolume, LookupPhysicalVolume, PhysicalVolumeRemove, IInv, TypeOK
<1>4. GroupsOnDisk' \subseteq GroupsOnDisk
  BY LvmAssumption
     DEF CreatePhysicalVolume, LookupPhysicalVolume, PhysicalVolumeRemove, IInv, TypeOK,
         GroupsOnDisk
<1>5. TypeOK'
  BY <1>1, <1>2, <1>3 DEF IInv, TypeOK
<1>6. Promised'
  BY <1>1, <1>2, FewerKeep DEF IInv, Promised
<1>7. ScanOwed'
  BY <1>1, <1>2, <1>4, ScansWait DEF IInv
<1> QED
  BY <1>5, <1>6, <1>7 DEF IInv, Promised

LEMMA CreateGroupKeeps ==
  ASSUME IInv, NEW c \in Clients, NEW g \in Groups, CreateVolumeGroup(c, g)
  PROVE  IInv'
<1>1. PICK ds \in SUBSET client[c].pvs : VgCreate(c, g, ds)
  BY DEF CreateVolumeGroup
<1>2. /\ label' \in [Devices -> Groups \cup {Unlabelled, Orphan}]
      /\ known' \subseteq Groups
      /\ ids' = ids + 1
      /\ UNCHANGED <<lvs, crashed, faults>>
  BY <1>1 DEF VgCreate, IInv, TypeOK
<1>3. /\ client' \in [Clients -> States]
      /\ client'[c].pc = "pvscan"
      /\ \A e \in Clients : client'[e].lv = client[e].lv
  <2> DEFINE r == [client[c] EXCEPT !.pc = "pvscan", !.group = {g}, !.vgs = @ \cup {g}]
  <2>1. client[c] \in States
    BY DEF IInv, TypeOK
  <2>2. r \in States /\ r.pc = "pvscan" /\ r.lv = client[c].lv
    BY <2>1 DEF States
  <2>3. client' = [client EXCEPT ![c] = r]
    BY DEF CreateVolumeGroup, IInv, TypeOK
  <2> HIDE DEF r
  <2> QED
    BY <2>2, <2>3 DEF IInv, TypeOK
<1>4. TypeOK'
  BY <1>2, <1>3 DEF IInv, TypeOK
<1>5. Numbered'
  <2>1. \A v \in lvs : v.id \in Nat
    BY DEF IInv, TypeOK, Volumes
  <2>2. \A e \in Clients : \A h \in client[e].lv : h.id \in Nat
    BY DEF IInv, TypeOK, States, Handles
  <2> QED
    BY <1>2, <1>3, <2>1, <2>2 DEF IInv, TypeOK, Numbered
<1>6. HandleWithinVolume'
  BY <1>2, <1>3 DEF IInv, HandleWithinVolume
<1>7. ScanOwed'
  BY <1>3 DEF ScanOwed
<1> QED
  BY <1>4, <1>5, <1>6, <1>7 DEF IInv

LEMMA GroupKeeps ==
  ASSUME IInv, NEW c \in Clients, NEW g \in Groups,
         LookupVolumeGroup(c, g) \/ VolumeGroupRemove(c, g)
  PROVE  IInv'
<1>1. UNCHANGED <<crashed, faults, ids>> /\ lvs' \subseteq lvs
  BY DEF LookupVolumeGroup, VolumeGroupRemove
<1>2. /\ client' \in [Clients -> States]
      /\ \A e \in Clients : client'[e].pc = client[e].pc /\ client'[e].lv = client[e].lv
  BY DEF LookupVolumeGroup, VolumeGroupRemove, IInv, TypeOK, States
<1>3. /\ label' \in [Devices -> Groups \cup {Unlabelled, Orphan}]
      /\ known' \subseteq Groups
  BY DEF LookupVolumeGroup, VolumeGroupRemove, IInv, TypeOK
<1>4. GroupsOnDisk' \ known' \subseteq GroupsOnDisk \ known
  BY LvmAssumption
     DEF LookupVolumeGroup, VolumeGroupRemove, IInv, TypeOK, GroupsOnDisk
<1>5. TypeOK'
  BY <1>1, <1>2, <1>3 DEF IInv, TypeOK
<1>6. Promised'
  BY <1>1, <1>2, FewerKeep DEF IInv, Promised
<1>7. ScanOwed'
  BY <1>1, <1>2, <1>4, ScansWait DEF IInv
<1> QED
  BY <1>5, <1>6, <1>7 DEF IInv, Promised

-----------------------------------------------------------------------------
\* Operations on logical volumes leave devices and groups alone.
LEMMA VolumeStepKeeps ==
  ASSUME IInv, Promised', UNCHANGED <<label, known>>,
         lvs' \subseteq Volumes, client' \in [Clients -> States], ids' \in Nat,
         crashed' \in BOOLEAN, crashed => crashed', faults' \in {faults, faults + 1},
         \A c \in Clients : client[c].pc \in Scanning => client'[c].pc = client[c].pc
  PROVE  IInv'
<1>1. TypeOK'
  BY DEF IInv, TypeOK
<1>2. GroupsOnDisk' = GroupsOnDisk
  BY DEF GroupsOnDisk
<1>3. ScanOwed'
  BY <1>2, ScansWait DEF IInv
<1> QED
  BY <1>1, <1>3 DEF IInv, Promised

LEMMA CreateCallKeeps ==
  ASSUME IInv, NEW c \in Clients, NEW g \in Groups, NEW n \in Names,
         CreateLogicalVolume(c, g, n)
  PROVE  IInv'
<1>1. PICK s \in Sizes :
        client' = [client EXCEPT ![c].pc = "lvcreate", ![c].group = {g}, ![c].name = {n},
                                 ![c].size = s]
  BY DEF CreateLogicalVolume
<1> DEFINE r == [client[c] EXCEPT !.pc = "lvcreate", !.group = {g}, !.name = {n}, !.size = s]
<1>2. client[c] \in States /\ client[c].pc = "idle" /\ s \in Nat
  BY LvmAssumption DEF CreateLogicalVolume, Running, IInv, TypeOK
<1>3. r \in States /\ r.lv = client[c].lv
  BY <1>2 DEF States
<1>4. client' = [client EXCEPT ![c] = r]
  BY <1>1 DEF IInv, TypeOK
<1> HIDE DEF r
<1>5. /\ client' \in [Clients -> States]
      /\ \A e \in Clients : client'[e].lv = client[e].lv
      /\ \A e \in Clients : e # c => client'[e] = client[e]
  BY <1>3, <1>4 DEF IInv, TypeOK
<1>6. UNCHANGED <<label, lvs, known, crashed, faults, ids>>
  BY DEF CreateLogicalVolume
<1>7. Promised'
  BY <1>5, <1>6, FewerKeep DEF IInv, Promised
<1> QED
  BY <1>2, <1>5, <1>6, <1>7, VolumeStepKeeps DEF IInv, TypeOK, Scanning

LEMMA UsageKeeps ==
  ASSUME IInv, NEW c \in Clients, SnapshotUsage(c)
  PROVE  IInv'
<1>1. PICK h \in client[c].lv :
        \/ Return(c, {h}) /\ UNCHANGED <<crashed, faults>>
        \/ crashed' = TRUE /\ UNCHANGED client /\ (UNCHANGED faults \/ Fault)
  BY DEF SnapshotUsage
<1>2. UNCHANGED <<label, lvs, known, ids>> /\ client[c].pc = "usage" /\ ~crashed
  BY DEF SnapshotUsage, Running
<1>3. {h} \in SUBSET Handles /\ {h} \subseteq client[c].lv
  BY DEF IInv, TypeOK, States
<1>4. /\ client' \in [Clients -> States]
      /\ \A e \in Clients : client'[e].lv \subseteq client[e].lv
      /\ \A e \in Clients : e # c => client'[e] = client[e]
  <2>1. CASE Return(c, {h})
    BY <1>3, <2>1, ReturnType DEF IInv
  <2>2. CASE UNCHANGED client
    BY <2>2 DEF IInv, TypeOK
  <2> QED
    BY <1>1, <2>1, <2>2
<1>5. Promised'
  BY <1>2, <1>4, FewerKeep DEF IInv, Promised
<1>6. crashed' \in BOOLEAN /\ faults' \in {faults, faults + 1}
  BY <1>1 DEF Fault, IInv, TypeOK
<1> QED
  BY <1>2, <1>4, <1>5, <1>6, VolumeStepKeeps DEF IInv, TypeOK, Scanning

LEMMA LvCreateKeeps ==
  ASSUME IInv, NEW c \in Clients, LvCreate(c)
  PROVE  IInv'
<1>1. /\ Promised' /\ lvs' \subseteq Volumes /\ ids' \in Nat
      /\ client' \in [Clients -> States]
  BY LvCreatePromised DEF IInv, Promised
<1>2. UNCHANGED <<label, known, crashed>> /\ faults' \in {faults, faults + 1}
  BY DEF LvCreate, Fault
<1>3. client[c].pc = "lvcreate"
  BY DEF LvCreate, Running
<1>4. \A e \in Clients : e # c => client'[e] = client[e]
  BY DEF LvCreate, Return, IInv, TypeOK
<1> QED
  BY <1>1, <1>2, <1>3, <1>4, VolumeStepKeeps DEF IInv, TypeOK, Scanning

LEMMA LookupKeeps ==
  ASSUME IInv, NEW c \in Clients, NEW g \in Groups, NEW n \in Names,
         LookupLogicalVolume(c, g, n)
  PROVE  IInv'
<1>1. Promised' /\ client' \in [Clients -> States]
  BY LookupPromised DEF IInv, Promised
<1>2. UNCHANGED <<label, lvs, known, crashed, faults, ids>> /\ client[c].pc = "idle"
  BY DEF LookupLogicalVolume, Running
<1>3. \A e \in Clients : e # c => client'[e] = client[e]
  BY DEF LookupLogicalVolume, IInv, TypeOK
<1> QED
  BY <1>1, <1>2, <1>3, VolumeStepKeeps DEF IInv, TypeOK, Scanning

LEMMA ChangeKeeps ==
  ASSUME IInv, NEW c \in Clients, LogicalVolumeRemove(c) \/ Expand(c)
  PROVE  IInv'
<1>1. UNCHANGED <<label, known, client, crashed, faults, ids>>
  BY DEF LogicalVolumeRemove, Expand, SetSize
<1>2. Promised' /\ lvs' \subseteq Volumes
  <2>1. CASE LogicalVolumeRemove(c)
    <3>1. lvs' \subseteq lvs
      BY <2>1 DEF LogicalVolumeRemove
    <3> QED
      BY <1>1, <3>1, FewerKeep DEF IInv, Promised, TypeOK
  <2>2. CASE Expand(c)
    BY <2>2, ExpandPromised DEF IInv, Promised
  <2> QED
    BY <2>1, <2>2
<1> QED
  BY <1>1, <1>2, VolumeStepKeeps DEF IInv, TypeOK

LEMMA NextKeeps == IInv /\ [Next]_vars => IInv'
<1> SUFFICES ASSUME IInv, [Next]_vars PROVE IInv'
  OBVIOUS
<1>1. CASE \E v \in lvs, n \in Names : TakeSnapshot(v, n)
  <2>1. PICK v \in lvs, n \in Names : TakeSnapshot(v, n)
    BY <1>1
  <2>2. Promised' /\ lvs' \subseteq Volumes /\ ids' \in Nat /\ UNCHANGED client
    BY <2>1, SnapshotPromised DEF IInv, Promised
  <2>3. UNCHANGED <<label, known, crashed, faults>>
    BY <2>1 DEF TakeSnapshot
  <2> QED
    BY <2>2, <2>3, VolumeStepKeeps DEF IInv, TypeOK
<1>2. CASE UNCHANGED vars
  BY <1>2 DEF vars, IInv, TypeOK, Numbered, HandleWithinVolume, ScanOwed, GroupsOnDisk
<1> QED
  BY <1>1, <1>2, DeviceKeeps, CreateGroupKeeps, GroupKeeps, CreateCallKeeps, LookupKeeps,
     ScanKeeps, LvCreateKeeps, UsageKeeps, ChangeKeeps DEF Next

LEMMA Inductive == Spec => []IInv
BY InitHolds, NextKeeps, PTL DEF Spec

\* Every variable of the library and of LVM keeps its type.
THEOREM TypeCorrect == Spec => []TypeOK
<1>1. IInv => TypeOK
  BY DEF IInv
<1> QED
  BY <1>1, Inductive, PTL

\* What CreateLogicalVolume and LookupLogicalVolume return promises no more than
\* there is, as long as the volume it was made for exists: LVM rounds up, Expand
\* only adds, and a volume that takes over the name is another one.
THEOREM HandlesAreHonest == Spec => []HandleWithinVolume
<1>1. IInv => HandleWithinVolume
  BY DEF IInv
<1> QED
  BY <1>1, Inductive, PTL

\* The group that CreateVolumeGroup has made is in lvmetad's cache when it returns,
\* although vgcreate's update may be missed and one of its two scans may fail, and
\* whatever other goroutines create, remove or scan in between.
THEOREM GroupsAreFound == Spec => []CreatedGroupsKnown
<1>1. IInv => CreatedGroupsKnown
  BY DEF IInv, ScanOwed, CreatedGroupsKnown
<1> QED
  BY <1>1, Inductive, PTL

=============================================================================
