----------------------------- MODULE NodeServer -----------------------------
(***************************************************************************)
(* The CSI node service of the driver (pkg/csi/lvm/nodeserver.go) on one   *)
(* node: NodePublishVolume, NodeUnpublishVolume and NodeExpandVolume, each *)
(* served by a gRPC goroutine, interleaved command by command.             *)
(*                                                                         *)
(* A handler step is one access to what handlers share: the field          *)
(* ns.isDirect, the API server, or the host through one external command   *)
(* (lvcreate, mkfs, mount, ...).  The goroutines share no lock.  The       *)
(* caller is kubelet, modelled from how CSI calls reach the driver: it     *)
(* repeats a call until it succeeds, waits for one call per volume, and    *)
(* may give up waiting (a gRPC deadline) while the handler runs on.        *)
(***************************************************************************)
EXTENDS PvInfo, FiniteSets

CONSTANTS
  Handlers,     \* request goroutines
  Volumes,      \* volume IDs (= PV names = LV names)
  Targets,      \* target paths, one per pod and volume
  VolumeOf,     \* the volume a target path publishes
  Context,      \* what the handlers read of a volume's attributes
  InitialSize,  \* capacity of the PV, in bytes, when it is created
  GrownSizes,   \* capacities a PV may be expanded to
  NoTarget,     \* the target of an idle goroutine
  MaxFaults,    \* bound: commands and API reads that fail
  MaxCrashes,   \* bound: restarts of the driver process
  MaxTimeouts   \* bound: calls kubelet stops waiting for

\* The attributes that steer the code: vgName is unset, names a volume group
\* the node does not have, or one it has; pvVG tells whether the PV's
\* allocation annotation names the same group as the volume context.
Attributes == [vgName  : {"unset", "absent", "present"},
               pvType  : {"localdisk", "clouddisk"},
               lvmType : {"linear", "striping", "other"},
               direct  : {"absent", "false", "true", "malformed"},
               pvVG    : {"same", "other"}]

ASSUME ConstantsAssumption ==
  /\ VolumeOf \in [Targets -> Volumes]
  /\ Context \in [Volumes -> Attributes]
  /\ InitialSize \in [Volumes -> Nat]
  /\ GrownSizes \subseteq Nat
  /\ NoTarget \notin Targets
  /\ MaxFaults \in Nat /\ MaxCrashes \in Nat /\ MaxTimeouts \in Nat

VARIABLES
  isDirect,  \* ns.isDirect, one field for all requests
  call,      \* what each goroutine is doing, with its local variables
  pvSize,    \* API server: capacity of each PV
  lv,        \* host: size of the LV behind a volume, 0 when there is none
  fs,        \* host: size of the file system on it, 0 when it is blank
  data,      \* host: volumes whose file system holds a pod's data
  mnt,       \* host: target paths where the volume is mounted
  rec,       \* host: target paths with a kata direct-volume record
  dirs,      \* host: target paths that exist
  phase,     \* kubelet: life of the pod behind a target path
  expanded,  \* kubelet: capacity it believes a volume to have
  faults, crashes, timeouts

handlerVars == <<isDirect, call>>
hostVars    == <<lv, fs, data, mnt, rec, dirs>>
kubeletVars == <<phase, expanded>>
boundVars   == <<faults, crashes, timeouts>>
vars == <<handlerVars, pvSize, hostVars, kubeletVars, boundVars>>

PC == {"idle", "reset", "parse", "clear", "stat", "getpv", "lvcreate", "branch", "add",
       "ismounted", "checkfs", "mkfs", "mount",
       "rgetpv", "lvdisplay", "lvextend", "resizefs",
       "xbranch", "xgetpv",
       "ubranch", "remove", "uismounted", "umount",
       "ok", "err"}

Calls == [pc : PC,
          op : {"none", "publish", "unpublish", "expand"},
          target  : Targets \cup {NoTarget},
          awaited : BOOLEAN,   \* kubelet still waits for the response
          want    : Nat,       \* CapacityRange.RequiredBytes (expand)
          created : BOOLEAN,   \* volumeNewCreated
          isMnt   : BOOLEAN,
          size    : Nat,       \* pvSize in unit: bytes asked of LVM
          bytes   : Nat]       \* pvSizeByte

Idle == [pc |-> "idle", op |-> "none", target |-> NoTarget, awaited |-> FALSE,
         want |-> 0, created |-> FALSE, isMnt |-> FALSE, size |-> 0, bytes |-> 0]

Phases == {"starting", "running", "stopping", "gone"}

Vol(h) == VolumeOf[call[h].target]

Init ==
  /\ isDirect = FALSE
  /\ call = [h \in Handlers |-> Idle]
  /\ pvSize = InitialSize
  /\ lv = [v \in Volumes |-> 0]
  /\ fs = [v \in Volumes |-> 0]
  /\ data = {}
  /\ mnt = {}
  /\ rec = {}
  /\ dirs = {}
  /\ phase = [t \in Targets |-> "starting"]
  /\ expanded = InitialSize
  /\ faults = 0 /\ crashes = 0 /\ timeouts = 0

-----------------------------------------------------------------------------
(***************************************************************************)
(* Control of a goroutine.                                                 *)
(***************************************************************************)
At(h, p) == call[h].pc = p

\* The handler goes on at p.
Goto(h, p) == call' = [call EXCEPT ![h].pc = p]

\* A command or an API read fails for a reason of its own.
Fault == faults < MaxFaults /\ faults' = faults + 1

\* Commands whose failure makes the handler return an error, nothing else.
Commands == {"lvcreate", "add", "checkfs", "mkfs", "lvdisplay", "lvextend",
             "resizefs", "umount"}

\* Mutant of CommandFails: a failing handler rolls the mount back.
CommandFailsRollsBack(h) ==
  /\ call[h].pc \in Commands
  /\ Fault
  /\ Goto(h, "err")
  /\ mnt' = mnt \ {call[h].target}
  /\ UNCHANGED <<isDirect, lv, fs, data, rec, dirs>>

CommandFails(h) ==
  /\ call[h].pc \in Commands
  /\ Fault
  /\ Goto(h, "err")
  /\ UNCHANGED <<isDirect, hostVars>>

-----------------------------------------------------------------------------
(***************************************************************************)
(* NodePublishVolume.                                                      *)
(***************************************************************************)
\* Validation of the request, then "ns.isDirect = false".
Reset(h) ==
  /\ At(h, "reset")
  /\ IF Context[Vol(h)].vgName = "unset"
     THEN Goto(h, "err") /\ UNCHANGED isDirect
     ELSE /\ isDirect' = FALSE
          /\ Goto(h, IF Context[Vol(h)].direct = "absent" THEN "stat" ELSE "parse")
  /\ UNCHANGED <<hostVars, faults>>

\* "ns.isDirect, err = strconv.ParseBool(val)"; a malformed value is assigned
\* as false and then cleared once more.
ParseDirect(h) ==
  /\ \/ /\ At(h, "parse")
        /\ isDirect' = (Context[Vol(h)].direct = "true")
        /\ Goto(h, IF Context[Vol(h)].direct = "malformed" THEN "clear" ELSE "stat")
     \/ /\ At(h, "clear")
        /\ isDirect' = FALSE
        /\ Goto(h, "stat")
  /\ UNCHANGED <<hostVars, faults>>

\* Mutant of StatDevice: every publish creates.
StatDeviceAlwaysCreates(h) ==
  /\ At(h, "stat")
  /\ call' = [call EXCEPT ![h].pc = "getpv", ![h].created = TRUE]
  /\ UNCHANGED <<isDirect, hostVars, faults>>

\* Mutant of StatDevice: a direct volume is published before it is created.
StatDeviceDirectFirst(h) ==
  /\ At(h, "stat")
  /\ IF lv[Vol(h)] = 0 /\ ~isDirect
     THEN call' = [call EXCEPT ![h].pc = "getpv", ![h].created = TRUE]
     ELSE Goto(h, "branch")
  /\ UNCHANGED <<isDirect, hostVars, faults>>

\* os.Stat of the device: only "does not exist" leads to createVolume; any
\* other error is taken as an existing device.
StatDevice(h) ==
  /\ At(h, "stat")
  /\ \/ /\ IF lv[Vol(h)] = 0
           THEN call' = [call EXCEPT ![h].pc = "getpv", ![h].created = TRUE]
           ELSE Goto(h, "branch")
        /\ UNCHANGED faults
     \/ Fault /\ Goto(h, "branch")
  /\ UNCHANGED <<isDirect, hostVars>>

\* Mutant of ReadPv: a failed read yields -1.
ReadPvMinusOne(h, next) ==
  \/ /\ call' = [call EXCEPT ![h].pc = next,
                             ![h].size = LvmSize(pvSize[Vol(h)]),
                             ![h].bytes = pvSize[Vol(h)]]
     /\ UNCHANGED faults
  \/ /\ Fault
     /\ call' = [call EXCEPT ![h].pc = next, ![h].size = -1, ![h].bytes = -1]

\* The PV read by getPvInfo; a failed read yields sizes of zero.
ReadPv(h, next) ==
  \/ /\ call' = [call EXCEPT ![h].pc = next,
                             ![h].size = LvmSize(pvSize[Vol(h)]),
                             ![h].bytes = pvSize[Vol(h)]]
     /\ UNCHANGED faults
  \/ /\ Fault
     /\ call' = [call EXCEPT ![h].pc = next, ![h].size = 0, ![h].bytes = 0]

CreateReadsPv(h) ==
  /\ At(h, "getpv")
  /\ ReadPv(h, "lvcreate")
  /\ UNCHANGED <<isDirect, hostVars>>

\* lvcreate allocates for a linear volume, or for a striped one when
\* createVG counted the physical volumes (local disks only: otherwise the
\* stripe count stays 0), a size above 0 and a name not yet taken.
Creatable(h) ==
  /\ call[h].size > 0
  /\ lv[Vol(h)] = 0
  /\ Context[Vol(h)].lvmType = "striping" => Context[Vol(h)].pvType = "localdisk"

\* The rest of createVolume.  createVG and vgck reject an absent group; an
\* unknown lvmType runs no lvcreate and is still a success.
CreateVolume(h) ==
  /\ At(h, "lvcreate")
  /\ IF \/ Context[Vol(h)].vgName # "present"
        \/ Context[Vol(h)].lvmType # "other" /\ ~Creatable(h)
     THEN Goto(h, "err") /\ UNCHANGED lv
     ELSE /\ Goto(h, "branch")
          /\ lv' = IF Context[Vol(h)].lvmType = "other" THEN lv
                   ELSE [lv EXCEPT ![Vol(h)] = RoundUp(call[h].size)]
  /\ UNCHANGED <<isDirect, fs, data, mnt, rec, dirs, faults>>

\* "if ns.isDirect", read after the device commands have run.
PublishBranch(h) ==
  /\ At(h, "branch")
  /\ Goto(h, IF isDirect THEN "add" ELSE "ismounted")
  /\ UNCHANGED <<isDirect, hostVars, faults>>

AddDirectVolume(h) ==
  /\ At(h, "add")
  /\ rec' = rec \cup {call[h].target}
  /\ Goto(h, "ok")
  /\ UNCHANGED <<isDirect, lv, fs, data, mnt, dirs, faults>>

\* mounter.IsMounted without an error: the line of the target is in /proc/mounts
\* or not, or the grep fails and prints nothing, which reads as "not mounted".
\* A grep that fails and prints something is an error, Fault in the callers.
IsMounted(h, isMnt) ==
  \/ isMnt = (call[h].target \in mnt) /\ UNCHANGED faults
  \/ isMnt = FALSE /\ Fault

\* Mutant of PublishIsMounted: asks for the device instead of the target.
PublishIsMountedDevice(h) ==
  /\ At(h, "ismounted")
  /\ call' = [call EXCEPT ![h].pc = "checkfs",
                          ![h].isMnt = \E t \in mnt : VolumeOf[t] = Vol(h)]
  /\ UNCHANGED <<isDirect, hostVars, faults>>

\* Publish recovers from an error of IsMounted when the target path does not
\* exist, by creating it.  It returns an error when this fails, or os.Stat does
\* for another reason; when the target path exists, it panics, see Panics.
PublishIsMounted(h) ==
  /\ At(h, "ismounted")
  /\ \/ \E isMnt \in BOOLEAN :
          /\ IsMounted(h, isMnt)
          /\ call' = [call EXCEPT ![h].pc = "checkfs", ![h].isMnt = isMnt]
          /\ UNCHANGED dirs
     \/ /\ Fault
        /\ call[h].target \notin dirs
        /\ call' = [call EXCEPT ![h].pc = "checkfs", ![h].isMnt = FALSE]
        /\ dirs' = dirs \cup {call[h].target}
     \/ Fault /\ Goto(h, "err") /\ UNCHANGED dirs
  /\ UNCHANGED <<isDirect, lv, fs, data, mnt, rec>>

\* Where publish goes once the target is mounted, and once the device holds
\* a file system.
AfterMount(h)  == IF call[h].created THEN "ok" ELSE "rgetpv"
AfterFormat(h) == IF call[h].isMnt THEN AfterMount(h) ELSE "mount"

\* Mutant of CheckFsType: formats whatever is not mounted yet.
CheckFsTypeUnmounted(h) ==
  /\ At(h, "checkfs")
  /\ Goto(h, IF lv[Vol(h)] = 0 THEN "err"
             ELSE IF ~call[h].isMnt THEN "mkfs" ELSE AfterFormat(h))
  /\ UNCHANGED <<isDirect, hostVars, faults>>

\* checkFSType; file and blkid fail on a device that is not there.
CheckFsType(h) ==
  /\ At(h, "checkfs")
  /\ Goto(h, IF lv[Vol(h)] = 0 THEN "err"
             ELSE IF fs[Vol(h)] = 0 THEN "mkfs" ELSE AfterFormat(h))
  /\ UNCHANGED <<isDirect, hostVars, faults>>

IsDeviceMounted(v) == \E t \in mnt : VolumeOf[t] = v

\* formatDevice: mkfs refuses a mounted device and overwrites any other.
FormatDevice(h) ==
  /\ At(h, "mkfs")
  /\ IF IsDeviceMounted(Vol(h))
     THEN Goto(h, "err") /\ UNCHANGED <<fs, data>>
     ELSE /\ fs' = [fs EXCEPT ![Vol(h)] = lv[Vol(h)]]
          /\ data' = data \ {Vol(h)}
          /\ Goto(h, AfterFormat(h))
  /\ UNCHANGED <<isDirect, lv, mnt, rec, dirs, faults>>

\* Mutant of Mount: its error is logged and ignored.
MountErrorIgnored(h) ==
  /\ At(h, "mount")
  /\ dirs' = dirs \cup {call[h].target}
  /\ Goto(h, AfterMount(h))
  /\ \/ mnt' = mnt \cup {call[h].target} /\ UNCHANGED faults
     \/ Fault /\ UNCHANGED mnt
  /\ UNCHANGED <<isDirect, lv, fs, data, rec>>

\* mounter.Mount creates the target path, then mounts; the kernel refuses to
\* mount a device where it already is.
Mount(h) ==
  /\ At(h, "mount")
  /\ dirs' = dirs \cup {call[h].target}
  /\ \/ /\ Goto(h, IF call[h].target \in mnt THEN "err" ELSE AfterMount(h))
        /\ mnt' = mnt \cup {call[h].target}
        /\ UNCHANGED faults
     \/ Fault /\ Goto(h, "err") /\ UNCHANGED mnt
  /\ UNCHANGED <<isDirect, lv, fs, data, rec>>

-----------------------------------------------------------------------------
(***************************************************************************)
(* resizeVolume, called by publish on an existing volume and by expand.    *)
(***************************************************************************)
ResizeReadsPv(h) ==
  /\ At(h, "rgetpv")
  /\ ReadPv(h, "lvdisplay")
  /\ UNCHANGED <<isDirect, hostVars>>

\* lvdisplay prints no size: there is no device, or expand looks it up in the
\* group the PV's annotation names.
DeviceMissing(h) ==
  lv[Vol(h)] = 0 \/ (call[h].op = "expand" /\ Context[Vol(h)].pvVG = "other")

\* Mutant of LvDisplay: extends a volume that has the size already.
LvDisplayOffByOne(h) ==
  /\ At(h, "lvdisplay")
  /\ Goto(h, IF DeviceMissing(h) THEN "err"
             ELSE IF lv[Vol(h)] > call[h].bytes THEN "ok" ELSE "lvextend")
  /\ UNCHANGED <<isDirect, hostVars, faults>>

\* lvdisplay, and "if sizeInt >= pvSizeByte, return nil".
LvDisplay(h) ==
  /\ At(h, "lvdisplay")
  /\ Goto(h, IF DeviceMissing(h) THEN "err"
             ELSE IF lv[Vol(h)] >= call[h].bytes THEN "ok" ELSE "lvextend")
  /\ UNCHANGED <<isDirect, hostVars, faults>>

\* Mutant of LvExtend: lvresize, which also shrinks.
LvExtendResizes(h) ==
  /\ At(h, "lvextend")
  /\ lv' = [lv EXCEPT ![Vol(h)] = RoundUp(call[h].size)]
  /\ Goto(h, "resizefs")
  /\ UNCHANGED <<isDirect, fs, data, mnt, rec, dirs, faults>>

\* Mutant of LvExtend: returns without growing the file system.
LvExtendOnly(h) ==
  /\ At(h, "lvextend")
  /\ IF RoundUp(call[h].size) > lv[Vol(h)]
     THEN lv' = [lv EXCEPT ![Vol(h)] = RoundUp(call[h].size)] /\ Goto(h, "ok")
     ELSE Goto(h, "err") /\ UNCHANGED lv
  /\ UNCHANGED <<isDirect, fs, data, mnt, rec, dirs, faults>>

\* lvextend only grows: it fails unless the new size is larger.
LvExtend(h) ==
  /\ At(h, "lvextend")
  /\ IF RoundUp(call[h].size) > lv[Vol(h)]
     THEN /\ lv' = [lv EXCEPT ![Vol(h)] = RoundUp(call[h].size)]
          /\ Goto(h, "resizefs")
     ELSE Goto(h, "err") /\ UNCHANGED lv
  /\ UNCHANGED <<isDirect, fs, data, mnt, rec, dirs, faults>>

\* ResizeFS grows the file system to its device; that there is none is not ok.
ResizeFs(h) ==
  /\ At(h, "resizefs")
  /\ IF fs[Vol(h)] = 0
     THEN Goto(h, "err") /\ UNCHANGED fs
     ELSE fs' = [fs EXCEPT ![Vol(h)] = lv[Vol(h)]] /\ Goto(h, "ok")
  /\ UNCHANGED <<isDirect, lv, data, mnt, rec, dirs, faults>>

-----------------------------------------------------------------------------
(***************************************************************************)
(* NodeExpandVolume.                                                       *)
(***************************************************************************)
\* "if ns.isDirect" skips the whole expansion and reports success.
ExpandBranch(h) ==
  /\ At(h, "xbranch")
  /\ Goto(h, IF isDirect THEN "ok" ELSE "xgetpv")
  /\ UNCHANGED <<isDirect, hostVars, faults>>

\* The PV is read a first time, for its volume group.
ExpandReadsPv(h) ==
  /\ At(h, "xgetpv")
  /\ Goto(h, "rgetpv")
  /\ UNCHANGED <<isDirect, hostVars, faults>>

-----------------------------------------------------------------------------
(***************************************************************************)
(* NodeUnpublishVolume.                                                    *)
(***************************************************************************)
UnpublishBranch(h) ==
  /\ At(h, "ubranch")
  /\ Goto(h, IF isDirect THEN "remove" ELSE "uismounted")
  /\ UNCHANGED <<isDirect, hostVars, faults>>

\* Mutant of RemoveDirectVolume: returns instead of falling through.
RemoveDirectVolumeReturns(h) ==
  /\ At(h, "remove")
  /\ Goto(h, "ok")
  /\ rec' = rec \ {call[h].target}
  /\ UNCHANGED <<isDirect, lv, fs, data, mnt, dirs, faults>>

\* volume.Remove; its error is logged and ignored.
RemoveDirectVolume(h) ==
  /\ At(h, "remove")
  /\ Goto(h, "uismounted")
  /\ \/ rec' = rec \ {call[h].target} /\ UNCHANGED faults
     \/ Fault /\ UNCHANGED rec
  /\ UNCHANGED <<isDirect, lv, fs, data, mnt, dirs>>

\* Mutant of UnpublishIsMounted: "not mounted" is an error.
UnpublishIsMountedStrict(h) ==
  /\ At(h, "uismounted")
  /\ Goto(h, IF call[h].target \in mnt THEN "umount" ELSE "err")
  /\ UNCHANGED <<isDirect, hostVars, faults>>

UnpublishIsMounted(h) ==
  /\ At(h, "uismounted")
  /\ \/ \E isMnt \in BOOLEAN :
          IsMounted(h, isMnt) /\ Goto(h, IF isMnt THEN "umount" ELSE "ok")
     \/ Fault /\ Goto(h, "err")
  /\ UNCHANGED <<isDirect, hostVars>>

\* mounter.Unmount: umount fails when nothing is mounted any more.
Unmount(h) ==
  /\ At(h, "umount")
  /\ Goto(h, IF call[h].target \in mnt THEN "ok" ELSE "err")
  /\ mnt' = mnt \ {call[h].target}
  /\ UNCHANGED <<isDirect, lv, fs, data, rec, dirs, faults>>

-----------------------------------------------------------------------------
HandlerStep(h) ==
  /\ \/ Reset(h) \/ ParseDirect(h) \/ StatDevice(h) \/ CreateReadsPv(h)
     \/ CreateVolume(h) \/ PublishBranch(h) \/ AddDirectVolume(h)
     \/ PublishIsMounted(h) \/ CheckFsType(h) \/ FormatDevice(h) \/ Mount(h)
     \/ ResizeReadsPv(h) \/ LvDisplay(h) \/ LvExtend(h) \/ ResizeFs(h)
     \/ ExpandBranch(h) \/ ExpandReadsPv(h)
     \/ UnpublishBranch(h) \/ RemoveDirectVolume(h) \/ UnpublishIsMounted(h)
     \/ Unmount(h)
     \/ CommandFails(h)
  /\ UNCHANGED <<pvSize, kubeletVars, crashes, timeouts>>

\* A new process: NewNodeServer, no request in progress, isDirect false.
Restart ==
  /\ isDirect' = FALSE
  /\ call' = [h \in Handlers |-> Idle]
  /\ UNCHANGED <<pvSize, hostVars, kubeletVars, timeouts>>

Crash == crashes < MaxCrashes /\ crashes' = crashes + 1 /\ Restart /\ UNCHANGED faults

\* A panic ends the process.  When expand's first PV read fails, getPvInfo
\* returns a nil PV, and GetVGNameFromCsiPV reads pv.Name.  When publish's
\* IsMounted fails and the target path exists, the error that is formatted is
\* not that of IsMounted but the nil one of os.Stat, which hides it.
Panics(h) ==
  /\ At(h, "xgetpv") \/ (At(h, "ismounted") /\ call[h].target \in dirs)
  /\ Fault /\ Restart /\ UNCHANGED crashes

-----------------------------------------------------------------------------
(***************************************************************************)
(* Kubelet and the control plane (external).                               *)
(***************************************************************************)
\* Kubelet waits for one call per volume; only the unpublish calls of
\* different pods may overlap.
MayCall(op, t) ==
  \A h \in Handlers :
    call[h].awaited /\ VolumeOf[call[h].target] = VolumeOf[t] =>
      op = "unpublish" /\ call[h].op = "unpublish" /\ call[h].target # t

Request(h, op, t, entry, want) ==
  /\ At(h, "idle")
  /\ MayCall(op, t)
  /\ call' = [call EXCEPT ![h] = [Idle EXCEPT !.pc = entry, !.op = op, !.target = t,
                                              !.awaited = TRUE, !.want = want]]
  /\ UNCHANGED <<isDirect, pvSize, hostVars, kubeletVars, boundVars>>

CallPublish(h, t) == phase[t] = "starting" /\ Request(h, "publish", t, "reset", 0)

CallUnpublish(h, t) == phase[t] = "stopping" /\ Request(h, "unpublish", t, "ubranch", 0)

CallExpand(h, t) ==
  /\ phase[t] = "running"
  /\ expanded[VolumeOf[t]] < pvSize[VolumeOf[t]]
  /\ Request(h, "expand", t, "xbranch", pvSize[VolumeOf[t]])

\* Kubelet acts on the response to a call it still waits for.
Accepted(h, op) == call[h].awaited /\ At(h, "ok") /\ call[h].op = op

\* The handler returns.
Respond(h) ==
  /\ call[h].pc \in {"ok", "err"}
  /\ phase' = [phase EXCEPT ![call[h].target] =
       IF @ = "starting" /\ Accepted(h, "publish") THEN "running"
       ELSE IF Accepted(h, "unpublish") THEN "gone" ELSE @]
  /\ expanded' = [expanded EXCEPT ![Vol(h)] =
                    IF Accepted(h, "expand") THEN call[h].want ELSE @]
  /\ call' = [call EXCEPT ![h] = Idle]
  /\ UNCHANGED <<isDirect, pvSize, hostVars, boundVars>>

\* Kubelet's deadline passes; the handler, which never looks at its context,
\* goes on.
GiveUp(h) ==
  /\ call[h].awaited
  /\ timeouts < MaxTimeouts
  /\ timeouts' = timeouts + 1
  /\ call' = [call EXCEPT ![h].awaited = FALSE]
  /\ UNCHANGED <<isDirect, pvSize, hostVars, kubeletVars, faults, crashes>>

StopPod(t) ==
  /\ phase[t] \in {"starting", "running"}
  /\ phase' = [phase EXCEPT ![t] = "stopping"]
  /\ UNCHANGED <<handlerVars, pvSize, hostVars, expanded, boundVars>>

PodWrites(t) ==
  /\ phase[t] = "running" /\ t \in mnt
  /\ data' = data \cup {VolumeOf[t]}
  /\ UNCHANGED <<handlerVars, pvSize, lv, fs, mnt, rec, dirs, kubeletVars, boundVars>>

\* ControllerExpandVolume accepts every size; the resizer then updates the PV.
GrowPv(v) ==
  /\ \E s \in GrownSizes : s > pvSize[v] /\ pvSize' = [pvSize EXCEPT ![v] = s]
  /\ UNCHANGED <<handlerVars, hostVars, kubeletVars, boundVars>>

Next ==
  \/ \E h \in Handlers : HandlerStep(h) \/ Panics(h) \/ Respond(h) \/ GiveUp(h)
  \/ \E h \in Handlers, t \in Targets :
       CallPublish(h, t) \/ CallUnpublish(h, t) \/ CallExpand(h, t)
  \/ \E t \in Targets : StopPod(t) \/ PodWrites(t)
  \/ \E v \in Volumes : GrowPv(v)
  \/ Crash

Spec == Init /\ [][Next]_vars

\* A goroutine that can run does run, and kubelet repeats every call it still
\* owes until it succeeds.
Fairness ==
  /\ \A h \in Handlers : WF_vars(HandlerStep(h)) /\ WF_vars(Respond(h))
  /\ \A t \in Targets :
       /\ SF_vars(\E h \in Handlers : CallPublish(h, t))
       /\ SF_vars(\E h \in Handlers : CallUnpublish(h, t))
       /\ SF_vars(\E h \in Handlers : CallExpand(h, t))

FairSpec == Spec /\ Fairness
-----------------------------------------------------------------------------
(***************************************************************************)
(* Properties.                                                             *)
(***************************************************************************)
\* Every variable keeps its type; sizes never become negative.
TypeOK ==
  /\ isDirect \in BOOLEAN
  /\ call \in [Handlers -> Calls]
  /\ pvSize \in [Volumes -> Nat]
  /\ lv \in [Volumes -> Nat]
  /\ fs \in [Volumes -> Nat]
  /\ data \subseteq Volumes
  /\ mnt \subseteq Targets
  /\ rec \subseteq Targets
  /\ dirs \subseteq Targets
  /\ phase \in [Targets -> Phases]
  /\ expanded \in [Volumes -> Nat]
  /\ faults \in Nat /\ crashes \in Nat /\ timeouts \in Nat

\* What a pod can use: a mount, or a record from which kata attaches the
\* device to the guest.
Attached == mnt \cup rec

Direct(v) == Context[v].direct = "true"

\* A file system never outgrows its device, and only formatted devices are
\* mounted: resizeVolume uses sizes read several commands earlier, while other
\* goroutines may be resizing the same volume.
FilesystemFitsDevice ==
  /\ \A v \in Volumes : fs[v] <= lv[v]
  /\ \A t \in mnt : fs[VolumeOf[t]] > 0

\* A pod that runs has its volume, mounted or as a direct-volume record,
\* however publish, unpublish, expand, retries and restarts interleave.
PublishedSomewhere == \A t \in Targets : phase[t] = "running" => t \in Attached

\* The volume reaches the pod the way the storage class asked for: as a record
\* for kata when it is direct, as a mount otherwise.
RunningPodHasItsVolume ==
  \A t \in Targets : phase[t] = "running" =>
    IF Direct(VolumeOf[t]) THEN t \in rec ELSE t \in mnt

\* As long as no command failed, what a pod is given is backed by a device:
\* publish succeeds only after createVolume made one or os.Stat found one.
PublishedDeviceExists == faults = 0 => \A t \in Attached : lv[VolumeOf[t]] > 0

\* As long as no command failed and kubelet waited for every call, nothing is
\* mounted at a path once NodeUnpublishVolume has succeeded.
NoLeakedMount ==
  faults = 0 /\ timeouts = 0 => \A t \in Targets : phase[t] = "gone" => t \notin mnt

\* No step of the driver destroys what a pod has written: formatDevice runs
\* on blank devices only.
DataSurvives == [][data \subseteq data']_vars

\* As long as no command failed and the driver was not restarted, a running
\* pod's file system is at least as large as the capacity reported for it, by
\* the PV at creation or by a successful expansion, or a goroutine is about to
\* grow it: a retry may report success while the call kubelet gave up on is
\* still between lvextend and the resize.
CapacityHonoured ==
  faults = 0 /\ crashes = 0 =>
    \A t \in Targets :
      phase[t] = "running" /\ t \in mnt =>
        \/ fs[VolumeOf[t]] >= expanded[VolumeOf[t]]
        \/ \E h \in Handlers : At(h, "resizefs") /\ Vol(h) = VolumeOf[t]

\* Every pod with a usable volume gets out of "starting": publish can be
\* repeated from wherever a failure or a restart has left the volume.
PodsStart ==
  \A t \in Targets :
    phase[t] = "starting" /\ Context[VolumeOf[t]].vgName = "present"
      ~> phase[t] # "starting"

\* Every stopped pod's volume is eventually unpublished.
PodsLeave == \A t \in Targets : phase[t] = "stopping" ~> phase[t] = "gone"

\* An expansion requested for a running pod eventually succeeds, when the PV's
\* annotation names the group the volume is in.
ExpansionsFinish ==
  \A t \in Targets :
    (phase[t] = "running" /\ expanded[VolumeOf[t]] < pvSize[VolumeOf[t]]
       /\ Context[VolumeOf[t]].pvVG = "same")
      ~> phase[t] # "running" \/ expanded[VolumeOf[t]] = pvSize[VolumeOf[t]]

\* The node service implements the promise to pods: every step attaches,
\* detaches, starts or stops as PublishedVolumes allows, or is hidden from it.
Promise == INSTANCE PublishedVolumes WITH attached <- Attached
ImplementsPromise == Promise!Spec

=============================================================================
