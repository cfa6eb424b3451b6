------------------------------ MODULE StorageOM ------------------------------
(***************************************************************************)
(* The maintenance loop of the driver (pkg/om).  Every ten seconds it      *)
(* reads the last lines of /var/log/messages and repairs what kubelet      *)
(* complains of there: volumes left behind by orphaned pods, and links to  *)
(* block devices left behind by other pods.  It runs beside kubelet, which *)
(* mounts, unmounts and removes the same files, so each step below is one  *)
(* file-system operation.                                                  *)
(***************************************************************************)
EXTENDS Naturals, Sequences

CONSTANTS
  Pods,                 \* pod UIDs
  Vols,                 \* volume names below a pod's kubernetes.io~csi
  Links,                \* link files of block volumes, one per pod
  BlockLinks,           \* those below volumeDevices/, see isFileBlockLink
  IssueBlockReference,  \* the switches that GlobalConfigSet reads
  IssueOrphanedPod,
  TailLines,            \* MessageFileTailLines
  MaxFaults,            \* bound: file-system operations that fail
  MaxCrashes,           \* bound: restarts of the driver process
  MaxNoise              \* bound: lines in the log about something else

ASSUME SwitchesAssumption ==
  /\ BlockLinks \subseteq Links
  /\ IssueBlockReference \in BOOLEAN /\ IssueOrphanedPod \in BOOLEAN
  /\ TailLines \in Nat
  /\ MaxFaults \in Nat /\ MaxCrashes \in Nat /\ MaxNoise \in Nat

VARIABLES
  log,      \* the last TailLines lines of the message file
  pod,      \* kubelet: life of a pod
  csi,      \* volume directories of a pod
  mdir,     \* <<pod, volume>> whose "mount" directory exists
  mounted,  \* <<pod, volume>> with something mounted there
  json,     \* <<pod, volume>> whose vol_data.json exists
  links,    \* link files that exist
  inUse,    \* link files whose pod has the device mounted
  om,       \* the maintenance goroutine
  fixed,    \* FixedPodList
  faults, crashes, noise

files   == <<csi, mdir, mounted, json>>
devices == <<links, inUse>>
bounds  == <<faults, crashes, noise>>
vars == <<log, pod, files, devices, om, fixed, bounds>>

Lines == [kind : {"orphan"}, uid : Pods] \cup
         [kind : {"reference"}, refs : SUBSET Links] \cup
         [kind : {"other"}]

PodStates == {"new", "live", "orphan", "gone"}

PC == {"sleep", "line", "volumes", "unmount", "rmdir", "json", "dir", "links", "rm"}

\* uid, vol and file hold at most one element: what the loops work on.
Goroutine == [pc : PC, lines : Seq(Lines), uid : SUBSET Pods, vol : SUBSET Vols,
              vols : SUBSET Vols, file : SUBSET Links, refs : SUBSET Links]

Asleep == [pc |-> "sleep", lines |-> <<>>, uid |-> {}, vol |-> {}, vols |-> {},
           file |-> {}, refs |-> {}]

Init ==
  /\ log = <<>>
  /\ pod = [p \in Pods |-> "new"]
  /\ csi = [p \in Pods |-> {}]
  /\ mdir = {} /\ mounted = {} /\ json = {}
  /\ links = {} /\ inUse = {}
  /\ om = Asleep
  /\ fixed = {}
  /\ faults = 0 /\ crashes = 0 /\ noise = 0

-----------------------------------------------------------------------------
Fault == faults < MaxFaults /\ faults' = faults + 1

At(p) == om.pc = p

Goto(p) == om' = [om EXCEPT !.pc = p]

\* On to the next volume, link or line.
NextVolume == om' = [om EXCEPT !.pc = "volumes", !.vol = {}]
NextLink   == om' = [om EXCEPT !.pc = "links", !.file = {}]
NextLine   == om' = [Asleep EXCEPT !.pc = "line", !.lines = Tail(om.lines)]

\* <<pod, volume>> at hand.
Here == om.uid \X om.vol

(***************************************************************************)
(* StorageOM and CheckMessageFileIssue.                                    *)
(***************************************************************************)
\* The tail of the log is read once and worked through; IssueBlockReference
\* alone decides whether it is read at all.
ReadLog ==
  /\ At("sleep")
  /\ IssueBlockReference
  /\ log # <<>>
  /\ om' = [om EXCEPT !.pc = "line", !.lines = log]
  /\ UNCHANGED <<files, links, fixed, faults>>

EndOfLines ==
  /\ At("line")
  /\ om.lines = <<>>
  /\ om' = Asleep
  /\ UNCHANGED <<files, links, fixed, faults>>

IsKind(kind) == At("line") /\ om.lines # <<>> /\ Head(om.lines).kind = kind

\* Kinds of lines nothing is done about.
Ignored == IF IssueOrphanedPod THEN {"other"} ELSE {"other", "orphan"}

SkipLine ==
  /\ \E kind \in Ignored : IsKind(kind)
  /\ NextLine
  /\ UNCHANGED <<files, links, fixed, faults>>

-----------------------------------------------------------------------------
(***************************************************************************)
(* FixOrphanedPodIssue.                                                    *)
(***************************************************************************)
\* Mutant of OrphanLine: the pod counts as fixed once it has been looked at.
OrphanLineFixesEarly ==
  /\ IsKind("orphan") /\ IssueOrphanedPod
  /\ LET p == Head(om.lines).uid IN
       IF p \in fixed \/ pod[p] = "gone" \/ csi[p] = {}
       THEN NextLine /\ UNCHANGED fixed
       ELSE /\ fixed' = fixed \cup {p}
            /\ om' = [om EXCEPT !.pc = "volumes", !.uid = {p}, !.vols = csi[p]]
  /\ UNCHANGED <<files, links, faults>>

\* Mutant of OrphanLine: FixedPodList is filled with lines.
OrphanLineStoresLine ==
  /\ IsKind("orphan") /\ IssueOrphanedPod
  /\ LET p == Head(om.lines).uid IN
       IF p \in fixed \/ csi[p] = {}
       THEN NextLine /\ fixed' = fixed \cup {Head(om.lines)}
       ELSE /\ om' = [om EXCEPT !.pc = "volumes", !.uid = {p}, !.vols = csi[p]]
            /\ UNCHANGED fixed
  /\ UNCHANGED <<files, links, faults>>

\* Mutant of OrphanLine: whatever pod has volumes is repaired.
OrphanLineAnyPod ==
  /\ IsKind("orphan") /\ IssueOrphanedPod
  /\ \E p \in Pods :
       /\ csi[p] # {}
       /\ om' = [om EXCEPT !.pc = "volumes", !.uid = {p}, !.vols = csi[p]]
  /\ UNCHANGED <<files, links, fixed, faults>>

\* A pod already fixed, or whose directory cannot be listed, is skipped; one
\* with no volumes left is remembered as fixed.
OrphanLine ==
  /\ IsKind("orphan") /\ IssueOrphanedPod
  /\ LET p == Head(om.lines).uid IN
       \/ /\ p \in fixed \/ pod[p] = "gone"
          /\ NextLine
          /\ UNCHANGED <<fixed, faults>>
       \/ Fault /\ NextLine /\ UNCHANGED fixed
       \/ /\ p \notin fixed /\ pod[p] # "gone" /\ csi[p] = {}
          /\ fixed' = fixed \cup {p}
          /\ NextLine
          /\ UNCHANGED faults
       \/ /\ p \notin fixed /\ csi[p] # {}
          /\ om' = [om EXCEPT !.pc = "volumes", !.uid = {p}, !.vols = csi[p]]
          /\ UNCHANGED <<fixed, faults>>
  /\ UNCHANGED <<files, links>>

\* Of the "mount" directory of a volume.
IsFileExisting(v) == om.uid \X {v} \subseteq mdir

\* Mutant of PickVolume: a volume without a mount directory is skipped.
PickVolumeSkips ==
  /\ At("volumes")
  /\ \/ om.vols = {} /\ NextLine
     \/ \E v \in om.vols :
          om' = [om EXCEPT !.vol = {v}, !.vols = @ \ {v},
                   !.pc = IF om.uid \X {v} \subseteq mounted THEN "unmount"
                          ELSE IF IsFileExisting(v) THEN "rmdir" ELSE "volumes"]
  /\ UNCHANGED <<files, links, fixed, faults>>

\* The next volume of the listing.  CleanupMountPoint is called when the mount
\* directory exists and begins by asking whether something is mounted there.
PickVolume ==
  /\ At("volumes")
  /\ \/ om.vols = {} /\ NextLine
     \/ \E v \in om.vols :
          om' = [om EXCEPT !.vol = {v}, !.vols = @ \ {v},
                   !.pc = IF om.uid \X {v} \subseteq mounted THEN "unmount"
                          ELSE IF IsFileExisting(v) THEN "rmdir" ELSE "json"]
  /\ UNCHANGED <<files, links, fixed, faults>>

\* Mutant of UnmountVolume: its error does not end the work on the volume.
UnmountVolumeGoesOn ==
  /\ At("unmount")
  /\ \/ mounted' = mounted \ Here /\ UNCHANGED faults
     \/ Fault /\ UNCHANGED mounted
  /\ Goto(IF Here \cap mounted' = {} THEN "rmdir" ELSE "json")
  /\ UNCHANGED <<csi, mdir, json, links, fixed>>

\* umount fails on its own account, or because kubelet was faster.
UnmountVolume ==
  /\ At("unmount")
  /\ \/ /\ Here \subseteq mounted
        /\ mounted' = mounted \ Here
        /\ Goto("rmdir")
        /\ UNCHANGED faults
     \/ Here \cap mounted = {} /\ NextVolume /\ UNCHANGED <<mounted, faults>>
     \/ Fault /\ NextVolume /\ UNCHANGED mounted
  /\ UNCHANGED <<csi, mdir, json, links, fixed>>

\* os.Remove of the mount directory.
RemoveMountDir ==
  /\ At("rmdir")
  /\ \/ /\ Here \subseteq mdir \ mounted
        /\ mdir' = mdir \ Here
        /\ Goto("json")
        /\ UNCHANGED faults
     \/ ~(Here \subseteq mdir \ mounted) /\ NextVolume /\ UNCHANGED <<mdir, faults>>
     \/ Fault /\ NextVolume /\ UNCHANGED mdir
  /\ UNCHANGED <<csi, mounted, json, links, fixed>>

RemoveJson ==
  /\ At("json")
  /\ Goto("dir")
  /\ \/ json' = json \ Here /\ UNCHANGED faults
     \/ Fault /\ UNCHANGED json
  /\ UNCHANGED <<csi, mdir, mounted, links, fixed>>

\* Of the directory of the volume at hand.
IsDirEmpty == Here \cap (mdir \cup json) = {}

\* The volume directory goes when nothing is left in it.
RemoveVolumeDir ==
  /\ At("dir")
  /\ NextVolume
  /\ \/ /\ csi' = [p \in Pods |-> IF p \in om.uid /\ IsDirEmpty
                                  THEN csi[p] \ om.vol ELSE csi[p]]
        /\ UNCHANGED faults
     \/ Fault /\ UNCHANGED csi
  /\ UNCHANGED <<mdir, mounted, json, links, fixed>>

-----------------------------------------------------------------------------
(***************************************************************************)
(* FixReferenceMountIssue.                                                 *)
(***************************************************************************)
ReferenceLine ==
  /\ IsKind("reference")
  /\ om' = [om EXCEPT !.pc = "links", !.refs = Head(om.lines).refs]
  /\ UNCHANGED <<files, links, fixed, faults>>

\* isFileBlockLink, isFileRemovable: a failing grep counts as "not mounted".
CheckLink ==
  /\ At("links")
  /\ \/ om.refs = {} /\ NextLine /\ UNCHANGED faults
     \/ \E f \in om.refs :
          /\ \/ /\ om' = [om EXCEPT !.file = {f}, !.refs = @ \ {f},
                            !.pc = IF f \in (links \cap BlockLinks) \ inUse
                                   THEN "rm" ELSE "links"]
                /\ UNCHANGED faults
             \/ /\ f \in links \cap BlockLinks
                /\ Fault
                /\ om' = [om EXCEPT !.file = {f}, !.refs = @ \ {f}, !.pc = "rm"]
  /\ UNCHANGED <<files, links, fixed>>

RemoveLink ==
  /\ At("rm")
  /\ NextLink
  /\ \/ links' = links \ om.file /\ UNCHANGED faults
     \/ Fault /\ UNCHANGED links
  /\ UNCHANGED <<files, fixed>>

OmStep ==
  /\ \/ ReadLog \/ EndOfLines \/ SkipLine
     \/ OrphanLine \/ PickVolume \/ UnmountVolume \/ RemoveMountDir \/ RemoveJson
     \/ RemoveVolumeDir
     \/ ReferenceLine \/ CheckLink \/ RemoveLink
  /\ UNCHANGED <<log, pod, inUse, crashes, noise>>

\* The driver restarts: FixedPodList is kept in memory only.
Crash ==
  /\ crashes < MaxCrashes
  /\ crashes' = crashes + 1
  /\ om' = Asleep
  /\ fixed' = {}
  /\ UNCHANGED <<log, pod, files, devices, faults, noise>>

-----------------------------------------------------------------------------
(***************************************************************************)
(* Kubelet (external).                                                     *)
(***************************************************************************)
\* A line is appended; a repetition of a line still in the window changes
\* nothing that is read and is left out.
Log(line) ==
  /\ \A i \in 1..Len(log) : log[i] # line
  /\ log' = LET l == Append(log, line) IN
              IF Len(l) > TailLines THEN Tail(l) ELSE l

\* SetUpAt: directory and vol_data.json first, then NodePublishVolume.
StartPod(p) ==
  /\ pod[p] = "new"
  /\ pod' = [pod EXCEPT ![p] = "live"]
  /\ \E vs \in SUBSET Vols \ {{}} :
       csi' = [csi EXCEPT ![p] = vs] /\ json' = json \cup ({p} \X vs)
  /\ UNCHANGED <<log, mdir, mounted, devices, om, fixed, bounds>>

Publish(p, v) ==
  /\ pod[p] = "live" /\ v \in csi[p] /\ <<p, v>> \notin mounted
  /\ mdir' = mdir \cup {<<p, v>>}
  /\ mounted' = mounted \cup {<<p, v>>}
  /\ UNCHANGED <<log, pod, csi, json, devices, om, fixed, bounds>>

\* The pod is deleted while kubelet does not know of its volumes.
OrphanPod(p) ==
  /\ pod[p] = "live"
  /\ pod' = [pod EXCEPT ![p] = "orphan"]
  /\ UNCHANGED <<log, files, devices, om, fixed, bounds>>

LogOrphan(p) ==
  /\ pod[p] = "orphan" /\ csi[p] # {}
  /\ Log([kind |-> "orphan", uid |-> p])
  /\ UNCHANGED <<pod, files, devices, om, fixed, bounds>>

\* A kubelet that has rediscovered the volume unpublishes and removes it.
TearDown(p, v) ==
  /\ pod[p] = "orphan" /\ v \in csi[p]
  /\ IF <<p, v>> \in mounted
     THEN mounted' = mounted \ {<<p, v>>} /\ UNCHANGED <<csi, mdir, json>>
     ELSE /\ mdir' = mdir \ {<<p, v>>} /\ json' = json \ {<<p, v>>}
          /\ csi' = [csi EXCEPT ![p] = @ \ {v}]
          /\ UNCHANGED mounted
  /\ UNCHANGED <<log, pod, devices, om, fixed, bounds>>

RemovePodDir(p) ==
  /\ pod[p] = "orphan" /\ csi[p] = {}
  /\ pod' = [pod EXCEPT ![p] = "gone"]
  /\ UNCHANGED <<log, files, devices, om, fixed, bounds>>

\* A block volume: link, mount, unmount; the link of a pod that is stopped
\* may stay.
MapLink(f) ==
  /\ \/ f \notin links /\ f \notin inUse /\ links' = links \cup {f} /\ UNCHANGED inUse
     \/ f \in links /\ f \notin inUse /\ inUse' = inUse \cup {f} /\ UNCHANGED links
     \/ f \in inUse /\ inUse' = inUse \ {f} /\ UNCHANGED links
  /\ UNCHANGED <<log, pod, files, om, fixed, bounds>>

LogReference ==
  /\ \E fs \in SUBSET links \ {{}} : Log([kind |-> "reference", refs |-> fs])
  /\ UNCHANGED <<pod, files, devices, om, fixed, bounds>>

LogOther ==
  /\ noise < MaxNoise
  /\ noise' = noise + 1
  /\ Log([kind |-> "other"])
  /\ UNCHANGED <<pod, files, devices, om, fixed, faults, crashes>>

Kubelet ==
  \/ \E p \in Pods : StartPod(p) \/ OrphanPod(p) \/ LogOrphan(p) \/ RemovePodDir(p)
  \/ \E p \in Pods, v \in Vols : Publish(p, v) \/ TearDown(p, v)
  \/ \E f \in Links : MapLink(f)
  \/ LogReference \/ LogOther

Next == OmStep \/ Crash \/ Kubelet

Spec == Init /\ [][Next]_vars

\* The loop goes on, kubelet keeps complaining about an orphan while it has
\* volumes, and removes its directory once it has none.
FairSpec ==
  /\ Spec
  /\ WF_vars(OmStep)
  /\ \A p \in Pods : WF_vars(LogOrphan(p)) /\ WF_vars(RemovePodDir(p))

-----------------------------------------------------------------------------
(***************************************************************************)
(* Properties.                                                             *)
(***************************************************************************)
\* Every variable keeps its type; the goroutine works on one thing at a time.
TypeOK ==
  /\ log \in Seq(Lines) /\ Len(log) <= TailLines
  /\ pod \in [Pods -> PodStates]
  /\ csi \in [Pods -> SUBSET Vols]
  /\ mdir \subseteq Pods \X Vols
  /\ mounted \subseteq Pods \X Vols
  /\ json \subseteq Pods \X Vols
  /\ links \subseteq Links
  /\ inUse \subseteq Links
  /\ om \in Goroutine
  /\ fixed \subseteq Pods
  /\ faults \in Nat /\ crashes \in Nat /\ noise \in Nat

\* vol_data.json, from which kubelet learns how to unpublish a volume, is there
\* as long as the volume is mounted: FixOrphanedPodIssue removes it only after
\* CleanupMountPoint succeeded, whatever kubelet does in between.
JsonKeptWhileMounted == mounted \subseteq json

\* A pod in FixedPodList, which is never looked at again, has no volume left.
FixedAreClean == \A p \in fixed : csi[p] = {}

\* Every orphaned pod is eventually rid of its volumes.
OrphansLeave == \A p \in Pods : pod[p] = "orphan" ~> pod[p] = "gone"

=============================================================================
