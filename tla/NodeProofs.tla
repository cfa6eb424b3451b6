----------------------------- MODULE NodeProofs -----------------------------
(***************************************************************************)
(* Theorems about Node, for any goroutines, pods, volumes and bounds.  The *)
(* node service and the maintenance loop share files without a lock.  What *)
(* keeps them apart is the life of a pod: the loop works on pods kubelet   *)
(* complained about, these are stopped, and a stopped pod stays so.        *)
(***************************************************************************)
EXTENDS Node, SerialProofs

\* The loop of Node, with what is proved of it.
OMP == INSTANCE StorageOMProofs WITH
  Vols <- Volumes, Links <- {}, BlockLinks <- {},
  IssueBlockReference <- TRUE, IssueOrphanedPod <- TRUE, MaxNoise <- 0,
  mounted <- mnt, mdir <- dirs

\* All that is said of the loop alone.
LoopSound == OMP!TypeOK /\ OMP!OnlyStopped /\ OMP!Working

\* A stopped pod uses none of its volumes.
Leaving == \A t \in Targets : t[1] \in OMP!Stopped => ~InUse(t)

\* While kubelet waits for its calls, publish works for live pods only, ...
PublishingIsLive ==
  \A h \in Handlers : Busy(h) /\ call[h].op = "publish" =>
    pod[call[h].target[1]] = "live" /\ phase[call[h].target] # "gone"

\* ... and these keep their files until the volume is unpublished.
LiveHasFiles ==
  \A t \in Targets : pod[t[1]] = "live" /\ phase[t] # "gone" =>
    t \in json /\ t[2] \in csi[t[1]]

\* The invariant of the node as long as kubelet waits for every call.
Quiet == Serial /\ PublishingIsLive /\ LiveHasFiles /\ OMP!IInv

NodeInv ==
  /\ TypeOK /\ CallsOK /\ Custody
  /\ LoopSound /\ Leaving
  /\ timeouts = 0 => Quiet

-----------------------------------------------------------------------------
LEMMA LoopAssumptions == OMP!SwitchesAssumption
  BY ConstantsAssumption, TargetsAssumption DEF OMP!SwitchesAssumption

\* The loop that runs is the loop the facts are about.
LEMMA LoopStep == OM!OmStep => OMP!OmStep
  BY Zenon DEF OM!OmStep, OM!ReadLog, OM!EndOfLines, OM!SkipLine, OM!OrphanLine,
       OM!PickVolume, OM!UnmountVolume, OM!RemoveMountDir, OM!RemoveJson,
       OM!RemoveVolumeDir, OM!ReferenceLine, OM!CheckLink, OM!RemoveLink, OM!At, OM!Goto,
       OM!NextVolume, OM!NextLink, OM!NextLine, OM!Here, OM!IsKind, OM!Ignored,
       OM!IsFileExisting, OM!IsDirEmpty, OM!files, OM!Fault, OM!Asleep,
       OMP!OmStep, OMP!ReadLog, OMP!EndOfLines, OMP!SkipLine, OMP!OrphanLine,
       OMP!PickVolume, OMP!UnmountVolume, OMP!RemoveMountDir, OMP!RemoveJson,
       OMP!RemoveVolumeDir, OMP!ReferenceLine, OMP!CheckLink, OMP!RemoveLink, OMP!At,
       OMP!Goto, OMP!NextVolume, OMP!NextLink, OMP!NextLine, OMP!Here, OMP!IsKind,
       OMP!Ignored, OMP!IsFileExisting, OMP!IsDirEmpty, OMP!files, OMP!Fault, OMP!Asleep

\* What a step of the node that is none of the node service does to what the
\* service works with: unmounts, removes directories, stops pods.
Foreign ==
  /\ UNCHANGED <<isDirect, call, pvSize, lv, fs, data, rec, expanded, crashes, timeouts>>
  /\ mnt' \subseteq mnt
  /\ \A t \in mnt \ mnt' : ~InUse(t)
  /\ dirs' \subseteq dirs
  /\ faults' \in {faults, faults + 1}
  /\ phase' \in [Targets -> Phases]
  /\ \A t \in Targets : /\ phase'[t] = phase[t] \/ phase'[t] \in {"stopping", "gone"}
                        /\ phase[t] = "gone" => phase'[t] = "gone"

\* The loop unmounts volumes of stopped pods only.
LEMMA MaintainIsForeign ==
  ASSUME TypeOK, LoopSound, Leaving, Maintain
  PROVE  Foreign
<1>1. OMP!OmStep
  BY LoopStep DEF Maintain
<1>2. /\ faults' \in {faults, faults + 1} /\ crashes' = crashes
      /\ dirs' \subseteq dirs /\ mnt' \subseteq mnt /\ mnt \ mnt' \subseteq OMP!Here
  BY <1>1, LoopAssumptions, OMP!OmStepFiles DEF LoopSound
<1>3. UNCHANGED <<isDirect, call, pvSize, lv, fs, data, rec, phase, expanded, timeouts>>
  BY DEF Maintain, handlerVars, kubeletVars
<1>4. ASSUME NEW t \in mnt \ mnt' PROVE ~InUse(t)
  <2>1. t \in OMP!Here /\ t \in Targets
    BY <1>2, <1>4 DEF TypeOK
  <2>2. t[1] \in OMP!Stopped
    BY <2>1 DEF OMP!Here, LoopSound, OMP!OnlyStopped
  <2> QED
    BY <2>1, <2>2 DEF Leaving
<1> QED
  BY <1>2, <1>3, <1>4 DEF Foreign, TypeOK

\* Kubelet's work on the files of a pod.
LEMMA KubeletIsForeign ==
  ASSUME TypeOK,
         \/ \E p \in Pods : OrphanPod(p) \/ RemovePod(p)
         \/ \E t \in Targets : ForgetVolume(t)
  PROVE  Foreign
<1>1. CASE \E p \in Pods : OrphanPod(p) \/ RemovePod(p)
  <2>1. PICK p \in Pods : OrphanPod(p) \/ RemovePod(p)
    BY <1>1
  <2>2. UNCHANGED <<handlerVars, pvSize, hostVars, expanded, boundVars>>
    BY <2>1 DEF OrphanPod, RemovePod
  <2>3. CASE OrphanPod(p)
    BY <2>2, <2>3
       DEF OrphanPod, Foreign, TypeOK, Phases, handlerVars, hostVars, boundVars
  <2>4. CASE RemovePod(p)
    BY <2>2, <2>4
       DEF RemovePod, Foreign, TypeOK, Phases, handlerVars, hostVars, boundVars
  <2> QED
    BY <2>1, <2>3, <2>4
<1>2. CASE \E t \in Targets : ForgetVolume(t)
  BY <1>2 DEF ForgetVolume, Foreign, TypeOK, handlerVars, kubeletVars, boundVars
<1> QED
  BY <1>1, <1>2

\* Every step of the node is one of the node service, or foreign to it.
LEMMA NodeStep ==
  ASSUME TypeOK, LoopSound, Leaving, [NodeNext]_nodeVars
  PROVE  [Next]_vars \/ Foreign
<1>1. CASE \E h \in Handlers : Handle(h)
  BY <1>1 DEF Handle, Next
<1>2. CASE Maintain
  BY <1>2, MaintainIsForeign
<1>3. CASE ProcessEnds
  BY <1>3 DEF ProcessEnds, Next
<1>4. CASE Serve
  BY <1>4 DEF Serve, Publishes, Unpublishes, Next
<1>5. CASE \E p \in Pods : StartPod(p) \/ Complain(p)
  BY <1>5 DEF StartPod, Complain
<1>6. CASE \/ \E p \in Pods : OrphanPod(p) \/ RemovePod(p)
           \/ \E t \in Targets : ForgetVolume(t)
  BY <1>6, KubeletIsForeign
<1>7. CASE UNCHANGED nodeVars
  BY <1>7 DEF nodeVars
<1> QED
  BY <1>1, <1>2, <1>3, <1>4, <1>5, <1>6, <1>7 DEF NodeNext, Kubelet

\* A foreign step leaves a running pod its volume.
LEMMA ForeignKeeps ==
  ASSUME TypeOK, CallsOK, Custody, Foreign
  PROVE  TypeOK' /\ CallsOK' /\ Custody'
<1>1. TypeOK'
  BY DEF Foreign, TypeOK
<1>2. CallsOK'
  BY DEF Foreign, CallsOK
<1>3. \A t \in Targets : InUse(t)' => phase'[t] = phase[t] /\ InUse(t)
  BY DEF Foreign, InUse
<1>4. \A t \in Targets : InUse(t)' /\ t \in Attached => t \in Attached'
  BY <1>3 DEF Foreign, Attached
<1>5. OnlyStoppedAreUnpublished'
  BY <1>3 DEF Foreign, CallsOK, Custody, OnlyStoppedAreUnpublished
<1>6. PublishedSoFar'
  <2> SUFFICES ASSUME NEW h \in Handlers, InUse(call[h].target)', call[h].op = "publish",
                      \/ call[h].pc \in {"rgetpv", "lvdisplay", "lvextend", "resizefs", "ok"}
                      \/ call[h].pc \in {"checkfs", "mkfs", "mount"} /\ call[h].isMnt
               PROVE  call[h].target \in Attached'
    BY DEF PublishedSoFar, Foreign
  <2>1. call[h].target \in Targets
    BY DEF CallsOK
  <2>2. call[h].target \in Attached
    BY <1>3, <2>1 DEF Foreign, Custody, PublishedSoFar
  <2> QED
    BY <1>4, <2>1, <2>2 DEF Foreign
<1>7. NotMountedByDefault'
  BY DEF Foreign, Custody, NotMountedByDefault
<1>8. PublishedSomewhere'
  BY <1>3, <1>4 DEF Custody, PublishedSomewhere, InUse
<1> QED
  BY <1>1, <1>2, <1>5, <1>6, <1>7, <1>8 DEF Custody

LEMMA NodeKeepsService ==
  ASSUME TypeOK, CallsOK, Custody, LoopSound, Leaving, [NodeNext]_nodeVars
  PROVE  TypeOK' /\ CallsOK' /\ Custody'
  BY NodeStep, NextTypes, NextCustody, ForeignKeeps

-----------------------------------------------------------------------------
(***************************************************************************)
(* The loop, beside any steps of the others.                               *)
(***************************************************************************)
\* A pod that has left does not come back, and none comes back into use.
LEMMA NextPhases ==
  ASSUME TypeOK, CallsOK, [Next]_vars
  PROVE  \A t \in Targets : /\ InUse(t)' => InUse(t)
                            /\ phase[t] = "gone" => phase'[t] = "gone"
<1>1. CASE phase' = phase
  BY <1>1 DEF InUse
<1>2. CASE \E h \in Handlers : Respond(h)
  BY <1>2 DEF Respond, TypeOK, InUse
<1>3. CASE \E t \in Targets : StopPod(t)
  BY <1>3 DEF StopPod, TypeOK, InUse
<1>4. CASE \E h \in Handlers : HandlerStep(h)
  BY <1>1, <1>4, HandlerStepFrame
<1>5. CASE \E h \in Handlers, t \in Targets :
             CallPublish(h, t) \/ CallUnpublish(h, t) \/ CallExpand(h, t)
  BY <1>1, <1>5, RequestFrame DEF kubeletVars
<1>6. CASE \/ Crash \/ \E h \in Handlers : Panics(h) \/ GiveUp(h)
           \/ \E t \in Targets : PodWrites(t)
           \/ \E v \in Volumes : GrowPv(v)
           \/ UNCHANGED vars
  BY <1>1, <1>6 DEF Crash, Panics, Restart, GiveUp, PodWrites, GrowPv, vars, kubeletVars
<1> QED
  BY <1>2, <1>3, <1>4, <1>5, <1>6 DEF Next

\* Steps that leave the goroutine alone, and bring no stopped pod back.
LEMMA UndisturbedLoop ==
  ASSUME LoopSound, TypeOK', UNCHANGED <<om, fixed, links, inUse, noise>>,
         pod' \in [Pods -> OMP!PodStates], csi' \in [Pods -> SUBSET Volumes],
         json' \subseteq Pods \X Volumes, OMP!Stopped \subseteq OMP!Stopped',
         \/ log' = log
         \/ /\ log' \in Seq(OMP!Complaints) /\ log' \in Seq(OMP!Lines)
            /\ Len(log') <= TailLines
  PROVE  LoopSound' /\ log' \in Seq(OMP!Complaints')
<1>1. /\ log' \in Seq(OMP!Complaints) /\ log' \in Seq(OMP!Lines)
      /\ Len(log') <= TailLines
  BY DEF LoopSound, OMP!OnlyStopped, OMP!TypeOK
<1>2. \A s \in Seq(OMP!Complaints) : s \in Seq(OMP!Complaints')
  BY LoopAssumptions, OMP!ComplaintsGrow
<1>3. mnt' \subseteq Pods \X Volumes /\ dirs' \subseteq Pods \X Volumes
  BY TargetsAssumption DEF TypeOK
<1>4. OMP!TypeOK'
  BY <1>1, <1>3 DEF LoopSound, OMP!TypeOK, TypeOK
<1>5. OMP!OnlyStopped' /\ OMP!Working'
  BY <1>1, <1>2 DEF LoopSound, OMP!OnlyStopped, OMP!Working
<1> QED
  BY <1>1, <1>2, <1>4, <1>5 DEF LoopSound

\* The directories MkdirAll makes are directories of target paths.
LEMMA ParentsTypes ==
  ASSUME LoopSound, NEW new, new \subseteq Targets, WithParents(new)
  PROVE  /\ pod' \in [Pods -> OMP!PodStates] /\ csi' \in [Pods -> SUBSET Volumes]
         /\ OMP!Stopped' = OMP!Stopped
<1>1. pod \in [Pods -> OMP!PodStates] /\ csi \in [Pods -> SUBSET Volumes]
  BY DEF LoopSound, OMP!TypeOK
<1>2. \A t \in Targets : t[2] \in Volumes
  BY TargetsAssumption
<1>3. csi' \in [Pods -> SUBSET Volumes]
  BY <1>1, <1>2 DEF WithParents, Of
<1>4. pod' = [p \in Pods |-> IF pod[p] = "gone" /\ Of(p) \cap new # {} THEN "orphan"
                             ELSE pod[p]]
  BY DEF WithParents
<1>5. pod' \in [Pods -> OMP!PodStates]
  BY <1>1, <1>4 DEF OMP!PodStates
<1>6. OMP!Stopped' = OMP!Stopped
  BY <1>4 DEF OMP!Stopped
<1> QED
  BY <1>3, <1>5, <1>6

LEMMA HandleLoop ==
  ASSUME TypeOK, TypeOK', LoopSound, NEW h \in Handlers, Handle(h)
  PROVE  /\ LoopSound' /\ OMP!Stopped' = OMP!Stopped
         /\ log' \in Seq(OMP!Complaints')
<1>1. UNCHANGED <<om, fixed, log, json, links, inUse, noise>> /\ WithParents(dirs' \ dirs)
  BY DEF Handle, omVars, unused
<1>2. dirs' \ dirs \subseteq Targets
  BY DEF TypeOK
<1>3. /\ pod' \in [Pods -> OMP!PodStates] /\ csi' \in [Pods -> SUBSET Volumes]
      /\ OMP!Stopped' = OMP!Stopped
  BY <1>1, <1>2, ParentsTypes
<1>4. json' \subseteq Pods \X Volumes
  BY <1>1 DEF LoopSound, OMP!TypeOK
<1> QED
  BY <1>1, <1>3, <1>4, UndisturbedLoop

\* The loop's goroutine is gone, its files are not.
LEMMA ProcessEndsLoop ==
  ASSUME TypeOK', LoopSound, ProcessEnds
  PROVE  /\ LoopSound' /\ OMP!UnmountedFirst' /\ phase' = phase
         /\ UNCHANGED <<pod, csi, json, mnt>> /\ fixed' = {}
<1>1. /\ om' = OMP!Asleep /\ fixed' = {}
      /\ UNCHANGED <<log, pod, csi, dirs, mnt, json, links, inUse, noise, phase>>
  BY DEF ProcessEnds, files, unused, Crash, Panics, Restart, hostVars, kubeletVars,
         OM!Asleep, OMP!Asleep
<1>2. faults' \in Nat /\ crashes' \in Nat
  BY DEF TypeOK
<1>3. OMP!TypeOK' /\ OMP!OnlyStopped' /\ OMP!Working' /\ OMP!UnmountedFirst'
  BY <1>1, <1>2, LoopAssumptions, OMP!NewProcess DEF LoopSound
<1> QED
  BY <1>1, <1>3 DEF LoopSound

\* Kubelet complains about stopped pods only.
LEMMA ComplainLoop ==
  ASSUME LoopSound, TypeOK', NEW p \in Pods, Complain(p)
  PROVE  /\ LoopSound' /\ OMP!Stopped' = OMP!Stopped
         /\ UNCHANGED <<vars, om, fixed, pod, csi, json>>
         /\ log' \in Seq(OMP!Complaints')
<1> DEFINE line == [kind |-> "orphan", uid |-> p]
<1>1. /\ pod[p] = "orphan" /\ OMP!Log(line)
      /\ UNCHANGED <<vars, om, fixed, pod, csi, json, links, inUse, noise>>
  BY DEF Complain, OM!LogOrphan, OM!Log, OMP!Log, OM!files, unused
<1>2. line \in OMP!Complaints
  BY <1>1 DEF OMP!Complaints, OMP!Lines, OMP!Stopped
<1>3. log' \in Seq(OMP!Complaints) /\ log' \in Seq(OMP!Lines) /\ Len(log') <= TailLines
  BY <1>1, <1>2, LoopAssumptions, OMP!LogType DEF LoopSound, OMP!OnlyStopped
<1>4. OMP!Stopped' = OMP!Stopped
  BY <1>1 DEF OMP!Stopped
<1>5. /\ pod' \in [Pods -> OMP!PodStates] /\ csi' \in [Pods -> SUBSET Volumes]
      /\ json' \subseteq Pods \X Volumes
  BY <1>1 DEF LoopSound, OMP!TypeOK
<1> QED
  BY <1>1, <1>3, <1>4, <1>5, UndisturbedLoop

\* What kubelet does to pods and files.
LEMMA FilesLoop ==
  ASSUME LoopSound, TypeOK',
         \/ Serve
         \/ \E p \in Pods : StartPod(p) \/ OrphanPod(p) \/ RemovePod(p)
         \/ \E t \in Targets : ForgetVolume(t)
         \/ UNCHANGED nodeVars
  PROVE  /\ LoopSound' /\ OMP!Stopped \subseteq OMP!Stopped'
         /\ UNCHANGED <<om, fixed, log>>
         /\ log' \in Seq(OMP!Complaints')
<1>1. UNCHANGED <<om, fixed, log, links, inUse, noise>>
  BY DEF Serve, StartPod, OrphanPod, RemovePod, ForgetVolume, nodeVars, omVars, unused
<1>2. /\ pod \in [Pods -> OMP!PodStates] /\ csi \in [Pods -> SUBSET Volumes]
      /\ json \subseteq Pods \X Volumes
  BY DEF LoopSound, OMP!TypeOK
<1>3. /\ pod' \in [Pods -> OMP!PodStates] /\ OMP!Stopped \subseteq OMP!Stopped'
  BY <1>2 DEF Serve, StartPod, OrphanPod, RemovePod, ForgetVolume, nodeVars, OMP!PodStates,
              OMP!Stopped
<1>4. csi' \in [Pods -> SUBSET Volumes] /\ json' \subseteq Pods \X Volumes
  <2>1. \A p \in Pods : Of(p) \subseteq Pods \X Volumes /\ {t[2] : t \in Of(p)} \subseteq Volumes
    BY TargetsAssumption DEF Of
  <2>2. ASSUME NEW p \in Pods, StartPod(p)
        PROVE  csi' \in [Pods -> SUBSET Volumes] /\ json' \subseteq Pods \X Volumes
    <3>1. csi' = [csi EXCEPT ![p] = {t[2] : t \in Of(p)}] /\ json' = json \cup Of(p)
      BY <2>2 DEF StartPod
    <3> QED
      BY <1>2, <2>1, <3>1
  <2>3. ASSUME NEW t \in Targets, ForgetVolume(t)
        PROVE  csi' \in [Pods -> SUBSET Volumes] /\ json' \subseteq Pods \X Volumes
    <3>1. csi' = [csi EXCEPT ![t[1]] = csi[t[1]] \ {t[2]}] /\ json' \subseteq json
      BY <2>3 DEF ForgetVolume
    <3>2. t[1] \in Pods
      BY TargetsAssumption
    <3>3. csi[t[1]] \ {t[2]} \in SUBSET Volumes
      BY <1>2, <3>2
    <3> QED
      BY <1>2, <3>1, <3>2, <3>3
  <2>4. CASE UNCHANGED <<csi, json>>
    BY <1>2, <2>4
  <2> QED
    BY <2>2, <2>3, <2>4 DEF Serve, OrphanPod, RemovePod, nodeVars, files
<1> QED
  BY <1>1, <1>3, <1>4, UndisturbedLoop

LEMMA NodeKeepsLoop ==
  ASSUME TypeOK, CallsOK, Custody, LoopSound, Leaving, [NodeNext]_nodeVars
  PROVE  LoopSound' /\ Leaving'
<1>1. TypeOK'
  BY NodeKeepsService
<1>2. ASSUME LoopSound', OMP!Stopped' = OMP!Stopped, \A t \in Targets : InUse(t)' => InUse(t)
      PROVE  LoopSound' /\ Leaving'
  BY <1>2 DEF Leaving
<1>3. \A t \in Targets : InUse(t)' => InUse(t)
  BY NodeStep, NextPhases DEF Foreign, InUse
<1>4. CASE \E h \in Handlers : Handle(h)
  BY <1>1, <1>2, <1>3, <1>4, HandleLoop
<1>5. CASE Maintain
  <2>1. OMP!OmStep
    BY <1>5, LoopStep DEF Maintain
  <2>2. LoopSound' /\ pod' = pod
    BY <2>1, LoopAssumptions, OMP!OmStepStaysSound, OMP!OmStepFiles DEF LoopSound
  <2>3. OMP!Stopped' = OMP!Stopped
    BY <2>2 DEF OMP!Stopped
  <2> QED
    BY <1>2, <1>3, <2>2, <2>3
<1>6. CASE ProcessEnds
  <2>1. LoopSound' /\ pod' = pod
    BY <1>1, <1>6, ProcessEndsLoop
  <2>2. OMP!Stopped' = OMP!Stopped
    BY <2>1 DEF OMP!Stopped
  <2> QED
    BY <1>2, <1>3, <2>1, <2>2
<1>7. CASE \E p \in Pods : Complain(p)
  BY <1>1, <1>2, <1>3, <1>7, ComplainLoop
<1>8. CASE Serve \/ UNCHANGED nodeVars \/ \E t \in Targets : ForgetVolume(t)
  <2>1. LoopSound'
    BY <1>1, <1>8, FilesLoop
  <2>2. OMP!Stopped' = OMP!Stopped
    BY <1>8 DEF Serve, ForgetVolume, nodeVars, OMP!Stopped
  <2> QED
    BY <1>2, <1>3, <2>1, <2>2
<1>9. ASSUME NEW p \in Pods, StartPod(p) \/ OrphanPod(p) \/ RemovePod(p)
      PROVE  LoopSound' /\ Leaving'
  <2>1. LoopSound'
    BY <1>1, <1>9, FilesLoop
  <2>2. pod \in [Pods -> OMP!PodStates]
    BY DEF LoopSound, OMP!TypeOK
  <2>3. OMP!Stopped' \subseteq OMP!Stopped \cup (IF StartPod(p) THEN {} ELSE {p})
    BY <1>9, <2>2 DEF StartPod, OrphanPod, RemovePod, OMP!Stopped
  <2>4. ASSUME ~StartPod(p), NEW t \in Targets, t[1] = p PROVE ~InUse(t)'
    BY <1>9, <2>4 DEF OrphanPod, RemovePod, Of, InUse
  <2> QED
    BY <1>3, <2>1, <2>3, <2>4 DEF Leaving
<1> QED
  BY <1>4, <1>5, <1>6, <1>7, <1>8, <1>9 DEF NodeNext, Kubelet

-----------------------------------------------------------------------------
(***************************************************************************)
(* With or without timeouts.                                               *)
(***************************************************************************)
\* The node service unmounts for unpublish only.
LEMMA NextUnmounts ==
  ASSUME TypeOK, CallsOK, Custody, [Next]_vars, NEW t \in mnt \ mnt'
  PROVE  ~InUse(t)
<1>1. CASE mnt' = mnt
  BY <1>1
<1>2. ASSUME NEW h \in Handlers, HandlerStep(h)
      PROVE  ~InUse(t)
  <2>1. CASE Unmount(h)
    <3>1. t = call[h].target /\ call[h].pc = "umount"
      BY <2>1 DEF Unmount, At
    <3>2. call[h].op = "unpublish"
      BY <3>1 DEF CallsOK
    <3> QED
      BY <3>1, <3>2 DEF Custody, OnlyStoppedAreUnpublished
  <2>2. CASE ~Unmount(h)
    <3>1. mnt \subseteq mnt'
      BY <1>2, <2>2 DEF HandlerStep, hostVars, CommandFails, Reset, ParseDirect, StatDevice,
         CreateReadsPv, CreateVolume, PublishBranch, AddDirectVolume,
         PublishIsMounted, CheckFsType, FormatDevice, Mount, ResizeReadsPv,
         LvDisplay, LvExtend, ResizeFs, ExpandBranch, ExpandReadsPv,
         UnpublishBranch, RemoveDirectVolume, UnpublishIsMounted
    <3> QED
      BY <3>1
  <2> QED
    BY <2>1, <2>2
<1>3. CASE \E h \in Handlers : Respond(h) \/ GiveUp(h) \/ Panics(h)
  BY <1>1, <1>3 DEF Respond, GiveUp, Panics, Restart, hostVars
<1>4. CASE \E h \in Handlers, u \in Targets :
             CallPublish(h, u) \/ CallUnpublish(h, u) \/ CallExpand(h, u)
  BY <1>1, <1>4, RequestFrame DEF hostVars
<1>5. CASE \/ Crash
           \/ \E u \in Targets : StopPod(u) \/ PodWrites(u)
           \/ \E v \in Volumes : GrowPv(v)
           \/ UNCHANGED vars
  BY <1>1, <1>5 DEF Crash, Restart, StopPod, PodWrites, GrowPv, vars, hostVars
<1> QED
  BY <1>2, <1>3, <1>4, <1>5 DEF Next

LEMMA NodeInit1 == NodeInit => TypeOK /\ CallsOK /\ Custody /\ OMP!IInv /\ Leaving
<1> SUFFICES ASSUME NodeInit PROVE TypeOK /\ CallsOK /\ Custody /\ OMP!IInv /\ Leaving
  OBVIOUS
<1>1. TypeOK /\ CallsOK /\ Custody
  BY InitTypes, InitCustody DEF NodeInit
<1>2. OMP!Init
  BY DEF NodeInit, OM!Init, OMP!Init, OM!Asleep, OMP!Asleep
<1>3. OMP!IInv
  BY <1>2, LoopAssumptions, OMP!InitHolds
<1>4. OMP!Stopped = {}
  BY <1>2 DEF OMP!Init, OMP!Stopped
<1> QED
  BY <1>1, <1>3, <1>4 DEF Leaving

\* What holds whether or not kubelet waits for its calls.
Always == TypeOK /\ CallsOK /\ Custody /\ LoopSound /\ Leaving

LEMMA NodeAlways == NodeSpec => []Always
<1>1. NodeInit => Always
  BY NodeInit1 DEF Always, LoopSound, OMP!IInv
<1>2. Always /\ [NodeNext]_nodeVars => Always'
  BY NodeKeepsService, NodeKeepsLoop DEF Always
<1> QED
  BY <1>1, <1>2, PTL DEF NodeSpec

\* Neither an unpublish, however late, nor a repair of the maintenance loop,
\* which finds its pods in a log file, unmounts the volume of a pod that is to
\* stay.
THEOREM OthersKeepVolumes == NodeSpec => OnlyLeavingPodsLoseVolumes
<1>1. Always /\ [NodeNext]_nodeVars
        => [\A t \in mnt \ mnt' : phase[t] \in {"stopping", "gone"}]_nodeVars
  <2> SUFFICES ASSUME Always, [NodeNext]_nodeVars, NEW t \in mnt \ mnt'
               PROVE  phase[t] \in {"stopping", "gone"}
    OBVIOUS
  <2>1. ~InUse(t)
    BY NodeStep, NextUnmounts DEF Always, Foreign
  <2>2. phase[t] \in Phases
    BY DEF Always, TypeOK
  <2> QED
    BY <2>1, <2>2 DEF InUse, Phases
<1> QED
  BY <1>1, NodeAlways, PTL DEF NodeSpec, OnlyLeavingPodsLoseVolumes

\* A pod that runs keeps its volume beside the maintenance loop, too.
THEOREM RunningStaysPublished == NodeSpec => []PublishedSomewhere
<1>1. Always => PublishedSomewhere
  BY DEF Always, Custody
<1> QED
  BY <1>1, NodeAlways, PTL

-----------------------------------------------------------------------------
(***************************************************************************)
(* As long as kubelet waits for every call.                                *)
(***************************************************************************)
\* Publish alone mounts and makes directories, at its own path.
LEMMA HandlerStepPaths ==
  ASSUME TypeOK, CallsOK, NEW h \in Handlers, HandlerStep(h)
  PROVE  /\ mnt' \subseteq mnt \cup {call[h].target}
         /\ dirs' \subseteq dirs \cup {call[h].target}
         /\ call[h].op # "publish" => mnt' \subseteq mnt /\ dirs' = dirs
<1>1. CASE Mount(h) \/ PublishIsMounted(h)
  BY <1>1 DEF Mount, PublishIsMounted, At, CallsOK
<1>2. CASE ~(Mount(h) \/ PublishIsMounted(h))
  BY <1>2 DEF HandlerStep, hostVars, CommandFails, Reset, ParseDirect, StatDevice,
         CreateReadsPv, CreateVolume, PublishBranch, AddDirectVolume, CheckFsType,
         FormatDevice, ResizeReadsPv, LvDisplay, LvExtend, ResizeFs, ExpandBranch,
         ExpandReadsPv, UnpublishBranch, RemoveDirectVolume, UnpublishIsMounted, Unmount
<1> QED
  BY <1>1, <1>2

\* Publish works where kubelet has made the files, so it makes no parents.
LEMMA HandleFiles ==
  ASSUME Always, Quiet, NEW h \in Handlers, Handle(h)
  PROVE  /\ UNCHANGED <<pod, csi, json>>
         /\ \A t \in mnt' \ mnt : t \in json /\ pod[t[1]] = "live"
<1>1. HandlerStep(h) /\ WithParents(dirs' \ dirs) /\ json' = json
  BY DEF Handle
<1> DEFINE u == call[h].target
<1>2. /\ mnt' \subseteq mnt \cup {u}
      /\ dirs' \subseteq dirs \cup {u}
      /\ call[h].op # "publish" => mnt' \subseteq mnt /\ dirs' = dirs
  BY <1>1, HandlerStepPaths DEF Always
<1>3. u \in Targets /\ Busy(h)
  BY <1>1, HandlerStepFrame DEF Always, CallsOK, Busy
<1>4. call[h].op = "publish" => pod[u[1]] = "live" /\ u \in json /\ u[2] \in csi[u[1]]
  BY <1>3 DEF Quiet, PublishingIsLive, LiveHasFiles
<1>5. pod \in [Pods -> OMP!PodStates] /\ csi \in [Pods -> SUBSET Volumes]
  BY DEF Always, LoopSound, OMP!TypeOK
<1> HIDE DEF u
<1>6. ASSUME NEW p \in Pods
      PROVE  /\ csi[p] \cup {t[2] : t \in Of(p) \cap (dirs' \ dirs)} = csi[p]
             /\ pod[p] = "gone" => Of(p) \cap (dirs' \ dirs) = {}
  <2>1. \A t \in Of(p) \cap (dirs' \ dirs) : t = u /\ t[1] = p /\ call[h].op = "publish"
    BY <1>2 DEF Of
  <2> QED
    BY <1>4, <2>1
<1>7. csi' = csi
  BY <1>1, <1>5, <1>6 DEF WithParents
<1>8. pod' = pod
  BY <1>1, <1>5, <1>6 DEF WithParents
<1> QED
  BY <1>1, <1>2, <1>4, <1>7, <1>8

LEMMA HandleQuiet ==
  ASSUME Always, Always', Quiet, Serial', NEW h \in Handlers, Handle(h)
  PROVE  Quiet'
<1>1. /\ \A g \in Handlers \ {h} : call'[g] = call[g]
      /\ call'[h].target = call[h].target /\ call'[h].op = call[h].op
      /\ Busy(h) /\ phase' = phase
  BY HandlerStepFrame DEF Handle, Always, Busy
<1>2. /\ UNCHANGED <<pod, csi, json>>
      /\ \A t \in mnt' \ mnt : t \in json /\ pod[t[1]] = "live"
  BY HandleFiles
<1>3. PublishingIsLive'
  BY <1>1, <1>2 DEF Quiet, PublishingIsLive, Busy
<1>4. LiveHasFiles'
  BY <1>1, <1>2 DEF Quiet, LiveHasFiles
<1>5. OMP!IInv'
  <2>1. /\ UNCHANGED <<om, fixed>> /\ OMP!Stopped' = OMP!Stopped
        /\ log' \in Seq(OMP!Complaints')
    BY HandleLoop DEF Always, Handle, omVars
  <2>2. OMP!LiveVolumesKnown' /\ OMP!JsonKeptWhileMounted'
    BY <1>2 DEF Quiet, OMP!IInv, OMP!LiveVolumesKnown, OMP!JsonKeptWhileMounted
  <2>3. \A p \in OMP!Stopped : \A v \in Volumes : <<p, v>> \in mnt' => <<p, v>> \in mnt
    BY <1>2 DEF OMP!Stopped
  <2> QED
    BY <1>2, <2>1, <2>2, <2>3, LoopAssumptions, OMP!KubeletKeeps
       DEF Quiet, Always, LoopSound
<1> QED
  BY <1>3, <1>4, <1>5 DEF Quiet

\* The steps that leave the files and the host's mounts alone keep the files of
\* live pods as they are.
LEMMA LoopIgnores ==
  ASSUME Always', Quiet, UNCHANGED <<om, fixed, pod, csi, json, mnt>>,
         log' \in Seq(OMP!Complaints')
  PROVE  OMP!IInv'
<1>1. OMP!Stopped' = OMP!Stopped
  BY DEF OMP!Stopped
<1>2. OMP!LiveVolumesKnown' /\ OMP!JsonKeptWhileMounted'
  BY DEF Quiet, OMP!IInv, OMP!LiveVolumesKnown, OMP!JsonKeptWhileMounted
<1> QED
  BY <1>1, <1>2, LoopAssumptions, OMP!KubeletKeeps DEF Quiet, Always, LoopSound

\* Calls and responses.  By Serial a publish and an unpublish of one path do
\* not overlap, so the path of a publish is not taken for gone.
LEMMA ServeQuiet ==
  ASSUME Always, Always', Quiet, Serial', Serve
  PROVE  Quiet'
<1>1. UNCHANGED <<om, fixed, log, pod, csi, json>>
  BY DEF Serve, omVars, files
<1>2. mnt' = mnt
  BY Zenon DEF Serve, Respond, GiveUp, Publishes, Unpublishes, CallPublish, CallUnpublish,
         CallExpand, Request, StopPod, PodWrites, GrowPv, hostVars
<1>3. [Next]_vars
  BY DEF Serve, Publishes, Unpublishes, Next
<1>4. LiveHasFiles'
  BY <1>1, <1>3, NextPhases DEF Always, Quiet, LiveHasFiles
<1>5. OMP!IInv'
  BY <1>1, <1>2, FilesLoop, LoopIgnores DEF Always
<1>6. PublishingIsLive'
  <2>1. ASSUME phase' = phase,
               \A g \in Handlers : Busy(g)' /\ call'[g].op = "publish" =>
                 \/ Busy(g) /\ call[g].op = "publish" /\ call'[g].target = call[g].target
                 \/ pod[call'[g].target[1]] = "live" /\ phase[call'[g].target] # "gone"
        PROVE  PublishingIsLive'
    BY <1>1, <2>1 DEF Quiet, PublishingIsLive
  <2>2. ASSUME NEW h \in Handlers, Respond(h)
        PROVE  PublishingIsLive'
    <3>1. /\ \A g \in Handlers : call'[g] = IF g = h THEN Idle ELSE call[g]
          /\ Busy(h)
      BY <2>2 DEF Respond, Busy, Always, TypeOK
    <3>2. ASSUME NEW g \in Handlers, Busy(g)', call'[g].op = "publish"
          PROVE  pod'[call'[g].target[1]] = "live" /\ phase'[call'[g].target] # "gone"
      <4>1. g # h /\ call'[g] = call[g] /\ Busy(g)
        BY <3>1, <3>2 DEF Idle, Busy
      <4>2. /\ call[g].target \in Targets
            /\ pod[call[g].target[1]] = "live" /\ phase[call[g].target] # "gone"
        BY <3>2, <4>1 DEF Always, CallsOK, Quiet, PublishingIsLive, Busy
      <4>3. call[g].target # call[h].target
        BY <3>1, <3>2, <4>1 DEF Quiet, Serial, OnePerVolume, Vol
      <4>4. phase'[call[g].target] = phase[call[g].target]
        BY <2>2, <4>2, <4>3 DEF Respond, Always, TypeOK
      <4> QED
        BY <1>1, <4>1, <4>2, <4>4
    <3> QED
      BY <3>2 DEF PublishingIsLive
  <2>3. CASE \E h \in Handlers : GiveUp(h)
    BY <2>1, <2>3 DEF GiveUp, Always, TypeOK, Calls, Busy, kubeletVars
  <2>4. ASSUME NEW h \in Handlers, NEW t \in Targets,
               Publishes(h, t) \/ Unpublishes(h, t) \/ CallExpand(h, t)
        PROVE  PublishingIsLive'
    <3>1. CallPublish(h, t) \/ CallUnpublish(h, t) \/ CallExpand(h, t)
      BY <2>4 DEF Publishes, Unpublishes
    <3>2. /\ \A g \in Handlers \ {h} : call'[g] = call[g]
          /\ call'[h].target = t /\ phase' = phase
      BY <3>1, RequestFrame DEF Always, kubeletVars
    <3>3. call'[h].op = "publish" => pod[t[1]] = "live" /\ phase[t] # "gone"
      <4>1. CASE Publishes(h, t)
        BY <4>1 DEF Publishes, CallPublish
      <4>2. CASE CallUnpublish(h, t)
        BY <4>2 DEF CallUnpublish, Request, Idle, Always, TypeOK
      <4>3. CASE CallExpand(h, t)
        BY <4>3 DEF CallExpand, Request, Idle, Always, TypeOK
      <4> QED
        BY <2>4, <4>1, <4>2, <4>3 DEF Unpublishes
    <3> QED
      BY <2>1, <3>2, <3>3 DEF Busy
  <2>5. ASSUME NEW t \in Targets, StopPod(t)
        PROVE  PublishingIsLive'
    BY <1>1, <2>5 DEF StopPod, handlerVars, Always, TypeOK, Quiet, PublishingIsLive, Busy,
       CallsOK
  <2>6. CASE \/ \E t \in Targets : PodWrites(t)
             \/ \E v \in Volumes : GrowPv(v)
    BY <2>1, <2>6 DEF PodWrites, GrowPv, handlerVars, kubeletVars, Busy
  <2> QED
    BY <2>2, <2>3, <2>4, <2>5, <2>6 DEF Serve
<1> QED
  BY <1>4, <1>5, <1>6 DEF Quiet

\* The loop takes files of stopped pods only.
LEMMA MaintainQuiet ==
  ASSUME Always, Always', Quiet, Serial', Maintain
  PROVE  Quiet'
<1>1. OMP!OmStep
  BY LoopStep DEF Maintain
<1>2. OMP!IInv'
  BY <1>1, LoopAssumptions, OMP!OmStepKeeps DEF Quiet
<1>3. /\ pod' = pod
      /\ json' = json \/ json' = json \ OMP!Here
      /\ \A p \in Pods : csi'[p] # csi[p] => p \in om.uid
  BY <1>1, LoopAssumptions, OMP!OmStepFiles DEF Always, LoopSound
<1>4. UNCHANGED <<call, phase>>
  BY DEF Maintain, handlerVars, kubeletVars
<1>5. \A p \in om.uid : pod[p] # "live"
  BY DEF Always, LoopSound, OMP!OnlyStopped, OMP!Stopped
<1>6. LiveHasFiles'
  <2> SUFFICES ASSUME NEW t \in Targets, pod[t[1]] = "live", phase[t] # "gone"
               PROVE  t \in json' /\ t[2] \in csi'[t[1]]
    BY <1>3, <1>4 DEF LiveHasFiles
  <2>1. t \in json /\ t[2] \in csi[t[1]] /\ t[1] \in Pods
    BY TargetsAssumption DEF Quiet, LiveHasFiles
  <2>2. t[1] \notin om.uid
    BY <1>5
  <2>3. t \notin OMP!Here
    BY <2>2 DEF OMP!Here
  <2> QED
    BY <1>3, <2>1, <2>2, <2>3
<1>7. PublishingIsLive'
  BY <1>3, <1>4 DEF Quiet, PublishingIsLive, Busy
<1> QED
  BY <1>2, <1>6, <1>7 DEF Quiet

LEMMA ProcessEndsQuiet ==
  ASSUME Always, Always', Quiet, Serial', ProcessEnds
  PROVE  Quiet'
<1>1. /\ OMP!UnmountedFirst' /\ phase' = phase
      /\ UNCHANGED <<pod, csi, json, mnt>> /\ fixed' = {}
  BY ProcessEndsLoop DEF Always
<1>2. \A h \in Handlers : ~Busy(h)'
  BY DEF ProcessEnds, Crash, Panics, Restart, Idle, Busy
<1>3. OMP!IInv'
  BY <1>1 DEF Quiet, Always, LoopSound, OMP!IInv, OMP!LiveVolumesKnown,
     OMP!JsonKeptWhileMounted, OMP!FixedAreClean
<1> QED
  BY <1>1, <1>2, <1>3 DEF Quiet, PublishingIsLive, LiveHasFiles

\* The life of a pod.  A pod that becomes an orphan has no call in progress.
LEMMA PodQuiet ==
  ASSUME Always, Always', Quiet, Serial', NEW p \in Pods,
         StartPod(p) \/ OrphanPod(p) \/ RemovePod(p)
  PROVE  Quiet'
<1>1. /\ UNCHANGED <<om, fixed>> /\ OMP!Stopped \subseteq OMP!Stopped'
      /\ log' \in Seq(OMP!Complaints')
  BY FilesLoop DEF Always
<1>2. UNCHANGED <<call, mnt>>
  BY DEF StartPod, OrphanPod, RemovePod, vars, handlerVars, hostVars
<1>3. pod \in [Pods -> OMP!PodStates] /\ csi \in [Pods -> SUBSET Volumes]
  BY DEF Always, LoopSound, OMP!TypeOK
<1>4. \A t \in Targets : t = <<t[1], t[2]>> /\ t[1] \in Pods /\ t[2] \in Volumes
  BY TargetsAssumption
<1>5. CASE StartPod(p)
  <2>1. /\ phase' = phase /\ pod[p] = "new" /\ pod' = [pod EXCEPT ![p] = "live"]
        /\ csi' = [csi EXCEPT ![p] = {t[2] : t \in Of(p)}] /\ json' = json \cup Of(p)
    BY <1>5 DEF StartPod, vars, kubeletVars
  <2>2. \A t \in Targets : t[1] = p => t \in json' /\ t[2] \in csi'[t[1]]
    BY <1>3, <2>1 DEF Of
  <2>3. LiveHasFiles'
    BY <1>3, <1>4, <2>1, <2>2 DEF Quiet, LiveHasFiles
  <2>4. PublishingIsLive'
    BY <1>2, <1>3, <1>4, <2>1 DEF Quiet, PublishingIsLive, Busy, Always, CallsOK
  <2>5. OMP!LiveVolumesKnown'
    <3> SUFFICES ASSUME NEW q \in Pods, pod'[q] = "live", NEW v \in csi'[q]
                 PROVE  <<q, v>> \in json'
      BY DEF OMP!LiveVolumesKnown
    <3>1. CASE q # p
      BY <1>3, <2>1, <3>1 DEF Quiet, OMP!IInv, OMP!LiveVolumesKnown
    <3>2. CASE q = p
      <4>1. PICK t \in Of(p) : v = t[2]
        BY <1>3, <2>1, <3>2
      <4>2. t = <<p, v>>
        BY <1>4, <4>1 DEF Of
      <4> QED
        BY <2>1, <3>2, <4>1, <4>2
    <3> QED
      BY <3>1, <3>2
  <2>6. OMP!JsonKeptWhileMounted'
    BY <1>2, <2>1 DEF Quiet, OMP!IInv, OMP!JsonKeptWhileMounted
  <2>7. \A q \in OMP!Stopped : csi'[q] \subseteq csi[q]
    BY <1>3, <2>1 DEF OMP!Stopped
  <2>8. OMP!IInv'
    BY <1>1, <1>2, <2>5, <2>6, <2>7, LoopAssumptions, OMP!KubeletKeeps
       DEF Quiet, Always, LoopSound
  <2> QED
    BY <2>3, <2>4, <2>8 DEF Quiet
<1>6. CASE OrphanPod(p) \/ RemovePod(p)
  <2>1. UNCHANGED <<csi, json>>
    BY <1>6 DEF OrphanPod, RemovePod, files
  <2>2. \A q \in Pods : pod'[q] = "live" => pod[q] = "live" /\ q # p
    BY <1>3, <1>6 DEF OrphanPod, RemovePod
  <2>3. \A t \in Targets : t[1] # p => phase'[t] = phase[t]
    BY <1>6 DEF OrphanPod, RemovePod, Of
  <2>4. LiveHasFiles'
    BY <1>4, <2>1, <2>2, <2>3 DEF Quiet, LiveHasFiles
  <2>5. ASSUME NEW h \in Handlers, Busy(h), call[h].op = "publish"
        PROVE  call[h].target[1] # p
    <3>1. /\ call[h].target \in Targets /\ call[h].awaited
          /\ pod[call[h].target[1]] = "live"
          /\ call[h].target[2] \in csi[call[h].target[1]]
      BY <2>5 DEF Always, CallsOK, Quiet, Serial, AllAwaited, PublishingIsLive,
         LiveHasFiles, Busy
    <3> QED
      BY <1>6, <3>1 DEF OrphanPod, RemovePod, Of
  <2>6. PublishingIsLive'
    <3> SUFFICES ASSUME NEW h \in Handlers, Busy(h), call[h].op = "publish"
                 PROVE  pod'[call[h].target[1]] = "live" /\ phase'[call[h].target] # "gone"
      BY <1>2 DEF PublishingIsLive, Busy
    <3>1. /\ call[h].target \in Targets /\ call[h].target[1] # p
          /\ pod[call[h].target[1]] = "live" /\ phase[call[h].target] # "gone"
      BY <2>5 DEF Always, CallsOK, Quiet, PublishingIsLive, Busy
    <3>2. \A q \in Pods : q # p => pod'[q] = pod[q]
      BY <1>3, <1>6 DEF OrphanPod, RemovePod
    <3> QED
      BY <1>4, <2>3, <3>1, <3>2
  <2>7. OMP!LiveVolumesKnown' /\ OMP!JsonKeptWhileMounted'
    BY <1>2, <2>1, <2>2 DEF Quiet, OMP!IInv, OMP!LiveVolumesKnown, OMP!JsonKeptWhileMounted
  <2>8. OMP!IInv'
    BY <1>1, <1>2, <2>1, <2>7, LoopAssumptions, OMP!KubeletKeeps
       DEF Quiet, Always, LoopSound
  <2> QED
    BY <2>4, <2>6, <2>8 DEF Quiet
<1> QED
  BY <1>5, <1>6

\* The files of an unpublished volume go together, with nothing mounted.
LEMMA ForgetQuiet ==
  ASSUME Always, Always', Quiet, Serial', NEW t \in Targets, ForgetVolume(t)
  PROVE  Quiet'
<1>1. /\ UNCHANGED <<om, fixed, pod, call, mnt, phase>>
      /\ phase[t] = "gone" /\ t \notin mnt
      /\ json' = json \ {t} /\ csi' = [csi EXCEPT ![t[1]] = csi[t[1]] \ {t[2]}]
  BY DEF ForgetVolume, omVars, handlerVars, kubeletVars
<1>2. csi \in [Pods -> SUBSET Volumes] /\ t[1] \in Pods /\ t = <<t[1], t[2]>>
  BY TargetsAssumption DEF Always, LoopSound, OMP!TypeOK
<1>3. \A u \in Targets : u = <<u[1], u[2]>>
  BY TargetsAssumption
<1>4. LiveHasFiles'
  <2> SUFFICES ASSUME NEW u \in Targets, pod[u[1]] = "live", phase[u] # "gone"
               PROVE  u \in json' /\ u[2] \in csi'[u[1]]
    BY <1>1 DEF LiveHasFiles
  <2>1. u # t /\ u \in json /\ u[2] \in csi[u[1]]
    BY <1>1 DEF Quiet, LiveHasFiles
  <2>2. u[1] # t[1] \/ u[2] # t[2]
    BY <1>2, <1>3, <2>1
  <2> QED
    BY <1>1, <1>2, <2>1, <2>2
<1>5. PublishingIsLive'
  BY <1>1 DEF Quiet, PublishingIsLive, Busy
<1>6. OMP!Stopped' = OMP!Stopped /\ log' \in Seq(OMP!Complaints')
  BY <1>1, FilesLoop DEF Always, OMP!Stopped
<1>7. \A q \in Pods : csi'[q] \subseteq csi[q]
  BY <1>1, <1>2
<1>8. OMP!LiveVolumesKnown'
  <2> SUFFICES ASSUME NEW q \in Pods, pod[q] = "live", NEW v \in csi'[q]
               PROVE  <<q, v>> \in json'
    BY <1>1 DEF OMP!LiveVolumesKnown
  <2>1. <<q, v>> \in json
    BY <1>7 DEF Quiet, OMP!IInv, OMP!LiveVolumesKnown
  <2>2. q # t[1] \/ v # t[2]
    BY <1>1, <1>2
  <2> QED
    BY <1>1, <1>2, <2>1, <2>2
<1>9. OMP!JsonKeptWhileMounted'
  BY <1>1 DEF Quiet, OMP!IInv, OMP!JsonKeptWhileMounted
<1>10. OMP!IInv'
  BY <1>1, <1>6, <1>7, <1>8, <1>9, LoopAssumptions, OMP!KubeletKeeps
     DEF Quiet, Always, LoopSound, OMP!Stopped
<1> QED
  BY <1>4, <1>5, <1>10 DEF Quiet

LEMMA NodeSerial ==
  ASSUME Always, Serial, timeouts' = 0, [NodeNext]_nodeVars
  PROVE  Serial'
<1>1. CASE [Next]_vars
  BY <1>1, NextSerial DEF Always
<1>2. CASE Foreign
  BY <1>2 DEF Foreign, Serial, AllAwaited, OnePerVolume, Busy, Vol
<1> QED
  BY <1>1, <1>2, NodeStep DEF Always

LEMMA NodeQuiet ==
  ASSUME Always, Always', Quiet, timeouts' = 0, [NodeNext]_nodeVars
  PROVE  Quiet'
<1>1. Serial'
  BY NodeSerial DEF Quiet
<1>2. CASE \E h \in Handlers : Handle(h)
  BY <1>1, <1>2, HandleQuiet
<1>3. CASE Maintain
  BY <1>1, <1>3, MaintainQuiet
<1>4. CASE ProcessEnds
  BY <1>1, <1>4, ProcessEndsQuiet
<1>5. CASE Serve
  BY <1>1, <1>5, ServeQuiet
<1>6. CASE \E p \in Pods : StartPod(p) \/ OrphanPod(p) \/ RemovePod(p)
  BY <1>1, <1>6, PodQuiet
<1>7. CASE \E t \in Targets : ForgetVolume(t)
  BY <1>1, <1>7, ForgetQuiet
<1>8. CASE UNCHANGED nodeVars \/ \E p \in Pods : Complain(p)
  <2>1. /\ UNCHANGED <<om, fixed, pod, csi, json, mnt, call, phase>>
        /\ log' \in Seq(OMP!Complaints')
    BY <1>8, ComplainLoop, FilesLoop
       DEF Always, nodeVars, vars, omVars, files, hostVars, handlerVars, kubeletVars
  <2>2. OMP!IInv'
    BY <2>1, LoopIgnores
  <2>3. PublishingIsLive' /\ LiveHasFiles'
    BY <2>1 DEF Quiet, PublishingIsLive, LiveHasFiles, Busy
  <2> QED
    BY <1>1, <2>2, <2>3 DEF Quiet
<1> QED
  BY <1>2, <1>3, <1>4, <1>5, <1>6, <1>7, <1>8 DEF NodeNext, Kubelet

\* Kubelet's count of calls given up on never goes down.
LEMMA NodeTimeouts ==
  ASSUME Always, [NodeNext]_nodeVars
  PROVE  \/ timeouts' = timeouts
         \/ timeouts' = timeouts + 1 /\ timeouts < MaxTimeouts
  BY NodeStep, CountersGrow DEF Always, Foreign

LEMMA NodeInductive == NodeSpec => []NodeInv
<1>1. NodeInit => NodeInv
  <2> SUFFICES ASSUME NodeInit PROVE NodeInv
    OBVIOUS
  <2>1. TypeOK /\ CallsOK /\ Custody /\ OMP!IInv /\ Leaving
    BY NodeInit1
  <2>2. Serial
    BY InitSerial DEF NodeInit
  <2>3. PublishingIsLive /\ LiveHasFiles
    <3>1. \A p \in Pods : pod[p] # "live"
      BY DEF NodeInit, OM!Init
    <3>2. \A h \in Handlers : ~Busy(h)
      BY DEF NodeInit, Init, Idle, Busy
    <3>3. \A t \in Targets : t[1] \in Pods
      BY TargetsAssumption
    <3> QED
      BY <3>1, <3>2, <3>3 DEF PublishingIsLive, LiveHasFiles
  <2> QED
    BY <2>1, <2>2, <2>3 DEF NodeInv, Quiet, LoopSound, OMP!IInv
<1>2. NodeInv /\ [NodeNext]_nodeVars => NodeInv'
  <2> SUFFICES ASSUME NodeInv, [NodeNext]_nodeVars PROVE NodeInv'
    OBVIOUS
  <2>1. Always
    BY DEF NodeInv, Always
  <2>2. Always'
    BY <2>1, NodeKeepsService, NodeKeepsLoop DEF Always
  <2>3. ASSUME timeouts' = 0 PROVE Quiet'
    <3>1. timeouts = 0
      BY <2>1, <2>3, NodeTimeouts DEF Always, TypeOK
    <3> QED
      BY <2>1, <2>2, <2>3, <3>1, NodeQuiet DEF NodeInv
  <2> QED
    BY <2>2, <2>3 DEF NodeInv, Always
<1> QED
  BY <1>1, <1>2, PTL DEF NodeSpec

\* While kubelet waits for every call, no interleaving of the requests with the
\* maintenance loop loses a vol_data.json of a mounted volume, or leaves a
\* volume to a pod that FixedPodList keeps from being looked at again.
THEOREM RepairsStayFinal == NodeSpec => []RepairsAreFinal
<1>1. NodeInv => RepairsAreFinal
  BY DEF NodeInv, Quiet, OMP!IInv, OMP!JsonKeptWhileMounted, OMP!FixedAreClean,
         RepairsAreFinal, OM!JsonKeptWhileMounted, OM!FixedAreClean
<1> QED
  BY <1>1, NodeInductive, PTL

\* With kubelet waiting for its calls, no step of the node, the maintenance
\* loop's included, destroys what a pod has written.
THEOREM NodeDataIsSafe ==
  ASSUME MaxTimeouts = 0
  PROVE  NodeSpec => DataSurvives
<1> DEFINE I == /\ Always /\ FilesystemFitsDevice /\ PreparedForMount
                /\ timeouts = 0 /\ Serial /\ BlankAtMkfs
<1>1. NodeInit => I
  <2> SUFFICES ASSUME NodeInit PROVE I
    OBVIOUS
  <2>1. Always
    BY NodeInit1 DEF Always, LoopSound, OMP!IInv
  <2>2. Serial /\ BlankAtMkfs
    BY InitSerial DEF NodeInit
  <2> QED
    BY <2>1, <2>2 DEF NodeInit, Init, FilesystemFitsDevice, PreparedForMount, Idle
<1>2. ASSUME I, [NodeNext]_nodeVars
      PROVE  I' /\ data \subseteq data'
  <2>1. Always' /\ timeouts' = 0
    BY <1>2, NodeKeepsService, NodeKeepsLoop, NodeTimeouts DEF Always
  <2>2. Serial'
    BY <1>2, <2>1, NodeSerial
  <2>3. CASE [Next]_vars
    BY <1>2, <2>1, <2>2, <2>3, NextFits, NextBlank DEF Always
  <2>4. CASE Foreign
    BY <1>2, <2>1, <2>2, <2>4
       DEF Foreign, FilesystemFitsDevice, PreparedForMount, BlankAtMkfs, Vol
  <2> QED
    BY <1>2, <2>3, <2>4, NodeStep DEF Always
<1>3. I /\ [NodeNext]_nodeVars => I'
  BY <1>2
<1>4. I /\ [NodeNext]_nodeVars => [data \subseteq data']_vars
  BY <1>2
<1> QED
  BY <1>1, <1>3, <1>4, PTL DEF NodeSpec, DataSurvives

=============================================================================
