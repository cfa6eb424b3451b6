--------------------------- MODULE StorageOMProofs ---------------------------
(***************************************************************************)
(* Theorems about StorageOM, for any pods, volumes, links and log windows. *)
(* The maintenance loop takes no lock: what keeps it apart from the pods   *)
(* that kubelet starts is that it only works on pods kubelet has given up, *)
(* and these never come back.                                              *)
(***************************************************************************)
EXTENDS StorageOM, SequenceTheorems, TLAPS

Stopped == {p \in Pods : pod[p] \in {"orphan", "gone"}}

\* Lines that complain about stopped pods only.
Complaints == {l \in Lines : l.kind = "orphan" => l.uid \in Stopped}

\* Whatever the loop has read, works on or remembers is a stopped pod.
OnlyStopped ==
  /\ log \in Seq(Complaints)
  /\ om.lines \in Seq(Complaints)
  /\ om.uid \subseteq Stopped
  /\ fixed \subseteq Stopped

\* One pod at a time, and a line at hand while the loop works on it.
Working ==
  /\ \A p, q \in om.uid : p = q
  /\ om.pc \notin {"sleep", "line"} => om.lines # <<>>

\* The volumes of a live pod have their vol_data.json.
LiveVolumesKnown == \A p \in Pods : pod[p] = "live" => {p} \X csi[p] \subseteq json

\* Nothing is mounted where the loop is about to remove vol_data.json.
UnmountedFirst == At("json") => Here \cap mounted = {}

IInv ==
  /\ TypeOK /\ OnlyStopped /\ Working
  /\ LiveVolumesKnown /\ UnmountedFirst /\ JsonKeptWhileMounted /\ FixedAreClean

-----------------------------------------------------------------------------
LEMMA LineTypes ==
  ASSUME NEW l \in Lines
  PROVE  /\ l.kind = "orphan" => l.uid \in Pods
         /\ l.kind = "reference" => l.refs \subseteq Links
BY DEF Lines

\* A pod that is stopped stays so, and the lines about it stay true.
LEMMA ComplaintsGrow ==
  ASSUME Stopped \subseteq Stopped'
  PROVE  /\ Complaints \subseteq Complaints'
         /\ \A s \in Seq(Complaints) : s \in Seq(Complaints')
<1>1. Complaints \subseteq Complaints'
  BY DEF Complaints
<1> QED
  BY <1>1, SeqMonotonic

LEMMA InitHolds == Init => IInv
<1> SUFFICES ASSUME Init PROVE IInv
  OBVIOUS
<1>1. \A S : <<>> \in Seq(S) /\ Len(<<>>) = 0
  BY EmptySeq
<1>2. Asleep \in Goroutine
  BY <1>1 DEF Asleep, Goroutine, PC
<1>3. TypeOK
  BY <1>1, <1>2, SwitchesAssumption DEF Init, TypeOK, PodStates
<1>4. OnlyStopped /\ Working
  BY <1>1 DEF Init, OnlyStopped, Working, Asleep
<1>5. LiveVolumesKnown /\ UnmountedFirst /\ JsonKeptWhileMounted /\ FixedAreClean
  BY DEF Init, LiveVolumesKnown, UnmountedFirst, JsonKeptWhileMounted, FixedAreClean
<1> QED
  BY <1>3, <1>4, <1>5 DEF IInv

-----------------------------------------------------------------------------
(***************************************************************************)
(* The loop.                                                               *)
(***************************************************************************)
\* What the goroutine may become: its type, and all that the invariant says of
\* it alone.
Sound(g) ==
  /\ g \in Goroutine
  /\ g.lines \in Seq(Complaints)
  /\ g.uid \subseteq Stopped
  /\ \A p, q \in g.uid : p = q
  /\ g.pc \notin {"sleep", "line"} => g.lines # <<>>

LEMMA AsleepIsSound == Sound(Asleep)
<1>1. \A S : <<>> \in Seq(S)
  BY EmptySeq
<1> QED
  BY <1>1 DEF Sound, Asleep, Goroutine, PC

LEMMA NextLineIsSound ==
  ASSUME Sound(om), om.lines # <<>>, NextLine
  PROVE  Sound(om') /\ om'.pc = "line"
<1>1. Tail(om.lines) \in Seq(Complaints) /\ Tail(om.lines) \in Seq(Lines)
  BY HeadTailProperties DEF Sound, Goroutine
<1> QED
  BY <1>1 DEF NextLine, Sound, Asleep, Goroutine, PC

LEMMA HeadIsComplaint ==
  ASSUME Sound(om), om.lines # <<>>
  PROVE  Head(om.lines) \in Complaints /\ Head(om.lines) \in Lines
BY HeadTailProperties DEF Sound, Goroutine

\* The loop stays sound, and reaches "json" only when nothing is mounted.
LEMMA OmStepIsSound ==
  ASSUME TypeOK, log \in Seq(Complaints), Sound(om), OmStep
  PROVE  /\ Sound(om')
         /\ om'.pc = "json" => Here' \cap mounted' = {}
<1>1. CASE ReadLog \/ EndOfLines
  <2>1. log \in Seq(Lines)
    BY DEF TypeOK
  <2> QED
    BY <1>1, <2>1, AsleepIsSound DEF ReadLog, EndOfLines, At, Sound, Goroutine, PC, Asleep
<1>2. CASE SkipLine
  BY <1>2, NextLineIsSound DEF SkipLine, IsKind
<1>3. CASE OrphanLine
  <2> DEFINE p == Head(om.lines).uid
  <2>1. om.lines # <<>> /\ p \in Stopped
    BY <1>3, HeadIsComplaint DEF OrphanLine, IsKind, Complaints
  <2>2. p \in Pods /\ csi[p] \subseteq Vols
    BY <2>1 DEF Stopped, TypeOK
  <2>3. CASE NextLine
    BY <2>1, <2>3, NextLineIsSound
  <2>4. CASE om' = [om EXCEPT !.pc = "volumes", !.uid = {p}, !.vols = csi[p]]
    BY <2>1, <2>2, <2>4 DEF Sound, Goroutine, PC
  <2> QED
    BY <1>3, <2>3, <2>4 DEF OrphanLine
<1>4. CASE PickVolume
  <2>1. CASE NextLine
    BY <1>4, <2>1, NextLineIsSound DEF PickVolume, Sound, At
  <2>2. ASSUME NEW v \in om.vols,
               om' = [om EXCEPT !.vol = {v}, !.vols = @ \ {v},
                        !.pc = IF om.uid \X {v} \subseteq mounted THEN "unmount"
                               ELSE IF IsFileExisting(v) THEN "rmdir" ELSE "json"]
        PROVE  Sound(om') /\ (om'.pc = "json" => Here' \cap mounted' = {})
    <3>1. mounted' = mounted
      BY <1>4 DEF PickVolume, files
    <3>2. Sound(om')
      <4>1. PICK pc \in {"unmount", "rmdir", "json"} :
              om' = [om EXCEPT !.vol = {v}, !.vols = @ \ {v}, !.pc = pc]
        BY <2>2
      <4>2. om.lines # <<>> /\ v \in Vols
        BY <1>4 DEF PickVolume, At, Sound, Goroutine
      <4> QED
        BY <4>1, <4>2 DEF Sound, Goroutine, PC
    <3>3. om'.pc = "json" => ~(om.uid \X {v} \subseteq mounted)
      BY <2>2 DEF Sound, Goroutine
    <3>4. om'.uid = om.uid /\ om'.vol = {v}
      BY <2>2 DEF Sound, Goroutine
    <3>5. \A p, q \in om.uid : p = q
      BY DEF Sound
    <3> QED
      BY <3>1, <3>2, <3>3, <3>4, <3>5 DEF Here
  <2> QED
    BY <1>4, <2>1, <2>2 DEF PickVolume
<1>5. CASE UnmountVolume
  BY <1>5 DEF UnmountVolume, At, Goto, NextVolume, Sound, Goroutine, PC
<1>6. CASE RemoveMountDir
  <2>1. Sound(om')
    BY <1>6 DEF RemoveMountDir, At, Goto, NextVolume, Sound, Goroutine, PC
  <2>2. om'.pc = "json" => Here \subseteq mdir \ mounted /\ Goto("json")
    BY <1>6 DEF RemoveMountDir, Goto, NextVolume, Sound, Goroutine
  <2>3. Goto("json") => Here' = Here
    BY DEF Goto, Here, Sound, Goroutine
  <2>4. mounted' = mounted
    BY <1>6 DEF RemoveMountDir
  <2> QED
    BY <2>1, <2>2, <2>3, <2>4
<1>7. CASE RemoveJson \/ RemoveVolumeDir
  BY <1>7 DEF RemoveJson, RemoveVolumeDir, At, Goto, NextVolume, Sound, Goroutine, PC
<1>8. CASE ReferenceLine
  <2>1. om.lines # <<>> /\ Head(om.lines).refs \subseteq Links
    BY <1>8, HeadIsComplaint, LineTypes DEF ReferenceLine, IsKind
  <2> QED
    BY <1>8, <2>1 DEF ReferenceLine, Sound, Goroutine, PC
<1>9. CASE CheckLink
  <2>1. CASE NextLine
    BY <1>9, <2>1, NextLineIsSound DEF CheckLink, Sound, At
  <2>2. ASSUME NEW f \in om.refs, NEW pc \in {"rm", "links"},
               om' = [om EXCEPT !.file = {f}, !.refs = @ \ {f}, !.pc = pc]
        PROVE  Sound(om') /\ om'.pc # "json"
    <3>1. om.lines # <<>> /\ f \in Links
      BY <1>9 DEF CheckLink, At, Sound, Goroutine
    <3> QED
      BY <2>2, <3>1 DEF Sound, Goroutine, PC
  <2>3. CASE \E f \in om.refs, pc \in {"rm", "links"} :
               om' = [om EXCEPT !.file = {f}, !.refs = @ \ {f}, !.pc = pc]
    BY <2>2, <2>3
  <2>4. NextLine \/ \E f \in om.refs, pc \in {"rm", "links"} :
                      om' = [om EXCEPT !.file = {f}, !.refs = @ \ {f}, !.pc = pc]
    BY <1>9, Zenon DEF CheckLink
  <2> QED
    BY <2>1, <2>3, <2>4
<1>10. CASE RemoveLink
  BY <1>10 DEF RemoveLink, At, NextLink, Sound, Goroutine, PC
<1> QED
  BY <1>1, <1>2, <1>3, <1>4, <1>5, <1>6, <1>7, <1>8, <1>9, <1>10 DEF OmStep

-----------------------------------------------------------------------------
LEMMA SoundIsInvariant ==
  Sound(om) /\ log \in Seq(Complaints) /\ fixed \subseteq Stopped <=>
    om \in Goroutine /\ OnlyStopped /\ Working
BY DEF Sound, OnlyStopped, Working

\* What the loop removes belongs to the pod at hand, and vol_data.json goes only
\* where nothing is mounted.
LEMMA OmStepFiles ==
  ASSUME TypeOK, OnlyStopped, Working, OmStep
  PROVE  /\ UNCHANGED <<log, pod, inUse, crashes, noise>>
         /\ faults' \in {faults, faults + 1}
         /\ mdir' \subseteq mdir /\ links' \subseteq links
         /\ mounted' \subseteq mounted /\ mounted \ mounted' \subseteq Here
         /\ json' = json \/ (At("json") /\ json' = json \ Here)
         /\ csi' \in [Pods -> SUBSET Vols]
         /\ \A p \in Pods : csi'[p] \subseteq csi[p] /\ (csi'[p] # csi[p] => p \in om.uid)
         /\ \/ fixed' = fixed
            \/ \E p \in Stopped : csi[p] = {} /\ fixed' = fixed \cup {p}
<1>1. UNCHANGED <<log, pod, inUse, crashes, noise>>
  BY DEF OmStep
<1>2. faults' \in {faults, faults + 1}
  BY DEF OmStep, Fault, ReadLog, EndOfLines, SkipLine, OrphanLine, PickVolume, UnmountVolume,
         RemoveMountDir, RemoveJson, RemoveVolumeDir, ReferenceLine, CheckLink, RemoveLink
<1>3. CASE OrphanLine
  <2>1. Head(om.lines).uid \in Stopped
    BY <1>3, HeadIsComplaint, SoundIsInvariant
       DEF TypeOK, OnlyStopped, OrphanLine, IsKind, Complaints
  <2> QED
    BY <1>1, <1>2, <1>3, <2>1 DEF OrphanLine, files, TypeOK
<1>4. CASE RemoveVolumeDir
  BY <1>1, <1>2, <1>4 DEF RemoveVolumeDir, TypeOK
<1>5. CASE ~(OrphanLine \/ RemoveVolumeDir)
  BY <1>1, <1>2, <1>5
     DEF OmStep, files, TypeOK, ReadLog, EndOfLines, SkipLine, PickVolume,
         UnmountVolume, RemoveMountDir, RemoveJson, ReferenceLine, CheckLink, RemoveLink
<1> QED
  BY <1>3, <1>4, <1>5

\* The loop keeps what the invariant says of it, whatever kubelet may have done
\* to the files.
LEMMA OmStepStaysSound ==
  ASSUME TypeOK, OnlyStopped, Working, OmStep
  PROVE  /\ TypeOK' /\ OnlyStopped' /\ Working'
         /\ UnmountedFirst'
<1>1. Stopped' = Stopped /\ Complaints' = Complaints
  BY OmStepFiles DEF Stopped, Complaints
<1>2. Sound(om') /\ (om'.pc = "json" => Here' \cap mounted' = {})
  BY OmStepIsSound, SoundIsInvariant DEF TypeOK, OnlyStopped
<1>3. Sound(om)'
  BY <1>1, <1>2 DEF Sound
<1>4. TypeOK'
  BY <1>2, OmStepFiles DEF TypeOK, Sound, Stopped
<1>5. OnlyStopped' /\ Working'
  BY <1>1, <1>3, OmStepFiles DEF OnlyStopped, Working, Sound
<1> QED
  BY <1>2, <1>4, <1>5 DEF UnmountedFirst, At

LEMMA OmStepKeeps ==
  ASSUME IInv, OmStep
  PROVE  IInv'
<1>1. TypeOK' /\ OnlyStopped' /\ Working' /\ UnmountedFirst'
  BY OmStepStaysSound DEF IInv
<1>2. JsonKeptWhileMounted'
  <2>1. CASE json' = json
    BY <2>1, OmStepFiles DEF IInv, JsonKeptWhileMounted
  <2>2. CASE At("json") /\ json' = json \ Here
    BY <2>2, OmStepFiles DEF IInv, UnmountedFirst, JsonKeptWhileMounted
  <2> QED
    BY <2>1, <2>2, OmStepFiles DEF IInv
<1>3. LiveVolumesKnown'
  <2> SUFFICES ASSUME NEW p \in Pods, pod[p] = "live", NEW v \in csi'[p]
               PROVE  <<p, v>> \in json'
    BY OmStepFiles DEF IInv, LiveVolumesKnown
  <2>1. <<p, v>> \in json
    BY OmStepFiles DEF IInv, LiveVolumesKnown
  <2>2. <<p, v>> \notin Here
    BY DEF IInv, OnlyStopped, Stopped, Here
  <2> QED
    BY <2>1, <2>2, OmStepFiles DEF IInv
<1>4. FixedAreClean'
  BY OmStepFiles DEF IInv, TypeOK, FixedAreClean, Stopped
<1> QED
  BY <1>1, <1>2, <1>3, <1>4 DEF IInv

\* A new process: FixedPodList and the work at hand are lost.
LEMMA NewProcess ==
  ASSUME TypeOK, OnlyStopped, om' = Asleep, fixed' = {}, faults' \in Nat, crashes' \in Nat,
         UNCHANGED <<log, pod, csi, mdir, mounted, json, links, inUse, noise>>
  PROVE  TypeOK' /\ OnlyStopped' /\ Working' /\ UnmountedFirst'
<1>1. Stopped' = Stopped /\ Complaints' = Complaints
  BY DEF Stopped, Complaints
<1>2. Sound(om)'
  BY <1>1, AsleepIsSound DEF Sound
<1>3. TypeOK'
  BY <1>2 DEF TypeOK, Sound
<1>4. OnlyStopped' /\ Working'
  BY <1>1, <1>2 DEF OnlyStopped, Working, Sound
<1>5. UnmountedFirst'
  BY DEF UnmountedFirst, At, Asleep
<1> QED
  BY <1>3, <1>4, <1>5

LEMMA CrashKeeps ==
  ASSUME IInv, Crash
  PROVE  IInv'
<1>1. om' = Asleep /\ fixed' = {} /\ crashes' \in Nat
      /\ UNCHANGED <<log, pod, csi, mdir, mounted, json, links, inUse, faults, noise>>
  BY DEF Crash, files, devices, IInv, TypeOK
<1>2. TypeOK' /\ OnlyStopped' /\ Working' /\ UnmountedFirst'
  BY <1>1, NewProcess DEF IInv, TypeOK
<1> QED
  BY <1>1, <1>2 DEF IInv, LiveVolumesKnown, JsonKeptWhileMounted, FixedAreClean

-----------------------------------------------------------------------------
(***************************************************************************)
(* Kubelet.                                                                *)
(***************************************************************************)
\* A step of kubelet leaves the loop alone; the rest follows when it stops no
\* pod it had not started and mounts nothing in a stopped pod.
LEMMA KubeletKeeps ==
  ASSUME IInv, TypeOK', UNCHANGED <<om, fixed>>,
         Stopped \subseteq Stopped', log' \in Seq(Complaints'),
         LiveVolumesKnown', JsonKeptWhileMounted',
         \A p \in Stopped : \A v \in Vols : <<p, v>> \in mounted' => <<p, v>> \in mounted,
         \A p \in Stopped : csi'[p] \subseteq csi[p]
  PROVE  IInv'
<1>1. OnlyStopped' /\ Working'
  BY ComplaintsGrow DEF IInv, OnlyStopped, Working
<1>2. UnmountedFirst'
  BY DEF IInv, UnmountedFirst, At, Here, OnlyStopped, TypeOK, Goroutine
<1>3. FixedAreClean'
  BY DEF IInv, FixedAreClean, OnlyStopped
<1> QED
  BY <1>1, <1>2, <1>3 DEF IInv

\* A line about a stopped pod, or about none, joins the window.
LEMMA LogType ==
  ASSUME TypeOK, log \in Seq(Complaints), NEW line \in Complaints, Log(line)
  PROVE  log' \in Seq(Complaints) /\ log' \in Seq(Lines) /\ Len(log') <= TailLines
<1> DEFINE l == Append(log, line)
<1>1. \A S : log \in Seq(S) /\ line \in S => l \in Seq(S) /\ Len(l) = Len(log) + 1 /\ l # <<>>
  OBVIOUS
<1>2. l \in Seq(Complaints) /\ l \in Seq(Lines) /\ Len(l) = Len(log) + 1 /\ l # <<>>
  BY <1>1 DEF TypeOK, Complaints
<1>3. Tail(l) \in Seq(Complaints) /\ Tail(l) \in Seq(Lines) /\ Len(Tail(l)) = Len(log)
  BY <1>2, HeadTailProperties DEF TypeOK
<1>4. log' = IF Len(l) > TailLines THEN Tail(l) ELSE l
  BY DEF Log
<1> HIDE DEF l
<1>5. Len(log) \in Nat /\ Len(log) <= TailLines
  BY LenProperties DEF TypeOK
<1> QED
  BY <1>2, <1>3, <1>4, <1>5, SwitchesAssumption

LEMMA LogKeeps ==
  ASSUME IInv, NEW line \in Complaints, Log(line), noise' \in Nat,
         UNCHANGED <<pod, files, devices, om, fixed, faults, crashes>>
  PROVE  IInv'
<1>1. log' \in Seq(Complaints) /\ log' \in Seq(Lines) /\ Len(log') <= TailLines
  BY LogType DEF IInv, OnlyStopped
<1>2. Stopped' = Stopped /\ Complaints' = Complaints
  BY DEF Stopped, Complaints
<1>3. TypeOK'
  BY <1>1 DEF IInv, TypeOK, files, devices
<1>4. LiveVolumesKnown' /\ JsonKeptWhileMounted' /\ UNCHANGED <<csi, mounted>>
  BY DEF IInv, LiveVolumesKnown, JsonKeptWhileMounted, files
<1> QED
  BY <1>1, <1>2, <1>3, <1>4, KubeletKeeps

\* The steps of kubelet that write no line.
LEMMA PodKeeps ==
  ASSUME IInv, NEW p \in Pods, StartPod(p) \/ OrphanPod(p) \/ RemovePodDir(p)
  PROVE  IInv'
<1>1. UNCHANGED <<om, fixed, log, mdir, mounted, links, inUse, faults, crashes, noise>>
  BY DEF StartPod, OrphanPod, RemovePodDir, files, devices, bounds
<1>2. Stopped \subseteq Stopped'
  BY DEF StartPod, OrphanPod, RemovePodDir, files, Stopped, IInv, TypeOK
<1>3. TypeOK'
  BY <1>1 DEF StartPod, OrphanPod, RemovePodDir, files, IInv, TypeOK, PodStates
<1>4. LiveVolumesKnown'
  BY DEF StartPod, OrphanPod, RemovePodDir, files, IInv, TypeOK, LiveVolumesKnown
<1>5. JsonKeptWhileMounted'
  BY <1>1 DEF StartPod, OrphanPod, RemovePodDir, files, IInv, JsonKeptWhileMounted
<1>6. \A q \in Stopped : csi'[q] \subseteq csi[q]
  BY DEF StartPod, OrphanPod, RemovePodDir, files, IInv, TypeOK, Stopped
<1>7. log' \in Seq(Complaints')
  BY <1>1, <1>2, ComplaintsGrow DEF IInv, OnlyStopped
<1> QED
  BY <1>1, <1>2, <1>3, <1>4, <1>5, <1>6, <1>7, KubeletKeeps

LEMMA VolumeKeeps ==
  ASSUME IInv, NEW p \in Pods, NEW v \in Vols, Publish(p, v) \/ TearDown(p, v)
  PROVE  IInv'
<1>1. UNCHANGED <<om, fixed, log, pod, links, inUse, faults, crashes, noise>>
  BY DEF Publish, TearDown, devices, bounds
<1>2. Stopped' = Stopped /\ Complaints' = Complaints
  BY <1>1 DEF Stopped, Complaints
<1>3. TypeOK'
  BY <1>1 DEF Publish, TearDown, IInv, TypeOK
<1>4. LiveVolumesKnown'
  BY DEF Publish, TearDown, IInv, TypeOK, LiveVolumesKnown
<1>5. JsonKeptWhileMounted'
  BY DEF Publish, TearDown, IInv, LiveVolumesKnown, JsonKeptWhileMounted
<1>6. \A q \in Stopped : csi'[q] \subseteq csi[q]
  BY DEF Publish, TearDown, IInv, TypeOK, Stopped
<1>7. \A q \in Stopped, w \in Vols : <<q, w>> \in mounted' => <<q, w>> \in mounted
  BY DEF Publish, TearDown, Stopped
<1> QED
  BY <1>1, <1>2, <1>3, <1>4, <1>5, <1>6, <1>7, KubeletKeeps DEF IInv, OnlyStopped

LEMMA MapLinkKeeps ==
  ASSUME IInv, NEW f \in Links, MapLink(f)
  PROVE  IInv'
<1>1. UNCHANGED <<om, fixed, log, pod, csi, mdir, mounted, json, faults, crashes, noise>>
  BY DEF MapLink, files, bounds
<1>2. Stopped' = Stopped /\ Complaints' = Complaints
  BY <1>1 DEF Stopped, Complaints
<1>3. TypeOK'
  BY <1>1 DEF MapLink, IInv, TypeOK
<1> QED
  BY <1>1, <1>2, <1>3, KubeletKeeps
     DEF IInv, OnlyStopped, LiveVolumesKnown, JsonKeptWhileMounted

LEMMA NextKeeps == IInv /\ [Next]_vars => IInv'
<1> SUFFICES ASSUME IInv, [Next]_vars PROVE IInv'
  OBVIOUS
<1>1. CASE OmStep
  BY <1>1, OmStepKeeps
<1>2. CASE Crash
  BY <1>2, CrashKeeps
<1>3. CASE \E p \in Pods : StartPod(p) \/ OrphanPod(p) \/ RemovePodDir(p)
  BY <1>3, PodKeeps
<1>4. CASE \E p \in Pods, v \in Vols : Publish(p, v) \/ TearDown(p, v)
  BY <1>4, VolumeKeeps
<1>5. CASE \E f \in Links : MapLink(f)
  BY <1>5, MapLinkKeeps
<1>6. ASSUME NEW p \in Pods, LogOrphan(p)
      PROVE  IInv'
  <2>1. [kind |-> "orphan", uid |-> p] \in Complaints
    BY <1>6 DEF LogOrphan, Complaints, Lines, Stopped
  <2> QED
    BY <1>6, <2>1, LogKeeps DEF LogOrphan, bounds, IInv, TypeOK
<1>7. CASE LogReference
  <2>1. \A fs \in SUBSET links : [kind |-> "reference", refs |-> fs] \in Complaints
    BY DEF IInv, TypeOK, Complaints, Lines
  <2> QED
    BY <1>7, <2>1, LogKeeps DEF LogReference, bounds, IInv, TypeOK
<1>8. CASE LogOther
  <2>1. [kind |-> "other"] \in Complaints
    BY DEF Complaints, Lines
  <2> QED
    BY <1>8, <2>1, LogKeeps DEF LogOther, IInv, TypeOK
<1>9. CASE UNCHANGED vars
  <2>1. Stopped' = Stopped /\ Complaints' = Complaints
    BY <1>9 DEF vars, Stopped, Complaints
  <2> QED
    BY <1>9, <2>1, KubeletKeeps
       DEF vars, files, devices, bounds, IInv, TypeOK, OnlyStopped, LiveVolumesKnown,
           JsonKeptWhileMounted
<1> QED
  BY <1>1, <1>2, <1>3, <1>4, <1>5, <1>6, <1>7, <1>8, <1>9 DEF Next, Kubelet

LEMMA Inductive == Spec => []IInv
BY InitHolds, NextKeeps, PTL DEF Spec

\* Every variable keeps its type; in particular the window that ReadFileLinesFromHost
\* reads never exceeds its length.
THEOREM TypeCorrect == Spec => []TypeOK
<1>1. IInv => TypeOK
  BY DEF IInv
<1> QED
  BY <1>1, Inductive, PTL

\* FixOrphanedPodIssue never removes the vol_data.json of a volume that is mounted,
\* whatever kubelet mounts, unmounts and removes between its steps.
THEOREM JsonIsKept == Spec => []JsonKeptWhileMounted
<1>1. IInv => JsonKeptWhileMounted
  BY DEF IInv
<1> QED
  BY <1>1, Inductive, PTL

\* A pod that FixOrphanedPodIssue puts into FixedPodList has no volume left, and
\* gets none later.
THEOREM FixedStayClean == Spec => []FixedAreClean
<1>1. IInv => FixedAreClean
  BY DEF IInv
<1> QED
  BY <1>1, Inductive, PTL

=============================================================================
