---------------------------- MODULE SerialProofs ----------------------------
(***************************************************************************)
(* The handlers take no lock: what protects a volume from two of them is   *)
(* that kubelet keeps one call per volume in progress.  These theorems say *)
(* what that discipline buys, as long as kubelet has not given up on a     *)
(* call that is still running (timeouts = 0).                              *)
(***************************************************************************)
EXTENDS NodeServerProofs

Busy(h) == call[h].pc # "idle"

\* Kubelet waits for every call in progress.
AllAwaited == \A h \in Handlers : Busy(h) <=> call[h].awaited

\* Two goroutines on one volume are unpublishing it from different pods.
OnePerVolume ==
  \A g, h \in Handlers :
    g # h /\ Busy(g) /\ Busy(h) /\ Vol(g) = Vol(h) =>
      /\ call[g].op = "unpublish" /\ call[h].op = "unpublish"
      /\ call[g].target # call[h].target

Serial == AllAwaited /\ OnePerVolume

LEMMA RequestSerial ==
  ASSUME TypeOK, Serial, NEW h \in Handlers, NEW t \in Targets,
         CallPublish(h, t) \/ CallUnpublish(h, t) \/ CallExpand(h, t)
  PROVE  Serial'
<1>1. PICK op \in {"publish", "unpublish", "expand"} :
        MayCall(op, t) /\ call'[h].op = op
  BY DEF TypeOK, CallPublish, CallUnpublish, CallExpand, Request, Idle
<1>2. /\ \A g \in Handlers \ {h} : call'[g] = call[g]
      /\ call'[h].pc # "idle" /\ call'[h].awaited /\ call'[h].target = t
  BY RequestFrame
<1>3. AllAwaited'
  BY <1>2 DEF Serial, AllAwaited, Busy
<1>4. ASSUME NEW g \in Handlers, g # h, Busy(g), Vol(g) = VolumeOf[t]
      PROVE  op = "unpublish" /\ call[g].op = "unpublish" /\ call[g].target # t
  BY <1>1, <1>4 DEF MayCall, Serial, AllAwaited, Vol
<1>5. OnePerVolume'
  BY <1>1, <1>2, <1>4 DEF Serial, OnePerVolume, Busy, Vol
<1> QED
  BY <1>3, <1>5 DEF Serial

LEMMA HandlerStepStaysBusy ==
  ASSUME TypeOK, NEW h \in Handlers, HandlerStep(h)
  PROVE  call'[h].pc # "idle"
  BY SMTT(60) DEF TypeOK, Calls, At, Goto, HandlerStep, CommandFails, Reset,
         ParseDirect, StatDevice, CreateReadsPv, ReadPv, CreateVolume,
         PublishBranch, AddDirectVolume, PublishIsMounted, CheckFsType,
         FormatDevice, Mount, AfterFormat, AfterMount, ResizeReadsPv, LvDisplay,
         LvExtend, ResizeFs, ExpandBranch, ExpandReadsPv, UnpublishBranch,
         RemoveDirectVolume, UnpublishIsMounted, Unmount

LEMMA NextSerial ==
  ASSUME timeouts' = 0, TypeOK, CallsOK, Serial, [Next]_vars
  PROVE  Serial'
<1> USE DEF Serial, AllAwaited, OnePerVolume, Busy, Vol
<1>1. ASSUME NEW h \in Handlers, HandlerStep(h)
      PROVE  Serial'
  <2>1. /\ \A g \in Handlers \ {h} : call'[g] = call[g]
        /\ call'[h].target = call[h].target
        /\ call'[h].op = call[h].op
        /\ call'[h].awaited = call[h].awaited
        /\ call[h].pc # "idle"
    BY <1>1, HandlerStepFrame
  <2>2. call'[h].pc # "idle"
    BY <1>1, HandlerStepStaysBusy
  <2> QED
    BY <2>1, <2>2
<1>2. CASE Crash \/ \E h \in Handlers : Panics(h)
  BY <1>2 DEF Crash, Panics, Restart, Idle
<1>3. CASE \E h \in Handlers : Respond(h)
  BY <1>3 DEF Respond, Idle, TypeOK
<1>4. CASE \E h \in Handlers : GiveUp(h)
  BY <1>4 DEF GiveUp, TypeOK
<1>5. CASE \E h \in Handlers, t \in Targets :
             CallPublish(h, t) \/ CallUnpublish(h, t) \/ CallExpand(h, t)
  BY <1>5, RequestSerial
<1>6. CASE \/ \E t \in Targets : StopPod(t) \/ PodWrites(t)
           \/ \E v \in Volumes : GrowPv(v)
           \/ UNCHANGED vars
  BY <1>6 DEF StopPod, PodWrites, GrowPv, vars, handlerVars
<1> QED
  BY <1>1, <1>2, <1>3, <1>4, <1>5, <1>6 DEF Next

-----------------------------------------------------------------------------
(***************************************************************************)
(* formatDevice runs on blank devices only.                                *)
(***************************************************************************)
\* Data lives on formatted devices, and the device at mkfs is still as blank
\* as checkFSType found it.
BlankAtMkfs ==
  /\ \A v \in data : fs[v] > 0
  /\ \A h \in Handlers : call[h].pc = "mkfs" => fs[Vol(h)] = 0

LEMMA HandlerStepBlank ==
  ASSUME TypeOK, CallsOK, Serial, FilesystemFitsDevice, PreparedForMount, BlankAtMkfs,
         NEW h \in Handlers, HandlerStep(h)
  PROVE  BlankAtMkfs' /\ data \subseteq data'
<1>1. data' = data
  <2>1. CASE FormatDevice(h)
    <3>1. Vol(h) \notin data
      BY <2>1 DEF FormatDevice, BlankAtMkfs, At
    <3>2. data' = data \ {Vol(h)} \/ data' = data
      BY <2>1 DEF FormatDevice
    <3> QED
      BY <3>1, <3>2
  <2>2. CASE ~FormatDevice(h)
    BY <2>2 DEF HandlerStep, hostVars, CommandFails, Reset, ParseDirect, StatDevice,
         CreateReadsPv, CreateVolume, PublishBranch, AddDirectVolume,
         PublishIsMounted, CheckFsType, Mount, ResizeReadsPv, LvDisplay, LvExtend,
         ResizeFs, ExpandBranch, ExpandReadsPv, UnpublishBranch,
         RemoveDirectVolume, UnpublishIsMounted, Unmount
  <2> QED
    BY <2>1, <2>2
<1>2. \A v \in data' : fs'[v] > 0
  BY <1>1, HandlerStepSizes, HandlerStepTypes DEF BlankAtMkfs, TypeOK
<1>3. \/ fs' = fs
      \/ /\ fs' = [fs EXCEPT ![Vol(h)] = lv[Vol(h)]]
         /\ call[h].op \in {"publish", "expand"}
  BY DEF CallsOK, At, HandlerStep, hostVars, CommandFails, Reset, ParseDirect, StatDevice,
         CreateReadsPv, CreateVolume, PublishBranch, AddDirectVolume,
         PublishIsMounted, CheckFsType, FormatDevice, Mount, ResizeReadsPv,
         LvDisplay, LvExtend, ResizeFs, ExpandBranch, ExpandReadsPv,
         UnpublishBranch, RemoveDirectVolume, UnpublishIsMounted, Unmount
<1>4. ASSUME NEW g \in Handlers, g # h, call'[g].pc = "mkfs"
      PROVE  fs'[Vol(g)'] = 0
  <2>1. call'[g] = call[g] /\ Vol(g)' = Vol(g) /\ Busy(h)
    BY <1>4, HandlerStepFrame DEF Vol, Busy
  <2>2. call[g].op = "publish" /\ Busy(g)
    BY <1>4, <2>1 DEF CallsOK, Busy
  <2>3. Vol(g) # Vol(h)
    BY <1>4, <2>1, <2>2 DEF Serial, OnePerVolume
  <2>4. fs'[Vol(g)] = fs[Vol(g)]
    BY <1>3, <2>3, <2>2, VolType DEF TypeOK, Busy
  <2> QED
    BY <1>4, <2>1, <2>4 DEF BlankAtMkfs
<1>5. call'[h].pc = "mkfs" => fs'[Vol(h)'] = 0
  <2>1. Vol(h)' = Vol(h)
    BY HandlerStepFrame DEF Vol
  <2>2. CASE CheckFsType(h)
    BY <2>1, <2>2
       DEF CheckFsType, TypeOK, Calls, Goto, hostVars, AfterFormat, AfterMount
  <2>3. CASE ~CheckFsType(h)
    BY SMTT(60), <2>3 DEF TypeOK, Calls, At, Goto, HandlerStep, CommandFails, Reset,
         ParseDirect, StatDevice, CreateReadsPv, ReadPv, CreateVolume,
         PublishBranch, AddDirectVolume, PublishIsMounted, FormatDevice, Mount,
         AfterFormat, AfterMount, ResizeReadsPv, LvDisplay, LvExtend, ResizeFs,
         ExpandBranch, ExpandReadsPv, UnpublishBranch, RemoveDirectVolume,
         UnpublishIsMounted, Unmount
  <2> QED
    BY <2>2, <2>3
<1> QED
  BY <1>1, <1>2, <1>4, <1>5 DEF BlankAtMkfs

LEMMA NextBlank ==
  ASSUME TypeOK, CallsOK, Serial, FilesystemFitsDevice, PreparedForMount, BlankAtMkfs,
         [Next]_vars
  PROVE  BlankAtMkfs' /\ data \subseteq data'
<1>1. CASE \E h \in Handlers : HandlerStep(h)
  BY <1>1, HandlerStepBlank
<1>2. ASSUME UNCHANGED fs, data \subseteq data', \A v \in data' : fs[v] > 0,
             \A h \in Handlers : \/ call'[h].pc # "mkfs"
                                 \/ call'[h].pc = call[h].pc /\ Vol(h)' = Vol(h)
      PROVE  BlankAtMkfs' /\ data \subseteq data'
  BY <1>2 DEF BlankAtMkfs
<1>3. CASE Crash \/ \E h \in Handlers : Panics(h)
  BY <1>2, <1>3 DEF BlankAtMkfs, Crash, Panics, Restart, Idle, hostVars
<1>4. CASE \E h \in Handlers : Respond(h) \/ GiveUp(h)
  BY <1>2, <1>4 DEF BlankAtMkfs, Respond, GiveUp, Idle, hostVars, Vol, TypeOK, Calls
<1>5. CASE \E h \in Handlers, t \in Targets :
             CallPublish(h, t) \/ CallUnpublish(h, t) \/ CallExpand(h, t)
  BY <1>2, <1>5, RequestFrame DEF BlankAtMkfs, hostVars, Vol
<1>6. CASE \E t \in Targets : PodWrites(t)
  BY <1>2, <1>6 DEF BlankAtMkfs, FilesystemFitsDevice, PodWrites, handlerVars, Vol
<1>7. CASE \/ \E t \in Targets : StopPod(t)
           \/ \E v \in Volumes : GrowPv(v)
           \/ UNCHANGED vars
  BY <1>2, <1>7 DEF BlankAtMkfs, StopPod, GrowPv, vars, handlerVars, hostVars, Vol
<1> QED
  BY <1>1, <1>3, <1>4, <1>5, <1>6, <1>7 DEF Next

LEMMA InitSerial == Init => Serial /\ BlankAtMkfs
  BY DEF Init, Serial, AllAwaited, OnePerVolume, BlankAtMkfs, Busy, Idle

\* As long as kubelet waits for its calls to end, no step of the driver
\* destroys what a pod has written, for any number of goroutines, volumes and
\* pods and with any failures and restarts.
THEOREM DataIsSafe ==
  ASSUME MaxTimeouts = 0
  PROVE  Spec => DataSurvives
<1> DEFINE I == /\ TypeOK /\ CallsOK /\ FilesystemFitsDevice /\ PreparedForMount
                /\ timeouts = 0 /\ Serial /\ BlankAtMkfs
<1>1. Init => I
  BY InitTypes, InitSerial
     DEF Init, FilesystemFitsDevice, PreparedForMount, Idle
<1>2. I /\ [Next]_vars => I'
  <2> SUFFICES ASSUME I, [Next]_vars PROVE I'
    OBVIOUS
  <2>1. timeouts' = 0
    BY CountersGrow
  <2> QED
    BY <2>1, NextTypes, NextFits, NextSerial, NextBlank
<1>3. I /\ [Next]_vars => [data \subseteq data']_vars
  BY NextBlank
<1> QED
  BY <1>1, <1>2, <1>3, PTL DEF Spec, DataSurvives

-----------------------------------------------------------------------------
(***************************************************************************)
(* A successful unpublish leaves no mount behind.                          *)
(***************************************************************************)
\* Publish is never at work on a pod that has left, and an unpublish about to
\* report success has nothing mounted at its path.
NothingLeft == \A t \in Targets : phase[t] = "gone" => t \notin mnt

Cleared ==
  /\ \A h \in Handlers : Busy(h) /\ call[h].op = "publish" => phase[call[h].target] # "gone"
  /\ \A h \in Handlers : call[h].pc = "ok" /\ call[h].op = "unpublish"
                           => call[h].target \notin mnt
  /\ NothingLeft

LEMMA HandlerStepCleared ==
  ASSUME faults' = 0, TypeOK, CallsOK, Serial, Cleared, NEW h \in Handlers, HandlerStep(h)
  PROVE  Cleared'
<1>1. /\ \A g \in Handlers \ {h} : call'[g] = call[g]
      /\ call'[h].target = call[h].target
      /\ call'[h].op = call[h].op
      /\ Busy(h)
      /\ phase' = phase
  BY HandlerStepFrame DEF Busy
<1>2. \/ mnt' \subseteq mnt
      \/ call[h].op = "publish" /\ mnt' = mnt \cup {call[h].target}
  BY DEF CallsOK, At, HandlerStep, hostVars, CommandFails, Reset, ParseDirect, StatDevice,
         CreateReadsPv, CreateVolume, PublishBranch, AddDirectVolume,
         PublishIsMounted, CheckFsType, FormatDevice, Mount, ResizeReadsPv,
         LvDisplay, LvExtend, ResizeFs, ExpandBranch, ExpandReadsPv,
         UnpublishBranch, RemoveDirectVolume, UnpublishIsMounted, Unmount
<1>3. \A g \in Handlers : Busy(g)' /\ call'[g].op = "publish" => phase'[call'[g].target] # "gone"
  BY <1>1 DEF Cleared, Busy
<1>4. NothingLeft'
  BY <1>1, <1>2 DEF Cleared, NothingLeft
<1>5. ASSUME NEW g \in Handlers, g # h, call[g].pc = "ok", call[g].op = "unpublish"
      PROVE  call[g].target \notin mnt'
  BY <1>1, <1>2, <1>5 DEF Cleared, Serial, OnePerVolume, Busy, Vol
<1>6. call'[h].pc = "ok" /\ call[h].op = "unpublish" => call[h].target \notin mnt'
  <2>1. ~Fault
    BY DEF Fault, TypeOK
  <2>2. CASE UnpublishIsMounted(h) \/ Unmount(h)
    BY <2>1, <2>2
       DEF TypeOK, Calls, Goto, hostVars, UnpublishIsMounted, IsMounted, Unmount
  <2>3. CASE UnpublishBranch(h) \/ RemoveDirectVolume(h)
    BY <2>3 DEF TypeOK, Calls, Goto, UnpublishBranch, RemoveDirectVolume
  <2>4. CASE ~(\/ UnpublishIsMounted(h) \/ Unmount(h)
               \/ UnpublishBranch(h) \/ RemoveDirectVolume(h))
    <3>1. call[h].op # "unpublish"
      BY <2>1, <2>4 DEF CallsOK, At, HandlerStep, CommandFails, Reset, ParseDirect,
         StatDevice, CreateReadsPv, CreateVolume, PublishBranch, AddDirectVolume,
         PublishIsMounted, CheckFsType, FormatDevice, Mount, ResizeReadsPv,
         LvDisplay, LvExtend, ResizeFs, ExpandBranch, ExpandReadsPv
    <3> QED
      BY <3>1
  <2> QED
    BY <2>2, <2>3, <2>4
<1> QED
  BY <1>1, <1>3, <1>4, <1>5, <1>6 DEF Cleared

LEMMA RespondCleared ==
  ASSUME TypeOK, CallsOK, Serial, Cleared, NEW h \in Handlers, Respond(h)
  PROVE  Cleared'
<1>1. /\ \A g \in Handlers : call'[g] = IF g = h THEN Idle ELSE call[g]
      /\ mnt' = mnt
  BY DEF Respond, TypeOK, hostVars
<1>2. Busy(h) /\ call[h].target \in Targets
  BY DEF Respond, Busy, CallsOK
<1>3. ASSUME NEW t \in Targets, phase'[t] = "gone", phase[t] # "gone"
      PROVE  t = call[h].target /\ Accepted(h, "unpublish")
  BY <1>3 DEF Respond, TypeOK
<1>4. NothingLeft'
  <2> SUFFICES ASSUME NEW t \in Targets, phase'[t] = "gone" PROVE t \notin mnt
    BY <1>1 DEF NothingLeft
  <2>1. CASE phase[t] = "gone"
    BY <2>1 DEF Cleared, NothingLeft
  <2>2. CASE phase[t] # "gone"
    BY <1>3, <2>2 DEF Cleared, Accepted, At
  <2> QED
    BY <2>1, <2>2
<1>5. ASSUME NEW g \in Handlers, Busy(g)', call'[g].op = "publish"
      PROVE  phase'[call'[g].target] # "gone"
  <2>1. g # h /\ call'[g] = call[g] /\ Busy(g)
    BY <1>1, <1>5 DEF Idle, Busy
  <2>2. call[g].target \in Targets /\ phase[call[g].target] # "gone"
    BY <1>5, <2>1 DEF CallsOK, Cleared, Busy
  <2>3. ~(call[g].target = call[h].target /\ Accepted(h, "unpublish"))
    BY <1>2, <1>5, <2>1 DEF Serial, OnePerVolume, Vol
  <2> QED
    BY <1>3, <2>1, <2>2, <2>3
<1>6. \A g \in Handlers : call'[g].pc = "ok" /\ call'[g].op = "unpublish"
                            => call'[g].target \notin mnt'
  BY <1>1 DEF Cleared, Idle
<1> QED
  BY <1>4, <1>5, <1>6 DEF Cleared

LEMMA NextCleared ==
  ASSUME faults' = 0, TypeOK, CallsOK, Serial, Cleared, [Next]_vars
  PROVE  Cleared'
<1>1. CASE \E h \in Handlers : HandlerStep(h)
  BY <1>1, HandlerStepCleared
<1>2. CASE \E h \in Handlers : Respond(h)
  BY <1>2, RespondCleared
<1>3. CASE Crash \/ \E h \in Handlers : Panics(h)
  BY <1>3 DEF Cleared, NothingLeft, Busy, Crash, Panics, Restart, Idle,
     hostVars, kubeletVars
<1>4. CASE \E h \in Handlers : GiveUp(h)
  BY <1>4 DEF Cleared, NothingLeft, Busy, GiveUp, TypeOK, Calls, hostVars, kubeletVars
<1>5. ASSUME NEW h \in Handlers, NEW t \in Targets,
             CallPublish(h, t) \/ CallUnpublish(h, t) \/ CallExpand(h, t)
      PROVE  Cleared'
  <2>1. phase[t] # "gone"
    BY <1>5 DEF CallPublish, CallUnpublish, CallExpand
  <2>2. /\ \A g \in Handlers \ {h} : call'[g] = call[g]
        /\ call'[h].pc # "ok" /\ call'[h].target = t
        /\ mnt' = mnt /\ phase' = phase
    BY <1>5, RequestFrame DEF hostVars, kubeletVars
  <2> QED
    BY <2>1, <2>2 DEF Cleared, NothingLeft, Busy
<1>6. CASE \E t \in Targets : StopPod(t)
  BY <1>6 DEF Cleared, NothingLeft, Busy, CallsOK, StopPod, TypeOK, handlerVars, hostVars
<1>7. CASE \/ \E t \in Targets : PodWrites(t)
           \/ \E v \in Volumes : GrowPv(v)
           \/ UNCHANGED vars
  BY <1>7 DEF Cleared, NothingLeft, Busy, PodWrites, GrowPv, vars, handlerVars,
     hostVars, kubeletVars
<1> QED
  BY <1>1, <1>2, <1>3, <1>4, <1>5, <1>6, <1>7 DEF Next

\* As long as kubelet waited for its calls to end and IsMounted did not fail,
\* an unpublish that succeeded has left nothing mounted, although the handler
\* branches on a flag that other requests overwrite, and whatever crashes.
THEOREM UnpublishUnmounts == Spec => []NoLeakedMount
<1> DEFINE I == /\ TypeOK /\ CallsOK
                /\ timeouts = 0 => Serial
                /\ timeouts = 0 /\ faults = 0 => Cleared
<1>1. Init => I
  BY InitTypes, InitSerial DEF Init, Cleared, NothingLeft, Busy, Idle
<1>2. I /\ [Next]_vars => I'
  <2> SUFFICES ASSUME I, [Next]_vars PROVE I'
    OBVIOUS
  <2>1. TypeOK' /\ CallsOK'
    BY NextTypes
  <2>2. ASSUME timeouts' = 0 PROVE Serial'
    BY <2>2, CountersGrow, NextSerial DEF TypeOK
  <2>3. ASSUME timeouts' = 0, faults' = 0 PROVE Cleared'
    BY <2>3, CountersGrow, NextCleared DEF TypeOK
  <2> QED
    BY <2>1, <2>2, <2>3
<1>3. I => NoLeakedMount
  BY DEF Cleared, NothingLeft, NoLeakedMount
<1> QED
  BY <1>1, <1>2, <1>3, PTL DEF Spec

=============================================================================
