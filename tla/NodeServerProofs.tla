-------------------------- MODULE NodeServerProofs --------------------------
(***************************************************************************)
(* Theorems about NodeServer, for any number of goroutines, volumes and    *)
(* target paths and for any bounds.                                        *)
(***************************************************************************)
EXTENDS NodeServer, TLAPS

\* An integer division by a positive number keeps naturals natural.
LEMMA DivNat ==
  ASSUME NEW a \in Nat, NEW b \in Nat \ {0}
  PROVE  a \div b \in Nat
  OBVIOUS

LEMMA TimesNat ==
  ASSUME NEW a \in Nat, NEW b \in Nat
  PROVE  a * b \in Nat
  OBVIOUS

\* What getPvInfo asks of LVM is a natural number.
LEMMA LvmSizeNat ==
  ASSUME NEW b \in Nat
  PROVE  LvmSize(b) \in Nat
<1>1. b \div Gi \in Nat /\ b \div Mi \in Nat
  BY DivNat, UnitsAssumption
<1>2. (b \div Gi) * Gi \in Nat /\ (b \div Mi) * Mi \in Nat
  BY <1>1, TimesNat, UnitsAssumption
<1> QED
  BY <1>2 DEF LvmSize

\* What LVM allocates is a natural number.
LEMMA RoundUpNat ==
  ASSUME NEW n \in Nat
  PROVE  RoundUp(n) \in Nat
<1>1. n + Extent - 1 \in Nat
  BY UnitsAssumption
<1>2. (n + Extent - 1) \div Extent \in Nat
  BY <1>1, DivNat, UnitsAssumption
<1> QED
  BY <1>2, TimesNat, UnitsAssumption DEF RoundUp

-----------------------------------------------------------------------------
\* A goroutine that serves a request works on a target path, and its place in
\* the code tells which request it serves.
CallsOK ==
  \A h \in Handlers :
    /\ call[h].pc # "idle" => call[h].target \in Targets
    /\ call[h].pc \in {"ubranch", "remove", "uismounted", "umount"}
         => call[h].op = "unpublish"
    /\ call[h].pc \in {"xbranch", "xgetpv"} => call[h].op = "expand"
    /\ call[h].pc \in {"rgetpv", "lvdisplay", "lvextend", "resizefs"}
         => call[h].op \in {"publish", "expand"}
    /\ call[h].pc \in {"reset", "parse", "clear", "stat", "getpv", "lvcreate",
                       "branch", "add", "ismounted", "checkfs", "mkfs", "mount"}
         => call[h].op = "publish"

LEMMA IdleType == Idle \in Calls
  BY DEF Idle, Calls, PC

LEMMA InitTypes == Init => TypeOK /\ CallsOK
<1> SUFFICES ASSUME Init PROVE TypeOK /\ CallsOK
  OBVIOUS
<1>1. call \in [Handlers -> Calls]
  BY IdleType DEF Init
<1>2. phase \in [Targets -> Phases]
  BY DEF Init, Phases
<1>3. TypeOK
  BY <1>1, <1>2, ConstantsAssumption DEF Init, TypeOK
<1>4. CallsOK
  BY DEF Init, CallsOK, Idle
<1> QED
  BY <1>3, <1>4

\* A goroutine's target path is published for a volume.
LEMMA VolType ==
  ASSUME TypeOK, CallsOK, NEW h \in Handlers, call[h].pc # "idle"
  PROVE  Vol(h) \in Volumes
  BY ConstantsAssumption DEF CallsOK, Vol

\* Moving a goroutine on keeps the type of its record.
LEMMA GotoType ==
  ASSUME TypeOK, NEW h \in Handlers, NEW p \in PC, Goto(h, p)
  PROVE  call' \in [Handlers -> Calls]
  BY DEF TypeOK, Goto, Calls

LEMMA HandlerStepTypes ==
  ASSUME TypeOK, CallsOK, NEW h \in Handlers, HandlerStep(h)
  PROVE  TypeOK'
<1> USE DEF PC, At, hostVars
<1>1. UNCHANGED <<pvSize, phase, expanded, crashes, timeouts>>
  BY DEF HandlerStep, kubeletVars
<1>2. CASE CommandFails(h)
  BY <1>1, <1>2, GotoType DEF TypeOK, CommandFails, Fault
<1>3. CASE Reset(h)
  BY <1>1, <1>3, GotoType DEF TypeOK, Reset
<1>4. CASE ParseDirect(h)
  BY <1>1, <1>4, GotoType DEF TypeOK, ParseDirect
<1>5. CASE StatDevice(h)
  BY <1>1, <1>5, GotoType DEF TypeOK, StatDevice, Fault, Calls
<1>6. CASE CreateReadsPv(h)
  BY SMTT(60), <1>1, <1>6, LvmSizeNat, VolType
     DEF TypeOK, CreateReadsPv, ReadPv, Fault, Calls
<1>7. CASE CreateVolume(h)
  BY <1>1, <1>7, GotoType, RoundUpNat, VolType DEF TypeOK, CreateVolume, Calls
<1>8. CASE PublishBranch(h)
  BY <1>1, <1>8, GotoType DEF TypeOK, PublishBranch
<1>9. CASE AddDirectVolume(h)
  BY <1>1, <1>9, GotoType DEF TypeOK, AddDirectVolume, CallsOK
<1>10. CASE PublishIsMounted(h)
  BY <1>1, <1>10, GotoType DEF TypeOK, PublishIsMounted, IsMounted, Fault, Calls, CallsOK
<1>11. CASE CheckFsType(h)
  BY <1>1, <1>11, GotoType DEF TypeOK, CheckFsType, AfterFormat, AfterMount
<1>12. CASE FormatDevice(h)
  BY <1>1, <1>12, GotoType, VolType DEF TypeOK, FormatDevice, AfterFormat, AfterMount
<1>13. CASE Mount(h)
  BY <1>1, <1>13, GotoType DEF TypeOK, Mount, AfterMount, Fault, CallsOK
<1>14. CASE ResizeReadsPv(h)
  BY SMTT(60), <1>1, <1>14, LvmSizeNat, VolType
     DEF TypeOK, ResizeReadsPv, ReadPv, Fault, Calls
<1>15. CASE LvDisplay(h)
  BY <1>1, <1>15, GotoType DEF TypeOK, LvDisplay
<1>16. CASE LvExtend(h)
  BY <1>1, <1>16, GotoType, RoundUpNat, VolType DEF TypeOK, LvExtend, Calls
<1>17. CASE ResizeFs(h)
  BY <1>1, <1>17, GotoType, VolType DEF TypeOK, ResizeFs
<1>18. CASE ExpandBranch(h)
  BY <1>1, <1>18, GotoType DEF TypeOK, ExpandBranch
<1>19. CASE ExpandReadsPv(h)
  BY <1>1, <1>19, GotoType DEF TypeOK, ExpandReadsPv
<1>20. CASE UnpublishBranch(h)
  BY <1>1, <1>20, GotoType DEF TypeOK, UnpublishBranch
<1>21. CASE RemoveDirectVolume(h)
  BY <1>1, <1>21, GotoType DEF TypeOK, RemoveDirectVolume, Fault
<1>22. CASE UnpublishIsMounted(h)
  BY <1>1, <1>22, GotoType DEF TypeOK, UnpublishIsMounted, IsMounted, Fault
<1>23. CASE Unmount(h)
  BY <1>1, <1>23, GotoType DEF TypeOK, Unmount
<1> QED
  BY <1>2, <1>3, <1>4, <1>5, <1>6, <1>7, <1>8, <1>9, <1>10, <1>11, <1>12,
     <1>13, <1>14, <1>15, <1>16, <1>17, <1>18, <1>19, <1>20, <1>21, <1>22,
     <1>23 DEF HandlerStep

\* A handler step moves one goroutine on and leaves its request alone.
LEMMA HandlerStepFrame ==
  ASSUME TypeOK, NEW h \in Handlers, HandlerStep(h)
  PROVE  /\ \A g \in Handlers \ {h} : call'[g] = call[g]
         /\ call'[h].target = call[h].target
         /\ call'[h].op = call[h].op
         /\ call'[h].awaited = call[h].awaited
         /\ call[h].pc \notin {"idle", "ok", "err"}
         /\ UNCHANGED <<pvSize, phase, expanded, crashes, timeouts>>
<1>1. UNCHANGED <<pvSize, phase, expanded, crashes, timeouts>>
  BY DEF HandlerStep, kubeletVars
<1>2. call[h].pc \notin {"idle", "ok", "err"}
  BY DEF HandlerStep, At, CommandFails, Commands, Reset, ParseDirect, StatDevice,
         CreateReadsPv, CreateVolume, PublishBranch, AddDirectVolume,
         PublishIsMounted, CheckFsType, FormatDevice, Mount, ResizeReadsPv,
         LvDisplay, LvExtend, ResizeFs, ExpandBranch, ExpandReadsPv,
         UnpublishBranch, RemoveDirectVolume, UnpublishIsMounted, Unmount
<1>3. /\ \A g \in Handlers \ {h} : call'[g] = call[g]
      /\ call'[h].target = call[h].target
      /\ call'[h].op = call[h].op
      /\ call'[h].awaited = call[h].awaited
  BY SMTT(60) DEF TypeOK, Calls, HandlerStep, Goto, CommandFails, Reset, ParseDirect,
         StatDevice, CreateReadsPv, ReadPv, CreateVolume, PublishBranch,
         AddDirectVolume, PublishIsMounted, CheckFsType, FormatDevice, Mount,
         ResizeReadsPv, LvDisplay, LvExtend, ResizeFs, ExpandBranch,
         ExpandReadsPv, UnpublishBranch, RemoveDirectVolume, UnpublishIsMounted,
         Unmount
<1> QED
  BY <1>1, <1>2, <1>3

\* Each step of a handler leads to a place of the same request.
LEMMA HandlerStepCalls ==
  ASSUME TypeOK, CallsOK, NEW h \in Handlers, HandlerStep(h)
  PROVE  CallsOK'
<1>1. CASE \/ CommandFails(h) \/ Reset(h) \/ ParseDirect(h) \/ StatDevice(h)
           \/ CreateReadsPv(h) \/ CreateVolume(h) \/ PublishBranch(h)
  BY <1>1, HandlerStepFrame
     DEF CallsOK, TypeOK, Calls, At, Goto, CommandFails, Reset, ParseDirect, StatDevice,
         CreateReadsPv, ReadPv, CreateVolume, PublishBranch
<1>2. CASE \/ AddDirectVolume(h) \/ PublishIsMounted(h) \/ CheckFsType(h)
           \/ FormatDevice(h) \/ Mount(h)
  BY <1>2, HandlerStepFrame
     DEF CallsOK, TypeOK, Calls, At, Goto, AddDirectVolume, PublishIsMounted,
         CheckFsType, FormatDevice, Mount, AfterFormat, AfterMount
<1>3. CASE \/ ResizeReadsPv(h) \/ LvDisplay(h) \/ LvExtend(h) \/ ResizeFs(h)
           \/ ExpandBranch(h) \/ ExpandReadsPv(h)
  BY <1>3, HandlerStepFrame
     DEF CallsOK, TypeOK, Calls, At, Goto, ResizeReadsPv, ReadPv, LvDisplay,
         LvExtend, ResizeFs, ExpandBranch, ExpandReadsPv
<1>4. CASE \/ UnpublishBranch(h) \/ RemoveDirectVolume(h)
           \/ UnpublishIsMounted(h) \/ Unmount(h)
  BY <1>4, HandlerStepFrame
     DEF CallsOK, TypeOK, Calls, At, Goto, UnpublishBranch, RemoveDirectVolume,
         UnpublishIsMounted, Unmount
<1> QED
  BY <1>1, <1>2, <1>3, <1>4 DEF HandlerStep

-----------------------------------------------------------------------------
\* A new process has idle goroutines only.
LEMMA RestartTypes ==
  ASSUME TypeOK, CallsOK, Restart, faults' \in Nat, crashes' \in Nat
  PROVE  TypeOK' /\ CallsOK'
<1>1. call' \in [Handlers -> Calls]
  BY IdleType DEF Restart
<1>2. TypeOK'
  BY <1>1 DEF TypeOK, Restart, hostVars, kubeletVars
<1>3. CallsOK'
  BY DEF Restart, CallsOK, Idle
<1> QED
  BY <1>2, <1>3

LEMMA RequestTypes ==
  ASSUME TypeOK, CallsOK, NEW h \in Handlers, NEW t \in Targets, NEW want \in Nat,
         NEW op, NEW entry,
         \/ op = "publish" /\ entry = "reset"
         \/ op = "unpublish" /\ entry = "ubranch"
         \/ op = "expand" /\ entry = "xbranch",
         Request(h, op, t, entry, want)
  PROVE  TypeOK' /\ CallsOK'
<1>1. call' \in [Handlers -> Calls]
  BY DEF TypeOK, Request, Idle, Calls, PC
<1>2. TypeOK'
  BY <1>1 DEF TypeOK, Request, hostVars, kubeletVars, boundVars
<1>3. CallsOK'
  BY DEF TypeOK, CallsOK, Request, Idle
<1> QED
  BY <1>2, <1>3

LEMMA RespondTypes ==
  ASSUME TypeOK, CallsOK, NEW h \in Handlers, Respond(h)
  PROVE  TypeOK' /\ CallsOK'
<1>1. call' \in [Handlers -> Calls]
  BY IdleType DEF TypeOK, Respond
<1>2. phase' \in [Targets -> Phases]
  BY DEF TypeOK, Respond, Phases
<1>3. expanded' \in [Volumes -> Nat]
  BY DEF TypeOK, Respond, Calls
<1>4. TypeOK'
  BY <1>1, <1>2, <1>3 DEF TypeOK, Respond, hostVars, boundVars
<1>5. CallsOK'
  BY DEF TypeOK, CallsOK, Respond, Idle
<1> QED
  BY <1>4, <1>5

LEMMA NextTypes ==
  ASSUME TypeOK, CallsOK, [Next]_vars
  PROVE  TypeOK' /\ CallsOK'
<1>1. CASE \E h \in Handlers : HandlerStep(h)
  BY <1>1, HandlerStepTypes, HandlerStepCalls
<1>2. CASE \E h \in Handlers : Panics(h)
  BY <1>2, RestartTypes DEF Panics, Fault, TypeOK
<1>3. CASE \E h \in Handlers : Respond(h)
  BY <1>3, RespondTypes
<1>4. ASSUME NEW h \in Handlers, GiveUp(h)
      PROVE  TypeOK' /\ CallsOK'
  <2>1. call' \in [Handlers -> Calls]
    <3>1. [call[h] EXCEPT !.awaited = FALSE] \in Calls
      <4>1. call[h] \in Calls
        BY DEF TypeOK
      <4> QED
        BY ZenonT(60), <4>1 DEF Calls
    <3>2. call' = [call EXCEPT ![h] = [call[h] EXCEPT !.awaited = FALSE]]
      BY <1>4 DEF TypeOK, GiveUp
    <3> QED
      BY <3>1, <3>2 DEF TypeOK
  <2>2. TypeOK'
    BY <1>4, <2>1 DEF TypeOK, GiveUp, hostVars, kubeletVars
  <2>3. CallsOK'
    BY <1>4 DEF TypeOK, Calls, CallsOK, GiveUp
  <2> QED
    BY <2>2, <2>3
<1>5. CASE \E h \in Handlers, t \in Targets :
             CallPublish(h, t) \/ CallUnpublish(h, t) \/ CallExpand(h, t)
  <2>1. PICK h \in Handlers, t \in Targets :
          CallPublish(h, t) \/ CallUnpublish(h, t) \/ CallExpand(h, t)
    BY <1>5
  <2>2. pvSize[VolumeOf[t]] \in Nat
    BY ConstantsAssumption DEF TypeOK
  <2> QED
    BY <2>1, <2>2, RequestTypes DEF CallPublish, CallUnpublish, CallExpand
<1>6. CASE \E t \in Targets : StopPod(t)
  BY <1>6 DEF TypeOK, CallsOK, StopPod, Phases, handlerVars, hostVars, boundVars
<1>7. CASE \E t \in Targets : PodWrites(t)
  BY <1>7, ConstantsAssumption
     DEF TypeOK, CallsOK, PodWrites, handlerVars, kubeletVars, boundVars
<1>8. CASE \E v \in Volumes : GrowPv(v)
  BY <1>8, ConstantsAssumption
     DEF TypeOK, CallsOK, GrowPv, handlerVars, hostVars, kubeletVars, boundVars
<1>9. CASE Crash
  BY <1>9, RestartTypes DEF Crash, TypeOK
<1>10. CASE UNCHANGED vars
  BY <1>10 DEF TypeOK, CallsOK, vars, handlerVars, hostVars, kubeletVars, boundVars
<1> QED
  BY <1>1, <1>2, <1>3, <1>4, <1>5, <1>6, <1>7, <1>8, <1>9, <1>10 DEF Next

\* Every variable keeps its type, whatever fails: sizes stay natural numbers
\* although getPvInfo answers zero on failure.
THEOREM TypeCorrect == Spec => []TypeOK
<1>1. Init => TypeOK /\ CallsOK
  BY InitTypes
<1>2. TypeOK /\ CallsOK /\ [Next]_vars => (TypeOK /\ CallsOK)'
  BY NextTypes
<1> QED
  BY <1>1, <1>2, PTL DEF Spec

-----------------------------------------------------------------------------
(***************************************************************************)
(* A pod that runs has its volume.  Three facts make this inductive:       *)
(* unpublish is at work only on pods already stopped, so nothing is taken  *)
(* from the others; what publish found or made at the target is still      *)
(* there when it answers; and isMnt is false until IsMounted has run.      *)
(***************************************************************************)
InUse(t) == phase[t] \in {"starting", "running"}

\* Unpublish works on stopped pods only.
OnlyStoppedAreUnpublished ==
  \A h \in Handlers :
    call[h].pc # "idle" /\ call[h].op = "unpublish" => ~InUse(call[h].target)

\* Where publish has the target attached, as long as the pod is not stopped.
PublishedSoFar ==
  \A h \in Handlers :
    /\ InUse(call[h].target) /\ call[h].op = "publish"
    /\ \/ call[h].pc \in {"rgetpv", "lvdisplay", "lvextend", "resizefs", "ok"}
       \/ call[h].pc \in {"checkfs", "mkfs", "mount"} /\ call[h].isMnt
    => call[h].target \in Attached

NotMountedByDefault ==
  \A h \in Handlers :
    call[h].pc \in {"reset", "parse", "clear", "stat", "getpv", "lvcreate",
                    "branch", "add", "ismounted"} => ~call[h].isMnt

\* The inductive invariant behind PublishedSomewhere.
Custody ==
  /\ OnlyStoppedAreUnpublished
  /\ PublishedSoFar
  /\ NotMountedByDefault
  /\ PublishedSomewhere

\* A handler attaches or detaches its own target at most, and only unpublish
\* detaches.
LEMMA HandlerStepAttached ==
  ASSUME TypeOK, CallsOK, NEW h \in Handlers, HandlerStep(h)
  PROVE  \/ Attached' = Attached
         \/ Attached' = Attached \cup {call[h].target}
         \/ call[h].op = "unpublish" /\ Attached' = Attached \ {call[h].target}
<1>1. CASE RemoveDirectVolume(h) \/ Unmount(h)
  <2>1. call[h].op = "unpublish"
    BY <1>1 DEF CallsOK, At, RemoveDirectVolume, Unmount
  <2>2. CASE rec' = rec \ {call[h].target} /\ mnt' = mnt
    BY <2>1, <2>2 DEF Attached
  <2>3. CASE mnt' = mnt \ {call[h].target} /\ rec' = rec
    BY <2>1, <2>3 DEF Attached
  <2>4. CASE mnt' = mnt /\ rec' = rec
    BY <2>4 DEF Attached
  <2> QED
    BY <1>1, <2>2, <2>3, <2>4 DEF RemoveDirectVolume, Unmount
<1>2. CASE AddDirectVolume(h) \/ Mount(h)
  BY <1>2 DEF Attached, AddDirectVolume, Mount
<1>3. CASE ~(RemoveDirectVolume(h) \/ Unmount(h) \/ AddDirectVolume(h) \/ Mount(h))
  BY <1>3 DEF Attached, HandlerStep, hostVars, CommandFails, Reset, ParseDirect,
         StatDevice, CreateReadsPv, CreateVolume, PublishBranch,
         PublishIsMounted, CheckFsType, FormatDevice,
         ResizeReadsPv, LvDisplay, LvExtend, ResizeFs, ExpandBranch,
         ExpandReadsPv, UnpublishBranch, UnpublishIsMounted
<1> QED
  BY <1>1, <1>2, <1>3

\* The goroutine that moves keeps what publish has achieved.
LEMMA HandlerStepPublishes ==
  ASSUME TypeOK, CallsOK, Custody, NEW h \in Handlers, HandlerStep(h),
         call[h].op = "publish", InUse(call[h].target),
         \/ call'[h].pc \in {"rgetpv", "lvdisplay", "lvextend", "resizefs", "ok"}
         \/ call'[h].pc \in {"checkfs", "mkfs", "mount"} /\ call'[h].isMnt
  PROVE  call[h].target \in Attached'
<1> USE DEF TypeOK, Calls, At, Goto, Custody, PublishedSoFar, NotMountedByDefault,
            Attached, hostVars
<1>1. CASE \/ CommandFails(h) \/ Reset(h) \/ ParseDirect(h) \/ StatDevice(h)
           \/ CreateReadsPv(h) \/ CreateVolume(h) \/ PublishBranch(h)
  BY <1>1 DEF CommandFails, Reset, ParseDirect, StatDevice,
         CreateReadsPv, ReadPv, CreateVolume, PublishBranch
<1>2. CASE AddDirectVolume(h) \/ PublishIsMounted(h)
  BY <1>2 DEF AddDirectVolume, PublishIsMounted
<1>3. CASE CheckFsType(h) \/ FormatDevice(h) \/ Mount(h)
  BY <1>3 DEF CheckFsType, FormatDevice, Mount, AfterFormat, AfterMount
<1>4. CASE ResizeReadsPv(h) \/ LvDisplay(h) \/ LvExtend(h) \/ ResizeFs(h)
  BY <1>4 DEF ResizeReadsPv, ReadPv, LvDisplay, LvExtend, ResizeFs
<1>5. CASE \/ ExpandBranch(h) \/ ExpandReadsPv(h) \/ UnpublishBranch(h)
           \/ RemoveDirectVolume(h) \/ UnpublishIsMounted(h) \/ Unmount(h)
  BY <1>5 DEF CallsOK, ExpandBranch, ExpandReadsPv, UnpublishBranch,
         RemoveDirectVolume, UnpublishIsMounted, Unmount
<1> QED
  BY <1>1, <1>2, <1>3, <1>4, <1>5 DEF HandlerStep

LEMMA HandlerStepDefaults ==
  ASSUME TypeOK, NotMountedByDefault, NEW h \in Handlers, HandlerStep(h)
  PROVE  NotMountedByDefault'
<1> SUFFICES call'[h].pc \in {"reset", "parse", "clear", "stat", "getpv", "lvcreate",
                              "branch", "add", "ismounted"} => ~call'[h].isMnt
  BY HandlerStepFrame DEF NotMountedByDefault
<1> QED
  BY SMTT(60) DEF NotMountedByDefault, TypeOK, Calls, At, HandlerStep, Goto, CommandFails,
         Reset, ParseDirect, StatDevice, CreateReadsPv, ReadPv, CreateVolume,
         PublishBranch, AddDirectVolume, PublishIsMounted, CheckFsType,
         FormatDevice, Mount, AfterFormat, AfterMount, ResizeReadsPv, LvDisplay,
         LvExtend, ResizeFs, ExpandBranch, ExpandReadsPv, UnpublishBranch,
         RemoveDirectVolume, UnpublishIsMounted, Unmount

LEMMA HandlerStepCustody ==
  ASSUME TypeOK, CallsOK, Custody, NEW h \in Handlers, HandlerStep(h)
  PROVE  Custody'
<1>1. phase' = phase
  BY HandlerStepFrame
<1>2. OnlyStoppedAreUnpublished'
  BY <1>1, HandlerStepFrame DEF Custody, OnlyStoppedAreUnpublished, InUse
<1>3. \A t \in Targets : InUse(t) /\ t \in Attached => t \in Attached'
  BY HandlerStepAttached, HandlerStepFrame DEF Custody, OnlyStoppedAreUnpublished
<1>4. PublishedSoFar'
  <2> SUFFICES ASSUME NEW g \in Handlers,
                      InUse(call'[g].target), call'[g].op = "publish",
                      \/ call'[g].pc \in {"rgetpv", "lvdisplay", "lvextend", "resizefs", "ok"}
                      \/ call'[g].pc \in {"checkfs", "mkfs", "mount"} /\ call'[g].isMnt
               PROVE  call'[g].target \in Attached'
    BY <1>1 DEF PublishedSoFar, InUse
  <2>1. CASE g = h
    BY <2>1, HandlerStepPublishes, HandlerStepFrame
  <2>2. CASE g # h
    <3>1. call'[g] = call[g]
      BY <2>2, HandlerStepFrame
    <3>2. call[g].target \in Targets
      BY <3>1 DEF CallsOK
    <3>3. call[g].target \in Attached
      BY <3>1 DEF Custody, PublishedSoFar
    <3> QED
      BY <3>1, <3>2, <3>3, <1>3
  <2> QED
    BY <2>1, <2>2
<1>5. NotMountedByDefault'
  BY HandlerStepDefaults DEF Custody
<1>6. PublishedSomewhere'
  BY <1>1, <1>3 DEF Custody, PublishedSomewhere, InUse
<1> QED
  BY <1>2, <1>4, <1>5, <1>6 DEF Custody

LEMMA RespondCustody ==
  ASSUME TypeOK, CallsOK, Custody, NEW h \in Handlers, Respond(h)
  PROVE  Custody'
<1>1. \A g \in Handlers : call'[g] = IF g = h THEN Idle ELSE call[g]
  BY DEF Respond, TypeOK
<1>2. Attached' = Attached
  BY DEF Respond, hostVars, Attached
<1>3. \A t \in Targets : InUse(t)' => InUse(t)
  BY DEF Respond, TypeOK, InUse
<1>4. PublishedSomewhere'
  <2> SUFFICES ASSUME NEW t \in Targets, phase'[t] = "running"
               PROVE  t \in Attached
    BY <1>2 DEF PublishedSomewhere
  <2>1. CASE phase[t] = "running"
    BY <2>1 DEF Custody, PublishedSomewhere
  <2>2. CASE phase[t] # "running"
    <3>1. t = call[h].target /\ Accepted(h, "publish") /\ InUse(t)
      BY <2>2 DEF Respond, TypeOK, InUse
    <3> QED
      BY <3>1 DEF Accepted, At, Custody, PublishedSoFar
  <2> QED
    BY <2>1, <2>2
<1>5. OnlyStoppedAreUnpublished'
  BY <1>1, <1>3 DEF Custody, OnlyStoppedAreUnpublished, CallsOK, Idle, InUse
<1>6. PublishedSoFar'
  BY <1>1, <1>2, <1>3 DEF Custody, PublishedSoFar, CallsOK, Idle, InUse
<1>7. NotMountedByDefault'
  BY <1>1 DEF Custody, NotMountedByDefault, Idle
<1> QED
  BY <1>4, <1>5, <1>6, <1>7 DEF Custody

LEMMA RestartCustody ==
  ASSUME TypeOK, Custody, Restart
  PROVE  Custody'
<1>1. \A g \in Handlers : call'[g] = Idle
  BY DEF Restart
<1>2. Attached' = Attached /\ phase' = phase
  BY DEF Restart, hostVars, kubeletVars, Attached
<1> QED
  BY <1>1, <1>2 DEF Custody, OnlyStoppedAreUnpublished, PublishedSoFar,
     NotMountedByDefault, PublishedSomewhere, Idle

\* A new request touches one idle goroutine and nothing else.
LEMMA RequestFrame ==
  ASSUME TypeOK, NEW h \in Handlers, NEW t \in Targets,
         CallPublish(h, t) \/ CallUnpublish(h, t) \/ CallExpand(h, t)
  PROVE  /\ \A g \in Handlers \ {h} : call'[g] = call[g]
         /\ call[h].pc = "idle"
         /\ call'[h].pc \in {"reset", "ubranch", "xbranch"}
         /\ call'[h].target = t /\ call'[h].isMnt = FALSE /\ call'[h].awaited
         /\ call'[h].op = "unpublish" => phase[t] = "stopping"
         /\ UNCHANGED <<isDirect, pvSize, hostVars, kubeletVars, boundVars>>
<1>1. call[h].pc = "idle"
  BY DEF CallPublish, CallUnpublish, CallExpand, Request, At
<1>2. UNCHANGED <<isDirect, pvSize, hostVars, kubeletVars, boundVars>>
  BY DEF CallPublish, CallUnpublish, CallExpand, Request
<1>3. \A g \in Handlers \ {h} : call'[g] = call[g]
  BY DEF TypeOK, CallPublish, CallUnpublish, CallExpand, Request
<1>4. /\ call'[h].pc \in {"reset", "ubranch", "xbranch"}
      /\ call'[h].target = t /\ call'[h].isMnt = FALSE /\ call'[h].awaited
      /\ call'[h].op = "unpublish" => phase[t] = "stopping"
  <2>1. ASSUME NEW op, NEW entry, NEW want, Request(h, op, t, entry, want)
        PROVE  /\ call'[h].pc = entry /\ call'[h].op = op
               /\ call'[h].target = t /\ call'[h].isMnt = FALSE
               /\ call'[h].awaited = TRUE
    BY <2>1 DEF TypeOK, Request, Idle
  <2>2. CASE CallPublish(h, t)
    BY <2>1, <2>2 DEF CallPublish
  <2>3. CASE CallUnpublish(h, t)
    BY <2>1, <2>3 DEF CallUnpublish
  <2>4. CASE CallExpand(h, t)
    BY <2>1, <2>4 DEF CallExpand
  <2> QED
    BY <2>2, <2>3, <2>4
<1> QED
  BY <1>1, <1>2, <1>3, <1>4

LEMMA RequestCustody ==
  ASSUME TypeOK, CallsOK, Custody, NEW h \in Handlers, NEW t \in Targets,
         CallPublish(h, t) \/ CallUnpublish(h, t) \/ CallExpand(h, t)
  PROVE  Custody'
<1>1. Attached' = Attached /\ phase' = phase
  BY RequestFrame DEF hostVars, kubeletVars, Attached
<1>2. /\ \A g \in Handlers \ {h} : call'[g] = call[g]
      /\ call'[h].pc \in {"reset", "ubranch", "xbranch"}
      /\ call'[h].target = t /\ call'[h].isMnt = FALSE
      /\ call'[h].op = "unpublish" => phase[t] = "stopping"
  BY RequestFrame
<1> QED
  BY <1>1, <1>2 DEF Custody, OnlyStoppedAreUnpublished, PublishedSoFar,
     NotMountedByDefault, PublishedSomewhere, InUse

LEMMA NextCustody ==
  ASSUME TypeOK, CallsOK, Custody, [Next]_vars
  PROVE  Custody'
<1> USE DEF Custody, OnlyStoppedAreUnpublished, PublishedSoFar,
            NotMountedByDefault, PublishedSomewhere, InUse, Attached
<1>1. CASE \E h \in Handlers : HandlerStep(h)
  BY <1>1, HandlerStepCustody
<1>2. CASE Crash \/ \E h \in Handlers : Panics(h)
  BY <1>2, RestartCustody DEF Crash, Panics
<1>3. CASE \E h \in Handlers : Respond(h)
  BY <1>3, RespondCustody
<1>4. CASE \E h \in Handlers : GiveUp(h)
  BY <1>4 DEF GiveUp, TypeOK, Calls, hostVars, kubeletVars
<1>5. CASE \E h \in Handlers, t \in Targets :
             CallPublish(h, t) \/ CallUnpublish(h, t) \/ CallExpand(h, t)
  BY <1>5, RequestCustody
<1>6. CASE \E t \in Targets : StopPod(t)
  BY <1>6 DEF StopPod, TypeOK, CallsOK, handlerVars, hostVars
<1>7. CASE \/ \E t \in Targets : PodWrites(t)
           \/ \E v \in Volumes : GrowPv(v)
           \/ UNCHANGED vars
  BY <1>7 DEF PodWrites, GrowPv, vars, handlerVars, hostVars, kubeletVars
<1> QED
  BY <1>1, <1>2, <1>3, <1>4, <1>5, <1>6, <1>7 DEF Next

LEMMA InitCustody == Init => Custody
  BY DEF Init, Idle, Custody, OnlyStoppedAreUnpublished, PublishedSoFar,
         NotMountedByDefault, PublishedSomewhere

\* A pod that runs has its volume, mounted or recorded for kata, for every set
\* of goroutines, volumes and pods and every interleaving of their requests,
\* with failures, lost answers and restarts of the driver.
THEOREM RunningIsPublished == Spec => []PublishedSomewhere
<1>1. Init => TypeOK /\ CallsOK /\ Custody
  BY InitTypes, InitCustody
<1>2. TypeOK /\ CallsOK /\ Custody /\ [Next]_vars => (TypeOK /\ CallsOK /\ Custody)'
  BY NextTypes, NextCustody
<1>3. Custody => PublishedSomewhere
  BY DEF Custody
<1> QED
  BY <1>1, <1>2, <1>3, PTL DEF Spec

-----------------------------------------------------------------------------
(***************************************************************************)
(* The node service implements PublishedVolumes.                           *)
(***************************************************************************)
LEMMA HandlerStepPromise ==
  ASSUME TypeOK, CallsOK, Custody, NEW h \in Handlers, HandlerStep(h)
  PROVE  [Promise!Next]_<<Attached, phase>>
<1>1. phase' = phase /\ call[h].target \in Targets
  BY HandlerStepFrame DEF CallsOK
<1>2. CASE Attached' = Attached
  BY <1>1, <1>2
<1>3. CASE Attached' = Attached \cup {call[h].target}
  BY <1>1, <1>3 DEF Promise!Next, Promise!Attach
<1>4. CASE call[h].op = "unpublish" /\ Attached' = Attached \ {call[h].target}
  <2>1. phase[call[h].target] \in {"stopping", "gone"}
    BY <1>1, <1>4, HandlerStepFrame
       DEF Custody, OnlyStoppedAreUnpublished, InUse, TypeOK, Phases
  <2>2. Promise!Detach(call[h].target)
    BY <1>1, <1>4, <2>1 DEF Promise!Detach
  <2> QED
    BY <1>1, <2>2 DEF Promise!Next
<1> QED
  BY <1>2, <1>3, <1>4, HandlerStepAttached

LEMMA RespondPromise ==
  ASSUME TypeOK, CallsOK, Custody, NEW h \in Handlers, Respond(h)
  PROVE  [Promise!Next]_<<Attached, phase>>
<1> DEFINE t == call[h].target
<1>1. Attached' = Attached /\ t \in Targets
  BY DEF Respond, hostVars, Attached, CallsOK
<1>2. CASE phase[t] = "starting" /\ Accepted(h, "publish")
  <2>1. t \in Attached
    BY <1>2 DEF Custody, PublishedSoFar, InUse, Accepted, At
  <2>2. Promise!Start(t)
    BY <1>1, <1>2, <2>1 DEF Promise!Start, Respond
  <2> QED
    BY <1>1, <2>2 DEF Promise!Next
<1>3. CASE Accepted(h, "unpublish")
  <2>1. phase[t] \in {"stopping", "gone"}
    BY <1>1, <1>3 DEF Custody, OnlyStoppedAreUnpublished, InUse, TypeOK, Phases,
                      Accepted, At
  <2>2. phase' = [phase EXCEPT ![t] = "gone"]
    BY <1>3, <2>1 DEF Respond, Accepted
  <2>3. CASE phase[t] = "stopping"
    BY <1>1, <2>2, <2>3 DEF Promise!Next, Promise!Leave
  <2>4. CASE phase[t] = "gone"
    BY <1>1, <2>2, <2>4 DEF TypeOK
  <2> QED
    BY <2>1, <2>3, <2>4
<1>4. CASE /\ ~(phase[t] = "starting" /\ Accepted(h, "publish"))
           /\ ~Accepted(h, "unpublish")
  <2>1. phase' = phase
    BY <1>4 DEF Respond, TypeOK
  <2> QED
    BY <1>1, <2>1
<1> QED
  BY <1>2, <1>3, <1>4

LEMMA NextPromise ==
  ASSUME TypeOK, CallsOK, Custody, [Next]_vars
  PROVE  [Promise!Next]_<<Attached, phase>>
<1>1. CASE \E h \in Handlers : HandlerStep(h)
  BY <1>1, HandlerStepPromise
<1>2. CASE \E h \in Handlers : Respond(h)
  BY <1>2, RespondPromise
<1>3. CASE \E t \in Targets : StopPod(t)
  BY <1>3 DEF StopPod, Promise!Next, Promise!Stop, hostVars, Attached
<1>4. CASE Attached' = Attached /\ phase' = phase
  BY <1>4
<1>5. CASE \/ Crash
           \/ \E h \in Handlers : Panics(h) \/ GiveUp(h)
           \/ \E h \in Handlers, t \in Targets :
                CallPublish(h, t) \/ CallUnpublish(h, t) \/ CallExpand(h, t)
           \/ \E t \in Targets : PodWrites(t)
           \/ \E v \in Volumes : GrowPv(v)
           \/ UNCHANGED vars
  BY <1>4, <1>5 DEF Crash, Panics, Restart, GiveUp, CallPublish,
     CallUnpublish, CallExpand, Request, PodWrites, GrowPv, vars, hostVars,
     kubeletVars, Attached
<1> QED
  BY <1>1, <1>2, <1>3, <1>5 DEF Next

\* Every behaviour of the node service is one PublishedVolumes allows: pods
\* start on attached volumes only, and nothing is detached from a pod in use.
THEOREM Implements == Spec => ImplementsPromise
<1>1. Init => TypeOK /\ CallsOK /\ Custody
  BY InitTypes, InitCustody
<1>2. TypeOK /\ CallsOK /\ Custody /\ [Next]_vars => (TypeOK /\ CallsOK /\ Custody)'
  BY NextTypes, NextCustody
<1>3. Init => Promise!Init
  BY DEF Init, Promise!Init, Attached
<1>4. TypeOK /\ CallsOK /\ Custody /\ [Next]_vars => [Promise!Next]_<<Attached, phase>>
  BY NextPromise
<1> QED
  BY <1>1, <1>2, <1>3, <1>4, PTL DEF Spec, ImplementsPromise, Promise!Spec

-----------------------------------------------------------------------------
(***************************************************************************)
(* Without direct volumes the field isDirect stays false, so no goroutine  *)
(* can be led astray by another's write to it.                             *)
(***************************************************************************)
NoDirectVolumes == \A v \in Volumes : ~Direct(v)

HostOnlyInv ==
  /\ isDirect = FALSE
  /\ rec = {}
  /\ \A h \in Handlers : call[h].pc # "add"

LEMMA NextHostOnly ==
  ASSUME NoDirectVolumes, TypeOK, CallsOK, HostOnlyInv, [Next]_vars
  PROVE  HostOnlyInv'
<1> USE DEF HostOnlyInv
<1>1. ASSUME NEW h \in Handlers, HandlerStep(h)
      PROVE  HostOnlyInv'
  <2>1. isDirect' = FALSE
    BY <1>1, VolType
       DEF NoDirectVolumes, Direct, At, hostVars, HandlerStep, CommandFails, Reset,
           ParseDirect, StatDevice, CreateReadsPv, CreateVolume, PublishBranch,
           AddDirectVolume, PublishIsMounted, CheckFsType, FormatDevice, Mount,
           ResizeReadsPv, LvDisplay, LvExtend, ResizeFs, ExpandBranch,
           ExpandReadsPv, UnpublishBranch, RemoveDirectVolume,
           UnpublishIsMounted, Unmount
  <2>2. rec' = {} /\ call'[h].pc # "add"
    BY SMTT(60), <1>1
       DEF TypeOK, Calls, hostVars, At, Goto, HandlerStep, CommandFails, Reset, ParseDirect, StatDevice,
           CreateReadsPv, ReadPv, CreateVolume, PublishBranch, AddDirectVolume,
           PublishIsMounted, CheckFsType, FormatDevice, Mount, AfterFormat,
           AfterMount, ResizeReadsPv, LvDisplay, LvExtend, ResizeFs,
           ExpandBranch, ExpandReadsPv, UnpublishBranch, RemoveDirectVolume,
           UnpublishIsMounted, Unmount
  <2> QED
    BY <1>1, <2>1, <2>2, HandlerStepFrame
<1>2. CASE Crash \/ \E h \in Handlers : Panics(h)
  BY <1>2 DEF Crash, Panics, Restart, Idle, hostVars
<1>3. CASE \E h \in Handlers : Respond(h) \/ GiveUp(h)
  BY <1>3 DEF TypeOK, Calls, Respond, GiveUp, Idle, hostVars
<1>4. CASE \E h \in Handlers, t \in Targets :
             CallPublish(h, t) \/ CallUnpublish(h, t) \/ CallExpand(h, t)
  <2>1. PICK h \in Handlers, t \in Targets :
          CallPublish(h, t) \/ CallUnpublish(h, t) \/ CallExpand(h, t)
    BY <1>4
  <2>2. /\ \A g \in Handlers \ {h} : call'[g] = call[g]
        /\ call'[h].pc \in {"reset", "ubranch", "xbranch"}
        /\ isDirect' = isDirect /\ rec' = rec
    BY <2>1, RequestFrame DEF hostVars
  <2> QED
    BY <2>2
<1>5. CASE \/ \E t \in Targets : StopPod(t) \/ PodWrites(t)
           \/ \E v \in Volumes : GrowPv(v)
           \/ UNCHANGED vars
  BY <1>5 DEF StopPod, PodWrites, GrowPv, vars, handlerVars, hostVars
<1> QED
  BY <1>1, <1>2, <1>3, <1>4, <1>5 DEF Next

\* On a node without direct volumes every running pod's volume is mounted at
\* the pod's path, in every interleaving, with failures, lost answers and
\* restarts.
THEOREM HostVolumesAreMounted ==
  ASSUME NoDirectVolumes
  PROVE  Spec => []RunningPodHasItsVolume
<1>1. Init => TypeOK /\ CallsOK /\ Custody /\ HostOnlyInv
  BY InitTypes, InitCustody DEF Init, HostOnlyInv, Idle
<1>2. TypeOK /\ CallsOK /\ Custody /\ HostOnlyInv /\ [Next]_vars
        => (TypeOK /\ CallsOK /\ Custody /\ HostOnlyInv)'
  BY NextTypes, NextCustody, NextHostOnly
<1>3. Custody /\ HostOnlyInv => RunningPodHasItsVolume
  BY ConstantsAssumption
     DEF Custody, PublishedSomewhere, HostOnlyInv, Attached,
         RunningPodHasItsVolume, NoDirectVolumes
<1> QED
  BY <1>1, <1>2, <1>3, PTL DEF Spec

-----------------------------------------------------------------------------
(***************************************************************************)
(* Device and file system.  Sizes are read long before they are used; what *)
(* keeps a file system inside its device is that no command shrinks an LV. *)
(***************************************************************************)
\* Mount is reached with a file system, mkfs with a device.
PreparedForMount ==
  \A h \in Handlers :
    /\ call[h].pc = "mkfs" => lv[Vol(h)] > 0
    /\ call[h].pc = "mount" => fs[Vol(h)] > 0

LEMMA HandlerStepSizes ==
  ASSUME TypeOK, CallsOK, FilesystemFitsDevice, PreparedForMount,
         NEW h \in Handlers, HandlerStep(h)
  PROVE  \A v \in Volumes :
           /\ lv[v] <= lv'[v] /\ fs[v] <= fs'[v]
           /\ fs'[v] <= lv'[v]
<1>0. Vol(h) \in Volumes
  BY VolType, HandlerStepFrame
<1>1. CASE CreateVolume(h) \/ LvExtend(h)
  <2>1. fs' = fs
    BY <1>1 DEF CreateVolume, LvExtend
  <2>2. \/ lv' = lv
        \/ lv' = [lv EXCEPT ![Vol(h)] = RoundUp(call[h].size)]
           /\ (lv[Vol(h)] = 0 \/ RoundUp(call[h].size) > lv[Vol(h)])
    BY <1>1 DEF CreateVolume, LvExtend, Creatable
  <2>3. RoundUp(call[h].size) \in Nat
    BY RoundUpNat DEF TypeOK, Calls
  <2> QED
    BY <1>0, <2>1, <2>2, <2>3 DEF TypeOK, FilesystemFitsDevice
<1>2. CASE FormatDevice(h) \/ ResizeFs(h)
  BY <1>0, <1>2 DEF TypeOK, FilesystemFitsDevice, FormatDevice, ResizeFs
<1>3. CASE ~(CreateVolume(h) \/ LvExtend(h) \/ FormatDevice(h) \/ ResizeFs(h))
  <2>1. lv' = lv /\ fs' = fs
    BY <1>3 DEF HandlerStep, hostVars, CommandFails, Reset, ParseDirect,
         StatDevice, CreateReadsPv, PublishBranch, AddDirectVolume,
         PublishIsMounted, CheckFsType, Mount, ResizeReadsPv, LvDisplay,
         ExpandBranch, ExpandReadsPv, UnpublishBranch, RemoveDirectVolume,
         UnpublishIsMounted, Unmount
  <2> QED
    BY <2>1 DEF TypeOK, FilesystemFitsDevice
<1> QED
  BY <1>1, <1>2, <1>3

LEMMA HandlerStepFits ==
  ASSUME TypeOK, CallsOK, FilesystemFitsDevice, PreparedForMount,
         NEW h \in Handlers, HandlerStep(h)
  PROVE  FilesystemFitsDevice' /\ PreparedForMount'
<1>1. \A v \in Volumes : lv[v] <= lv'[v] /\ fs[v] <= fs'[v] /\ fs'[v] <= lv'[v]
  BY HandlerStepSizes
<1>2. TypeOK' /\ Vol(h) \in Volumes
  BY HandlerStepTypes, VolType, HandlerStepFrame
<1>3. \/ mnt' \subseteq mnt
      \/ Mount(h) /\ mnt' \subseteq mnt \cup {call[h].target}
  BY DEF HandlerStep, hostVars, CommandFails, Reset, ParseDirect, StatDevice,
         CreateReadsPv, CreateVolume, PublishBranch, AddDirectVolume,
         PublishIsMounted, CheckFsType, FormatDevice, Mount, ResizeReadsPv,
         LvDisplay, LvExtend, ResizeFs, ExpandBranch, ExpandReadsPv,
         UnpublishBranch, RemoveDirectVolume, UnpublishIsMounted, Unmount
<1>4. \A t \in mnt' : fs'[VolumeOf[t]] > 0
  <2> SUFFICES ASSUME NEW t \in mnt' PROVE fs'[VolumeOf[t]] > 0
    OBVIOUS
  <2>1. VolumeOf[t] \in Volumes
    BY <1>2, ConstantsAssumption DEF TypeOK
  <2>2. fs[VolumeOf[t]] > 0
    BY <1>3 DEF FilesystemFitsDevice, PreparedForMount, Mount, At, Vol
  <2> QED
    BY <1>1, <1>2, <2>1, <2>2 DEF TypeOK
<1>5. ASSUME NEW g \in Handlers, g # h
      PROVE  /\ call'[g].pc = "mkfs" => lv'[Vol(g)'] > 0
             /\ call'[g].pc = "mount" => fs'[Vol(g)'] > 0
  <2>1. call'[g] = call[g] /\ Vol(g)' = Vol(g)
    BY <1>5, HandlerStepFrame DEF Vol
  <2>2. call[g].pc # "idle" => Vol(g) \in Volumes
    BY VolType
  <2> QED
    BY <1>1, <1>2, <2>1, <2>2 DEF PreparedForMount, TypeOK
<1>6. /\ call'[h].pc = "mkfs" => lv'[Vol(h)'] > 0
      /\ call'[h].pc = "mount" => fs'[Vol(h)'] > 0
  <2>1. Vol(h)' = Vol(h)
    BY HandlerStepFrame DEF Vol
  <2>2. CASE CheckFsType(h)
    BY <1>2, <2>1, <2>2
       DEF CheckFsType, TypeOK, Calls, Goto, hostVars, AfterFormat, AfterMount
  <2>3. CASE FormatDevice(h)
    BY <1>2, <2>1, <2>3
       DEF FormatDevice, TypeOK, Calls, At, Goto, AfterFormat, AfterMount, PreparedForMount
  <2>4. CASE ~(CheckFsType(h) \/ FormatDevice(h))
    BY SMTT(60), <2>4 DEF TypeOK, Calls, At, Goto, HandlerStep, CommandFails, Reset,
         ParseDirect, StatDevice, CreateReadsPv, ReadPv, CreateVolume,
         PublishBranch, AddDirectVolume, PublishIsMounted, Mount, AfterMount,
         ResizeReadsPv, LvDisplay, LvExtend, ResizeFs, ExpandBranch,
         ExpandReadsPv, UnpublishBranch, RemoveDirectVolume,
         UnpublishIsMounted, Unmount
  <2> QED
    BY <2>2, <2>3, <2>4
<1> QED
  BY <1>1, <1>4, <1>5, <1>6 DEF FilesystemFitsDevice, PreparedForMount

LEMMA NextFits ==
  ASSUME TypeOK, CallsOK, FilesystemFitsDevice, PreparedForMount, [Next]_vars
  PROVE  FilesystemFitsDevice' /\ PreparedForMount'
<1>1. CASE \E h \in Handlers : HandlerStep(h)
  BY <1>1, HandlerStepFits
<1>2. ASSUME UNCHANGED <<lv, fs, mnt>>,
             \A h \in Handlers : \/ call'[h].pc \notin {"mkfs", "mount"}
                                 \/ call'[h].pc = call[h].pc /\ Vol(h)' = Vol(h)
      PROVE  FilesystemFitsDevice' /\ PreparedForMount'
  BY <1>2 DEF FilesystemFitsDevice, PreparedForMount
<1>3. CASE Crash \/ \E h \in Handlers : Panics(h)
  BY <1>2, <1>3 DEF Crash, Panics, Restart, Idle, hostVars
<1>4. CASE \E h \in Handlers : Respond(h) \/ GiveUp(h)
  BY <1>2, <1>4 DEF Respond, GiveUp, Idle, hostVars, Vol, TypeOK, Calls
<1>5. CASE \E h \in Handlers, t \in Targets :
             CallPublish(h, t) \/ CallUnpublish(h, t) \/ CallExpand(h, t)
  BY <1>2, <1>5, RequestFrame DEF hostVars, Vol
<1>6. CASE \/ \E t \in Targets : StopPod(t) \/ PodWrites(t)
           \/ \E v \in Volumes : GrowPv(v)
           \/ UNCHANGED vars
  BY <1>2, <1>6 DEF StopPod, PodWrites, GrowPv, vars, handlerVars, hostVars, Vol
<1> QED
  BY <1>1, <1>3, <1>4, <1>5, <1>6 DEF Next

\* No interleaving of publish and expand calls, with sizes read before other
\* calls changed them, leaves a file system larger than its device.
THEOREM FilesystemsFit == Spec => []FilesystemFitsDevice
<1>1. Init => TypeOK /\ CallsOK
  BY InitTypes
<1>2. Init => FilesystemFitsDevice /\ PreparedForMount
  BY DEF Init, FilesystemFitsDevice, PreparedForMount, Idle
<1>3. TypeOK /\ CallsOK /\ [Next]_vars => (TypeOK /\ CallsOK)'
  BY NextTypes
<1>4. TypeOK /\ CallsOK /\ FilesystemFitsDevice /\ PreparedForMount /\ [Next]_vars
        => (FilesystemFitsDevice /\ PreparedForMount)'
  BY NextFits
<1> QED
  BY <1>1, <1>2, <1>3, <1>4, PTL DEF Spec

-----------------------------------------------------------------------------
\* The counts of failures, restarts and calls given up on never go down.
LEMMA CountersGrow ==
  ASSUME TypeOK, [Next]_vars
  PROVE  /\ faults' \in {faults, faults + 1}
         /\ crashes' \in {crashes, crashes + 1}
         /\ \/ timeouts' = timeouts
            \/ timeouts' = timeouts + 1 /\ timeouts < MaxTimeouts
<1>1. CASE \E h \in Handlers : HandlerStep(h)
  BY <1>1 DEF HandlerStep, Fault, CommandFails, Reset, ParseDirect, StatDevice,
         CreateReadsPv, ReadPv, CreateVolume, PublishBranch, AddDirectVolume,
         PublishIsMounted, IsMounted, CheckFsType, FormatDevice, Mount, ResizeReadsPv,
         LvDisplay, LvExtend, ResizeFs, ExpandBranch, ExpandReadsPv, UnpublishBranch,
         RemoveDirectVolume, UnpublishIsMounted, Unmount
<1>2. CASE Crash \/ \E h \in Handlers : Panics(h)
  BY <1>2 DEF Crash, Panics, Restart, Fault
<1>3. CASE \E h \in Handlers : Respond(h) \/ GiveUp(h)
  BY <1>3 DEF Respond, GiveUp, boundVars
<1>4. CASE \E h \in Handlers, t \in Targets :
             CallPublish(h, t) \/ CallUnpublish(h, t) \/ CallExpand(h, t)
  BY <1>4 DEF CallPublish, CallUnpublish, CallExpand, Request, boundVars
<1>5. CASE \/ \E t \in Targets : StopPod(t) \/ PodWrites(t)
           \/ \E v \in Volumes : GrowPv(v)
           \/ UNCHANGED vars
  BY <1>5 DEF StopPod, PodWrites, GrowPv, vars, boundVars
<1> QED
  BY <1>1, <1>2, <1>3, <1>4, <1>5 DEF Next

-----------------------------------------------------------------------------
(***************************************************************************)
(* What is published has a device.  An unknown lvmType runs no lvcreate    *)
(* and is still a success, so the theorem is about the two known ones.     *)
(***************************************************************************)
KnownLvmTypes == \A v \in Volumes : Context[v].lvmType \in {"linear", "striping"}

\* LVM allocates at least what it is asked for.
LEMMA RoundUpCovers ==
  ASSUME NEW n \in Nat
  PROVE  n <= RoundUp(n)
<1>1. n + Extent - 1 \in Nat
  BY UnitsAssumption
<1>2. n + Extent - 1 < ((n + Extent - 1) \div Extent) * Extent + Extent
  BY <1>1, UnitsAssumption
<1>3. RoundUp(n) \in Nat
  BY RoundUpNat
<1> QED
  BY <1>2, <1>3, UnitsAssumption DEF RoundUp

\* Past createVolume and os.Stat there is a device, and so there is behind
\* everything attached.
Backed ==
  /\ \A h \in Handlers :
       call[h].pc \in {"branch", "add", "ismounted", "checkfs", "mkfs", "mount"}
         => lv[Vol(h)] > 0
  /\ \A t \in Attached : lv[VolumeOf[t]] > 0

LEMMA HandlerStepBacked ==
  ASSUME KnownLvmTypes, faults' = 0, TypeOK, CallsOK, FilesystemFitsDevice,
         PreparedForMount, Backed, NEW h \in Handlers, HandlerStep(h)
  PROVE  Backed'
<1>1. \A v \in Volumes : lv[v] \in Nat /\ lv'[v] \in Nat /\ lv[v] <= lv'[v]
  BY HandlerStepSizes, HandlerStepTypes DEF TypeOK
<1>2. Vol(h) \in Volumes /\ Vol(h)' = Vol(h) /\ call[h].target \in Targets
  BY VolType, HandlerStepFrame DEF CallsOK, Vol
<1>3. ~Fault
  BY DEF Fault, TypeOK
<1>4. ASSUME NEW g \in Handlers, g # h,
             call'[g].pc \in {"branch", "add", "ismounted", "checkfs", "mkfs", "mount"}
      PROVE  lv'[Vol(g)'] > 0
  <2>1. call'[g] = call[g] /\ Vol(g)' = Vol(g)
    BY <1>4, HandlerStepFrame DEF Vol
  <2>2. Vol(g) \in Volumes
    BY <1>4, <2>1, VolType
  <2> QED
    BY <1>1, <1>4, <2>1, <2>2 DEF Backed
<1>5. call'[h].pc \in {"branch", "add", "ismounted", "checkfs", "mkfs", "mount"}
        => lv'[Vol(h)] > 0
  <2>1. CASE CreateVolume(h)
    <3>1. CASE call'[h].pc = "branch"
      <4>1. Creatable(h) /\ lv'[Vol(h)] = RoundUp(call[h].size)
        BY <1>2, <2>1, <3>1 DEF CreateVolume, KnownLvmTypes, TypeOK, Calls, Goto
      <4>2. call[h].size \in Nat
        BY DEF TypeOK, Calls
      <4> QED
        BY <4>1, <4>2, RoundUpCovers, RoundUpNat DEF Creatable
    <3>2. CASE call'[h].pc # "branch"
      BY <2>1, <3>2 DEF CreateVolume, TypeOK, Calls, Goto
    <3> QED
      BY <3>1, <3>2
  <2>2. CASE StatDevice(h)
    BY <1>1, <1>2, <1>3, <2>2 DEF StatDevice, hostVars, TypeOK, Calls, Goto
  <2>3. CASE call[h].pc \in {"branch", "add", "ismounted", "checkfs", "mkfs", "mount"}
    BY <1>1, <1>2, <2>3 DEF Backed
  <2>4. CASE /\ ~(CreateVolume(h) \/ StatDevice(h))
             /\ call[h].pc \notin {"branch", "add", "ismounted", "checkfs", "mkfs", "mount"}
    BY SMTT(60), <2>4 DEF TypeOK, Calls, At, Goto, HandlerStep, CommandFails, Reset,
         ParseDirect, CreateReadsPv, ReadPv, PublishBranch, AddDirectVolume,
         PublishIsMounted, CheckFsType, FormatDevice, Mount, ResizeReadsPv,
         LvDisplay, LvExtend, ResizeFs, ExpandBranch, ExpandReadsPv,
         UnpublishBranch, RemoveDirectVolume, UnpublishIsMounted, Unmount
  <2> QED
    BY <2>1, <2>2, <2>3, <2>4
<1>6. Attached' \subseteq Attached \/ call[h].pc \in {"add", "mount"}
  BY DEF Attached, HandlerStep, At, hostVars, CommandFails, Reset, ParseDirect, StatDevice,
         CreateReadsPv, CreateVolume, PublishBranch, AddDirectVolume,
         PublishIsMounted, CheckFsType, FormatDevice, Mount, ResizeReadsPv,
         LvDisplay, LvExtend, ResizeFs, ExpandBranch, ExpandReadsPv,
         UnpublishBranch, RemoveDirectVolume, UnpublishIsMounted, Unmount
<1>7. ASSUME NEW t \in Attached' PROVE lv'[VolumeOf[t]] > 0
  <2>1. VolumeOf[t] \in Volumes
    BY HandlerStepTypes, ConstantsAssumption DEF TypeOK, Attached
  <2>2. lv[VolumeOf[t]] > 0
    BY <1>6, HandlerStepAttached DEF Backed, Vol
  <2> QED
    BY <1>1, <2>1, <2>2
<1> QED
  BY <1>2, <1>4, <1>5, <1>7 DEF Backed

LEMMA NextBacked ==
  ASSUME KnownLvmTypes, faults' = 0, TypeOK, CallsOK, FilesystemFitsDevice,
         PreparedForMount, Backed, [Next]_vars
  PROVE  Backed'
<1>1. CASE \E h \in Handlers : HandlerStep(h)
  BY <1>1, HandlerStepBacked
<1>2. ASSUME UNCHANGED <<lv, mnt, rec>>,
             \A h \in Handlers :
               \/ call'[h].pc \notin {"branch", "add", "ismounted", "checkfs", "mkfs", "mount"}
               \/ call'[h].pc = call[h].pc /\ Vol(h)' = Vol(h)
      PROVE  Backed'
  BY <1>2 DEF Backed, Attached
<1>3. CASE Crash \/ \E h \in Handlers : Panics(h)
  BY <1>2, <1>3 DEF Crash, Panics, Restart, Idle, hostVars
<1>4. CASE \E h \in Handlers : Respond(h) \/ GiveUp(h)
  BY <1>2, <1>4 DEF Respond, GiveUp, Idle, hostVars, Vol, TypeOK, Calls
<1>5. CASE \E h \in Handlers, t \in Targets :
             CallPublish(h, t) \/ CallUnpublish(h, t) \/ CallExpand(h, t)
  BY <1>2, <1>5, RequestFrame DEF hostVars, Vol
<1>6. CASE \/ \E t \in Targets : StopPod(t) \/ PodWrites(t)
           \/ \E v \in Volumes : GrowPv(v)
           \/ UNCHANGED vars
  BY <1>2, <1>6 DEF StopPod, PodWrites, GrowPv, vars, handlerVars, hostVars, Vol
<1> QED
  BY <1>1, <1>3, <1>4, <1>5, <1>6 DEF Next

\* As long as no command failed, everything attached to a pod has a device
\* behind it: os.Stat and createVolume come first, and no handler, however
\* long kubelet has given up on it, removes or shrinks a device.
THEOREM DevicesExist ==
  ASSUME KnownLvmTypes
  PROVE  Spec => []PublishedDeviceExists
<1> DEFINE I == /\ TypeOK /\ CallsOK /\ FilesystemFitsDevice /\ PreparedForMount
                /\ faults = 0 => Backed
<1>1. Init => I
  BY InitTypes DEF Init, FilesystemFitsDevice, PreparedForMount, Backed, Attached, Idle
<1>2. I /\ [Next]_vars => I'
  <2> SUFFICES ASSUME I, [Next]_vars PROVE I'
    OBVIOUS
  <2>1. TypeOK' /\ CallsOK' /\ FilesystemFitsDevice' /\ PreparedForMount'
    BY NextTypes, NextFits
  <2>2. ASSUME faults' = 0 PROVE Backed'
    BY <2>2, CountersGrow, NextBacked DEF TypeOK
  <2> QED
    BY <2>1, <2>2
<1>3. I => PublishedDeviceExists
  BY DEF Backed, PublishedDeviceExists
<1> QED
  BY <1>1, <1>2, <1>3, PTL DEF Spec

-----------------------------------------------------------------------------
(***************************************************************************)
(* Capacity.  A file system has the size that was reported for it because  *)
(* sizes only grow: a call works with a PV size no smaller than the one    *)
(* kubelet asked for, lvextend never shrinks, and whoever extended a       *)
(* device is still about to resize its file system.                        *)
(*                                                                         *)
(* getPvInfo drops what does not fill a GiB (or a MiB), so this needs      *)
(* capacities that LVM's rounding makes up for.                            *)
(***************************************************************************)
SizesCovered ==
  \A v \in Volumes : \A b \in {InitialSize[v]} \cup GrownSizes : RoundUp(LvmSize(b)) >= b

\* Capacities in whole units are such: in GiB, or in MiB below one GiB.
LEMMA WholeUnitsCovered ==
  ASSUME NEW b \in Nat,
         \/ \E n \in Nat \ {0} : b = n * Gi
         \/ b < Gi /\ \E n \in Nat : b = n * Mi
  PROVE  RoundUp(LvmSize(b)) >= b
<1>1. CASE \E n \in Nat \ {0} : b = n * Gi
  <2>1. PICK n \in Nat \ {0} : b = n * Gi
    BY <1>1
  <2>2. b \div Gi = n
    BY <2>1, UnitsAssumption
  <2>3. LvmSize(b) = b
    BY <2>1, <2>2 DEF LvmSize
  <2> QED
    BY <2>3, RoundUpCovers, RoundUpNat
<1>2. CASE b < Gi /\ \E n \in Nat : b = n * Mi
  <2>1. PICK n \in Nat : b = n * Mi
    BY <1>2
  <2>2. b \div Mi = n
    BY <2>1, UnitsAssumption
  <2>3. b \div Gi = 0
    BY <1>2, UnitsAssumption
  <2>4. LvmSize(b) = b
    BY <2>1, <2>2, <2>3 DEF LvmSize
  <2> QED
    BY <2>4, RoundUpCovers, RoundUpNat
<1> QED
  BY <1>1, <1>2

\* A PV starts with its first capacity and only grows.
PvSizesKnown ==
  \A v \in Volumes :
    /\ pvSize[v] \in {InitialSize[v]} \cup GrownSizes
    /\ pvSize[v] >= InitialSize[v]

\* A call works with sizes that are enough for what was asked of it.
Sizing(h) ==
  /\ call[h].want <= pvSize[Vol(h)]
  /\ call[h].op = "expand" => call[h].want > 0
  /\ call[h].pc \in {"lvcreate", "lvdisplay", "lvextend"} =>
       /\ call[h].bytes >= call[h].want
       /\ call[h].bytes >= InitialSize[Vol(h)]
       /\ RoundUp(call[h].size) >= call[h].bytes
  /\ call[h].op = "expand" /\ call[h].pc \in {"resizefs", "ok"}
       => lv[Vol(h)] >= call[h].want

Resizing(v) == \E h \in Handlers : At(h, "resizefs") /\ Vol(h) = v

\* A device has the capacity reported for its volume, and so has its file
\* system, unless someone is about to grow it.
Grown(v) ==
  /\ lv[v] = 0 => expanded[v] = InitialSize[v]
  /\ lv[v] > 0 => lv[v] >= expanded[v]
  /\ fs[v] = 0 \/ fs[v] = lv[v] \/ Resizing(v)

\* The inductive invariant behind CapacityHonoured.
Capacity ==
  /\ PvSizesKnown
  /\ \A h \in Handlers : call[h].pc # "idle" => Sizing(h)
  /\ \A v \in Volumes : Grown(v)

\* How a handler step uses the sizes it works with, when nothing fails.
LEMMA HandlerStepSizing ==
  ASSUME SizesCovered, HostOnlyInv, faults' = 0, TypeOK, CallsOK, FilesystemFitsDevice,
         PreparedForMount, PvSizesKnown, NEW h \in Handlers, HandlerStep(h), Sizing(h)
  PROVE  Sizing(h)'
<1>1. /\ call'[h].want = call[h].want /\ call'[h].op = call[h].op
      /\ Vol(h)' = Vol(h) /\ pvSize' = pvSize
  <2>1. call'[h].want = call[h].want
    BY SMTT(60) DEF TypeOK, Calls, HandlerStep, Goto, CommandFails, Reset, ParseDirect,
         StatDevice, CreateReadsPv, ReadPv, CreateVolume, PublishBranch,
         AddDirectVolume, PublishIsMounted, CheckFsType, FormatDevice, Mount,
         ResizeReadsPv, LvDisplay, LvExtend, ResizeFs, ExpandBranch,
         ExpandReadsPv, UnpublishBranch, RemoveDirectVolume, UnpublishIsMounted,
         Unmount
  <2> QED
    BY <2>1, HandlerStepFrame DEF Vol
<1>2. Vol(h) \in Volumes
  BY VolType, HandlerStepFrame
<1>3. ~Fault
  BY DEF Fault, TypeOK
<1>4. /\ call[h].want \in Nat /\ call[h].bytes \in Nat /\ call[h].size \in Nat
      /\ pvSize[Vol(h)] \in Nat /\ InitialSize[Vol(h)] \in Nat
      /\ lv[Vol(h)] \in Nat /\ lv'[Vol(h)] \in Nat /\ lv[Vol(h)] <= lv'[Vol(h)]
      /\ RoundUp(call[h].size) \in Nat
  BY <1>2, HandlerStepTypes, HandlerStepSizes, ConstantsAssumption, RoundUpNat DEF TypeOK, Calls
<1>5. call'[h].pc \in {"lvcreate", "lvdisplay", "lvextend"} =>
        /\ call'[h].bytes >= call[h].want
        /\ call'[h].bytes >= InitialSize[Vol(h)]
        /\ RoundUp(call'[h].size) >= call'[h].bytes
  <2>1. CASE CreateReadsPv(h) \/ ResizeReadsPv(h)
    <3>1. call'[h].size = LvmSize(pvSize[Vol(h)]) /\ call'[h].bytes = pvSize[Vol(h)]
      BY <1>3, <2>1 DEF CreateReadsPv, ResizeReadsPv, ReadPv, TypeOK, Calls
    <3>2. RoundUp(LvmSize(pvSize[Vol(h)])) >= pvSize[Vol(h)]
      BY <1>2 DEF SizesCovered, PvSizesKnown
    <3> QED
      BY <1>2, <1>4, <3>1, <3>2 DEF Sizing, PvSizesKnown
  <2>2. CASE LvDisplay(h)
    <3>1. call'[h].size = call[h].size /\ call'[h].bytes = call[h].bytes
      BY <2>2 DEF LvDisplay, Goto, TypeOK, Calls
    <3> QED
      BY <2>2, <3>1 DEF LvDisplay, At, Sizing
  <2>3. CASE ~(CreateReadsPv(h) \/ ResizeReadsPv(h) \/ LvDisplay(h))
    BY SMTT(60), <2>3 DEF TypeOK, Calls, At, Goto, HandlerStep, CommandFails, Reset,
         ParseDirect, StatDevice, CreateVolume, PublishBranch, AddDirectVolume,
         PublishIsMounted, CheckFsType, FormatDevice, Mount, AfterFormat, AfterMount,
         LvExtend, ResizeFs, ExpandBranch, ExpandReadsPv, UnpublishBranch,
         RemoveDirectVolume, UnpublishIsMounted, Unmount
  <2> QED
    BY <2>1, <2>2, <2>3
<1>6. call[h].op = "expand" /\ call'[h].pc \in {"resizefs", "ok"}
        => lv'[Vol(h)] >= call[h].want
  <2>1. CASE LvDisplay(h)
    <3>1. call'[h].pc \in {"resizefs", "ok"} => lv[Vol(h)] >= call[h].bytes
      BY <2>1 DEF LvDisplay, Goto, TypeOK, Calls
    <3>2. call[h].bytes >= call[h].want
      BY <2>1 DEF LvDisplay, At, Sizing
    <3> QED
      BY <1>4, <3>1, <3>2
  <2>2. CASE LvExtend(h)
    <3>1. call'[h].pc \in {"resizefs", "ok"} => lv'[Vol(h)] = RoundUp(call[h].size)
      BY <1>2, <2>2 DEF LvExtend, Goto, TypeOK, Calls
    <3>2. call[h].bytes >= call[h].want /\ RoundUp(call[h].size) >= call[h].bytes
      BY <2>2 DEF LvExtend, At, Sizing
    <3> QED
      BY <1>4, <3>1, <3>2
  <2>3. CASE ResizeFs(h)
    BY <1>4, <2>3 DEF ResizeFs, At, Sizing
  <2>4. CASE ~(LvDisplay(h) \/ LvExtend(h) \/ ResizeFs(h))
    <3>1. CASE ExpandBranch(h) \/ ExpandReadsPv(h) \/ ResizeReadsPv(h) \/ CommandFails(h)
      BY SMTT(60), <3>1 DEF HostOnlyInv, TypeOK, Calls, At, Goto, CommandFails, ReadPv,
           ResizeReadsPv, ExpandBranch, ExpandReadsPv
    <3>2. CASE ~(ExpandBranch(h) \/ ExpandReadsPv(h) \/ ResizeReadsPv(h) \/ CommandFails(h))
      <4>1. \/ call[h].op # "expand"
            \/ CreateReadsPv(h) \/ CreateVolume(h)
        BY SMTT(60), <2>4, <3>2 DEF CallsOK, At, HandlerStep, Reset, ParseDirect,
             StatDevice, PublishBranch, AddDirectVolume, PublishIsMounted, CheckFsType,
             FormatDevice, Mount, UnpublishBranch, RemoveDirectVolume,
             UnpublishIsMounted, Unmount
      <4>2. CASE CreateReadsPv(h) \/ CreateVolume(h)
        BY SMTT(60), <4>2 DEF TypeOK, Calls, At, Goto, CreateReadsPv, ReadPv, CreateVolume
      <4> QED
        BY <4>1, <4>2
    <3> QED
      BY <3>1, <3>2
  <2> QED
    BY <2>1, <2>2, <2>3, <2>4
<1> QED
  BY <1>1, <1>5, <1>6 DEF Sizing

\* A goroutine keeps its sizes while another one moves: the device only grows.
LEMMA OthersKeepSizing ==
  ASSUME TypeOK, CallsOK, NEW g \in Handlers, call[g].pc # "idle", Sizing(g),
         call'[g] = call[g], pvSize' = pvSize, lv' \in [Volumes -> Nat],
         \A v \in Volumes : lv[v] <= lv'[v]
  PROVE  Sizing(g)'
<1>1. Vol(g)' = Vol(g) /\ Vol(g) \in Volumes
  BY VolType DEF Vol
<1>2. /\ lv[Vol(g)] \in Nat /\ lv'[Vol(g)] \in Nat /\ lv[Vol(g)] <= lv'[Vol(g)]
      /\ call[g].want \in Nat
  BY <1>1 DEF TypeOK, Calls
<1> QED
  BY <1>1, <1>2 DEF Sizing

\* A device is created with the first capacity at least, and extended by
\* whoever goes on to resize the file system.
LEMMA HandlerStepGrown ==
  ASSUME faults' = 0, TypeOK, CallsOK, FilesystemFitsDevice, PreparedForMount, Capacity,
         NEW h \in Handlers, HandlerStep(h), NEW v \in Volumes
  PROVE  Grown(v)'
<1>0. Grown(v) /\ Sizing(h)
  BY HandlerStepFrame DEF Capacity
<1>1. /\ lv[v] \in Nat /\ lv'[v] \in Nat /\ lv[v] <= lv'[v] /\ expanded'[v] = expanded[v]
      /\ fs[v] \in Nat /\ fs[v] <= lv[v] /\ expanded[v] \in Nat /\ InitialSize[v] \in Nat
      /\ fs'[v] \in Nat /\ fs'[v] <= lv'[v]
  BY HandlerStepTypes, HandlerStepSizes, HandlerStepFrame, ConstantsAssumption
     DEF TypeOK, FilesystemFitsDevice
<1>2. ~Fault
  BY DEF Fault, TypeOK
<1>3. Vol(h) \in Volumes /\ Vol(h)' = Vol(h)
  BY VolType, HandlerStepFrame DEF Vol
<1>4. Resizing(v) => Resizing(v)' \/ (ResizeFs(h) /\ Vol(h) = v)
  <2> SUFFICES ASSUME NEW g \in Handlers, call[g].pc = "resizefs", Vol(g) = v
               PROVE  Resizing(v)' \/ (ResizeFs(h) /\ Vol(h) = v)
    BY DEF Resizing, At
  <2>1. CASE g # h
    <3>1. call'[g] = call[g]
      BY <2>1, HandlerStepFrame
    <3>2. At(g, "resizefs")' /\ Vol(g)' = v
      BY <3>1 DEF At, Vol
    <3> QED
      BY <3>2 DEF Resizing
  <2>2. CASE g = h
    <3>1. ResizeFs(h)
      BY <1>2, <2>2 DEF At, HandlerStep, CommandFails, Reset, ParseDirect, StatDevice,
         CreateReadsPv, CreateVolume, PublishBranch, AddDirectVolume,
         PublishIsMounted, CheckFsType, FormatDevice, Mount, ResizeReadsPv,
         LvDisplay, LvExtend, ExpandBranch, ExpandReadsPv,
         UnpublishBranch, RemoveDirectVolume, UnpublishIsMounted, Unmount
    <3> QED
      BY <2>2, <3>1
  <2> QED
    BY <2>1, <2>2
<1>5. CASE CreateVolume(h) /\ Vol(h) = v /\ lv'[v] # lv[v]
  <2>1. lv[v] = 0 /\ lv'[v] = RoundUp(call[h].size) /\ fs'[v] = fs[v]
    BY <1>5 DEF CreateVolume, Creatable, TypeOK
  <2>2. RoundUp(call[h].size) >= call[h].bytes /\ call[h].bytes >= InitialSize[v]
    BY <1>0, <1>5 DEF CreateVolume, At, Sizing
  <2>3. call[h].bytes \in Nat
    BY DEF TypeOK, Calls
  <2>4. lv'[v] >= expanded[v] /\ lv'[v] > 0 /\ fs'[v] = 0
    BY <1>0, <1>1, <1>5, <2>1, <2>2, <2>3 DEF Grown
  <2> QED
    BY <1>1, <2>4 DEF Grown
<1>6. CASE LvExtend(h) /\ Vol(h) = v /\ lv'[v] # lv[v]
  <2>1. call'[h].pc = "resizefs" /\ lv'[v] = RoundUp(call[h].size)
    BY <1>6 DEF LvExtend, Goto, TypeOK, Calls
  <2>2. Resizing(v)'
    BY <1>3, <1>6, <2>1 DEF Resizing, At
  <2>3. lv'[v] >= expanded[v]
    <3>1. CASE lv[v] > 0
      BY <1>0, <1>1, <3>1 DEF Grown
    <3>2. CASE lv[v] = 0
      <4>1. RoundUp(call[h].size) >= call[h].bytes /\ call[h].bytes >= InitialSize[v]
        BY <1>0, <1>6 DEF LvExtend, At, Sizing
      <4>2. call[h].bytes \in Nat /\ expanded[v] = InitialSize[v]
        BY <1>0, <3>2 DEF TypeOK, Calls, Grown
      <4> QED
        BY <1>1, <2>1, <4>1, <4>2
    <3> QED
      BY <1>1, <3>1, <3>2
  <2> QED
    BY <1>1, <1>6, <2>2, <2>3 DEF Grown
<1>7. CASE (FormatDevice(h) \/ ResizeFs(h)) /\ Vol(h) = v
  <2>1. lv'[v] = lv[v] /\ (fs'[v] = lv[v] \/ (fs'[v] = fs[v] /\ (FormatDevice(h) \/ fs[v] = 0)))
    BY <1>7 DEF FormatDevice, ResizeFs, TypeOK
  <2>2. FormatDevice(h) => ~ResizeFs(h)
    BY DEF FormatDevice, ResizeFs, At
  <2> QED
    BY <1>0, <1>1, <1>4, <2>1, <2>2 DEF Grown
<1>8. CASE lv'[v] = lv[v] /\ fs'[v] = fs[v] /\ ~(ResizeFs(h) /\ Vol(h) = v)
  BY <1>0, <1>1, <1>4, <1>8 DEF Grown
<1>9. /\ lv'[v] = lv[v] \/ ((CreateVolume(h) \/ LvExtend(h)) /\ Vol(h) = v)
      /\ fs'[v] = fs[v] \/ ((FormatDevice(h) \/ ResizeFs(h)) /\ Vol(h) = v)
  <2>1. /\ lv' = lv \/ ((CreateVolume(h) \/ LvExtend(h))
                          /\ lv' = [lv EXCEPT ![Vol(h)] = RoundUp(call[h].size)])
        /\ fs' = fs \/ ((FormatDevice(h) \/ ResizeFs(h))
                          /\ fs' = [fs EXCEPT ![Vol(h)] = lv[Vol(h)]])
    BY DEF HandlerStep, hostVars, CommandFails, Reset, ParseDirect, StatDevice,
         CreateReadsPv, CreateVolume, PublishBranch, AddDirectVolume,
         PublishIsMounted, CheckFsType, FormatDevice, Mount, ResizeReadsPv,
         LvDisplay, LvExtend, ResizeFs, ExpandBranch, ExpandReadsPv,
         UnpublishBranch, RemoveDirectVolume, UnpublishIsMounted, Unmount
  <2> QED
    BY <2>1 DEF TypeOK
<1> QED
  BY <1>5, <1>6, <1>7, <1>8, <1>9

LEMMA HandlerStepCapacity ==
  ASSUME SizesCovered, HostOnlyInv, faults' = 0, TypeOK, CallsOK, FilesystemFitsDevice,
         PreparedForMount, Capacity, NEW h \in Handlers, HandlerStep(h)
  PROVE  Capacity'
<1>1. /\ \A g \in Handlers \ {h} : call'[g] = call[g]
      /\ call[h].pc # "idle"
      /\ pvSize' = pvSize
  BY HandlerStepFrame
<1>2. lv' \in [Volumes -> Nat] /\ \A v \in Volumes : lv[v] <= lv'[v]
  BY HandlerStepTypes, HandlerStepSizes DEF TypeOK
<1>3. ASSUME NEW g \in Handlers, call'[g].pc # "idle" PROVE Sizing(g)'
  <2>1. CASE g = h
    BY <1>1, <2>1, HandlerStepSizing DEF Capacity
  <2>2. CASE g # h
    BY <1>1, <1>2, <1>3, <2>2, OthersKeepSizing DEF Capacity
  <2> QED
    BY <2>1, <2>2
<1>4. PvSizesKnown'
  BY <1>1 DEF Capacity, PvSizesKnown
<1> QED
  BY <1>3, <1>4, HandlerStepGrown DEF Capacity

\* Steps that leave the sizes of host and PV alone keep the invariant, if
\* nobody is kept from resizing.
LEMMA SizesKept ==
  ASSUME Capacity, UNCHANGED <<pvSize, lv, fs, expanded>>,
         \A g \in Handlers : call'[g].pc # "idle" =>
           Sizing(g)' \/ (call[g].pc # "idle" /\ call'[g].pc = call[g].pc
                           /\ call'[g].op = call[g].op /\ call'[g].want = call[g].want
                           /\ call'[g].bytes = call[g].bytes /\ call'[g].size = call[g].size
                           /\ call'[g].target = call[g].target),
         \A g \in Handlers : call[g].pc = "resizefs" =>
           call'[g].pc = "resizefs" /\ call'[g].target = call[g].target
  PROVE  Capacity'
<1>1. PvSizesKnown'
  BY DEF Capacity, PvSizesKnown
<1>2. ASSUME NEW g \in Handlers, call'[g].pc # "idle" PROVE Sizing(g)'
  BY <1>2 DEF Capacity, Sizing, Vol
<1>3. ASSUME NEW v \in Volumes PROVE Grown(v)'
  <2>1. Resizing(v) => Resizing(v)'
    BY DEF Resizing, At, Vol
  <2> QED
    BY <2>1 DEF Capacity, Grown
<1> QED
  BY <1>1, <1>2, <1>3 DEF Capacity

\* A response reports at most the capacity that the device has.
LEMMA RespondCapacity ==
  ASSUME TypeOK, CallsOK, Capacity, NEW h \in Handlers, Respond(h)
  PROVE  Capacity'
<1>1. /\ \A g \in Handlers : call'[g] = IF g = h THEN Idle ELSE call[g]
      /\ UNCHANGED <<pvSize, lv, fs>>
      /\ call[h].pc \in {"ok", "err"}
  BY DEF Respond, TypeOK, hostVars
<1>2. Vol(h) \in Volumes /\ Sizing(h)
  BY <1>1, VolType DEF Capacity
<1>3. PvSizesKnown'
  BY <1>1 DEF Capacity, PvSizesKnown
<1>4. ASSUME NEW g \in Handlers, call'[g].pc # "idle" PROVE Sizing(g)'
  <2>1. call'[g] = call[g] /\ Vol(g)' = Vol(g)
    BY <1>1, <1>4 DEF Idle, Vol
  <2> QED
    BY <1>1, <1>4, <2>1 DEF Capacity, Sizing
<1>5. ASSUME NEW v \in Volumes PROVE Grown(v)'
  <2>1. Resizing(v) => Resizing(v)'
    <3> SUFFICES ASSUME NEW g \in Handlers, call[g].pc = "resizefs", Vol(g) = v
                 PROVE  Resizing(v)'
      BY DEF Resizing, At
    <3>1. call'[g] = call[g]
      BY <1>1
    <3>2. At(g, "resizefs")' /\ Vol(g)' = v
      BY <3>1 DEF At, Vol
    <3> QED
      BY <3>2 DEF Resizing
  <2>2. CASE expanded'[v] = expanded[v]
    BY <1>1, <2>1, <2>2 DEF Capacity, Grown
  <2>3. CASE expanded'[v] # expanded[v]
    <3>1. v = Vol(h) /\ Accepted(h, "expand") /\ expanded'[v] = call[h].want
      BY <2>3 DEF Respond, TypeOK
    <3>2. lv[v] >= call[h].want /\ call[h].want > 0
      BY <1>2, <3>1 DEF Accepted, At, Sizing
    <3>3. lv[v] \in Nat /\ call[h].want \in Nat
      BY DEF TypeOK, Calls
    <3> QED
      BY <1>1, <2>1, <3>1, <3>2, <3>3 DEF Capacity, Grown
  <2> QED
    BY <2>2, <2>3
<1> QED
  BY <1>3, <1>4, <1>5 DEF Capacity

LEMMA GrowPvCapacity ==
  ASSUME TypeOK, CallsOK, Capacity, NEW v \in Volumes, GrowPv(v)
  PROVE  Capacity'
<1>1. UNCHANGED <<call, lv, fs, expanded>>
  BY DEF GrowPv, handlerVars, hostVars, kubeletVars
<1>2. PICK s \in GrownSizes : s > pvSize[v] /\ pvSize' = [pvSize EXCEPT ![v] = s]
  BY DEF GrowPv
<1>3. \A u \in Volumes : /\ pvSize[u] \in Nat /\ pvSize'[u] \in Nat
                         /\ InitialSize[u] \in Nat /\ pvSize[u] <= pvSize'[u]
  <2>1. s \in Nat /\ \A u \in Volumes : InitialSize[u] \in Nat /\ pvSize[u] \in Nat
    BY ConstantsAssumption DEF TypeOK
  <2>2. \A u \in Volumes : pvSize'[u] = IF u = v THEN s ELSE pvSize[u]
    BY <1>2 DEF TypeOK
  <2> QED
    BY <1>2, <2>1, <2>2
<1>4. PvSizesKnown'
  BY <1>2, <1>3 DEF TypeOK, Capacity, PvSizesKnown
<1>5. ASSUME NEW g \in Handlers, call[g].pc # "idle" PROVE Sizing(g)'
  <2>1. Vol(g) \in Volumes /\ Vol(g)' = Vol(g) /\ call[g].want \in Nat
    BY <1>1, <1>5, VolType DEF Vol, TypeOK, Calls
  <2>2. Sizing(g)
    BY <1>5 DEF Capacity
  <2> QED
    BY <1>1, <1>3, <2>1, <2>2 DEF Sizing
<1>6. ASSUME NEW u \in Volumes PROVE Grown(u)'
  BY <1>1 DEF Capacity, Grown, Resizing, At, Vol
<1> QED
  BY <1>1, <1>4, <1>5, <1>6 DEF Capacity

\* A call asks for no more than the PV's capacity.
LEMMA RequestCapacity ==
  ASSUME TypeOK, CallsOK, Capacity, NEW h \in Handlers, NEW t \in Targets,
         CallPublish(h, t) \/ CallUnpublish(h, t) \/ CallExpand(h, t)
  PROVE  Capacity'
<1>1. /\ \A g \in Handlers \ {h} : call'[g] = call[g]
      /\ call[h].pc = "idle"
      /\ call'[h].pc \in {"reset", "ubranch", "xbranch"}
      /\ call'[h].target = t
      /\ UNCHANGED <<pvSize, lv, fs, expanded>>
  BY RequestFrame DEF hostVars, kubeletVars
<1>2. \/ call'[h].want = 0 /\ call'[h].op # "expand"
      \/ call'[h].want = pvSize[VolumeOf[t]] /\ expanded[VolumeOf[t]] < pvSize[VolumeOf[t]]
  <2>1. CASE CallPublish(h, t)
    BY <2>1 DEF TypeOK, CallPublish, Request, Idle
  <2>2. CASE CallUnpublish(h, t)
    BY <2>2 DEF TypeOK, CallUnpublish, Request, Idle
  <2>3. CASE CallExpand(h, t)
    BY <2>3 DEF TypeOK, CallExpand, Request, Idle
  <2> QED
    BY <2>1, <2>2, <2>3
<1>3. VolumeOf[t] \in Volumes
  BY ConstantsAssumption
<1>4. pvSize[VolumeOf[t]] \in Nat /\ expanded[VolumeOf[t]] \in Nat
  BY <1>3 DEF TypeOK
<1>5. Sizing(h)'
  BY <1>1, <1>2, <1>4 DEF Sizing, Vol
<1> QED
  BY <1>1, <1>5, SizesKept

LEMMA NextCapacity ==
  ASSUME SizesCovered, HostOnlyInv, faults' = 0, crashes' = 0, TypeOK, CallsOK,
         FilesystemFitsDevice, PreparedForMount, Capacity, [Next]_vars
  PROVE  Capacity'
<1>1. CASE \E h \in Handlers : HandlerStep(h)
  BY <1>1, HandlerStepCapacity
<1>2. CASE Crash \/ \E h \in Handlers : Panics(h)
  BY <1>2 DEF Crash, Panics, Fault, TypeOK
<1>3. CASE \E h \in Handlers : Respond(h)
  BY <1>3, RespondCapacity
<1>4. ASSUME NEW h \in Handlers, GiveUp(h) PROVE Capacity'
  <2>1. UNCHANGED <<pvSize, lv, fs, expanded>>
    BY <1>4 DEF GiveUp, hostVars, kubeletVars
  <2>2. \A g \in Handlers :
          /\ call'[g].pc = call[g].pc /\ call'[g].op = call[g].op
          /\ call'[g].want = call[g].want /\ call'[g].bytes = call[g].bytes
          /\ call'[g].size = call[g].size /\ call'[g].target = call[g].target
    BY <1>4 DEF GiveUp, TypeOK, Calls
  <2> QED
    BY <2>1, <2>2, SizesKept
<1>5. CASE \E h \in Handlers, t \in Targets :
             CallPublish(h, t) \/ CallUnpublish(h, t) \/ CallExpand(h, t)
  BY <1>5, RequestCapacity
<1>6. CASE \E v \in Volumes : GrowPv(v)
  BY <1>6, GrowPvCapacity
<1>7. CASE \/ \E t \in Targets : StopPod(t) \/ PodWrites(t)
           \/ UNCHANGED vars
  BY <1>7, SizesKept DEF StopPod, PodWrites, vars, handlerVars, hostVars, kubeletVars
<1> QED
  BY <1>1, <1>2, <1>3, <1>4, <1>5, <1>6, <1>7 DEF Next

\* On a node without direct volumes, and for capacities that survive the
\* conversion to LVM's units, a mounted file system has at least the capacity
\* reported for it, or is about to: for any number of pods, of concurrent
\* calls, of expansions, and of calls kubelet has given up on.
THEOREM CapacityIsHonoured ==
  ASSUME NoDirectVolumes, SizesCovered
  PROVE  Spec => []CapacityHonoured
<1> DEFINE I == /\ TypeOK /\ CallsOK /\ FilesystemFitsDevice /\ PreparedForMount
                /\ HostOnlyInv
                /\ faults = 0 /\ crashes = 0 => Capacity
<1>1. Init => I
  <2> SUFFICES ASSUME Init PROVE I
    OBVIOUS
  <2>1. TypeOK /\ CallsOK
    BY InitTypes
  <2>2. FilesystemFitsDevice /\ PreparedForMount /\ HostOnlyInv
    BY DEF Init, FilesystemFitsDevice, PreparedForMount, HostOnlyInv, Idle
  <2>3. \A v \in Volumes : Grown(v)
    BY DEF Init, Grown
  <2>4. Capacity
    BY <2>3, ConstantsAssumption DEF Init, Capacity, PvSizesKnown, Idle
  <2> QED
    BY <2>1, <2>2, <2>4
<1>2. I /\ [Next]_vars => I'
  <2> SUFFICES ASSUME I, [Next]_vars PROVE I'
    OBVIOUS
  <2>1. TypeOK' /\ CallsOK' /\ FilesystemFitsDevice' /\ PreparedForMount'
    BY NextTypes, NextFits
  <2>2. HostOnlyInv'
    BY NextHostOnly
  <2>3. ASSUME faults' = 0, crashes' = 0 PROVE Capacity'
    BY <2>3, CountersGrow, NextCapacity DEF TypeOK
  <2> QED
    BY <2>1, <2>2, <2>3
<1>3. I => CapacityHonoured
  <2> SUFFICES ASSUME I, faults = 0, crashes = 0,
                      NEW t \in Targets, t \in mnt
               PROVE  \/ fs[VolumeOf[t]] >= expanded[VolumeOf[t]]
                      \/ \E h \in Handlers : At(h, "resizefs") /\ Vol(h) = VolumeOf[t]
    BY DEF CapacityHonoured
  <2> DEFINE v == VolumeOf[t]
  <2>1. v \in Volumes
    BY ConstantsAssumption
  <2>2. fs[v] > 0 /\ fs[v] <= lv[v] /\ fs[v] \in Nat /\ lv[v] \in Nat /\ Grown(v)
    BY <2>1 DEF FilesystemFitsDevice, TypeOK, Capacity
  <2> QED
    BY <2>2 DEF Grown, Resizing
<1> QED
  BY <1>1, <1>2, <1>3, PTL DEF Spec

=============================================================================
