-------------------------------- MODULE Node --------------------------------
(***************************************************************************)
(* One node: the CSI node service and the maintenance loop, which main     *)
(* starts in the same process (cmd/driver/main.go), work on the same mount *)
(* points and directories.  The loop is an instance of StorageOM on the    *)
(* variables of NodeServer: what it calls mounted and mdir are mnt and     *)
(* dirs.  Neither takes a lock the other knows of, so an unpublish that    *)
(* kubelet asks for and a repair of the loop meet in any order.            *)
(*                                                                         *)
(* Kubelet is the one of NodeServer, with the files it keeps for a pod: a  *)
(* volume directory and vol_data.json, made before the first publish and   *)
(* removed after the last unpublish.                                       *)
(***************************************************************************)
EXTENDS NodeServer, Sequences

CONSTANTS
  Pods,
  Forgotten,  \* bound: pods that may be deleted while kubelet is down
  TailLines

\* A target path is <pod>/volumes/kubernetes.io~csi/<volume>/mount.
ASSUME TargetsAssumption ==
  /\ Targets \subseteq Pods \X Volumes
  /\ \A t \in Targets : VolumeOf[t] = t[2]
  /\ Forgotten \subseteq Pods
  /\ TailLines \in Nat

VARIABLES log, pod, csi, json, links, inUse, om, fixed, noise

OM == INSTANCE StorageOM WITH
  Vols <- Volumes, Links <- {}, BlockLinks <- {},
  IssueBlockReference <- TRUE, IssueOrphanedPod <- TRUE, MaxNoise <- 0,
  mounted <- mnt, mdir <- dirs

omVars   == <<om, fixed>>
files    == <<csi, json>>
unused   == <<links, inUse, noise>>
nodeVars == <<vars, omVars, log, pod, files, unused>>

NodeInit == Init /\ OM!Init

Of(p) == {t \in Targets : t[1] = p}

\* The directory of a target path stands in its volume's and its pod's, and
\* MkdirAll, in Mount and in publish's recovery, makes them all.
WithParents(new) ==
  /\ csi' = [p \in Pods |-> csi[p] \cup {t[2] : t \in Of(p) \cap new}]
  /\ pod' = [p \in Pods |-> IF pod[p] = "gone" /\ Of(p) \cap new # {} THEN "orphan"
                            ELSE pod[p]]

Handle(h) ==
  /\ HandlerStep(h)
  /\ WithParents(dirs' \ dirs)
  /\ UNCHANGED <<omVars, log, json, unused>>

Maintain ==
  /\ OM!OmStep
  /\ UNCHANGED <<handlerVars, pvSize, lv, fs, data, rec, kubeletVars, timeouts>>

\* The requests and the loop go down together; FixedPodList is forgotten.
ProcessEnds ==
  /\ Crash \/ \E h \in Handlers : Panics(h)
  /\ om' = OM!Asleep
  /\ fixed' = {}
  /\ UNCHANGED <<log, pod, files, unused>>

-----------------------------------------------------------------------------
(***************************************************************************)
(* Kubelet (external).                                                     *)
(***************************************************************************)
StartPod(p) ==
  /\ pod[p] = "new"
  /\ pod' = [pod EXCEPT ![p] = "live"]
  /\ csi' = [csi EXCEPT ![p] = {t[2] : t \in Of(p)}]
  /\ json' = json \cup Of(p)
  /\ UNCHANGED <<vars, omVars, log, unused>>

Publishes(h, t) == pod[t[1]] = "live" /\ CallPublish(h, t)

\* Kubelet knows how to unpublish from vol_data.json, which also makes a
\* restarted kubelet rediscover the volume of a pod it had forgotten.
Unpublishes(h, t) == t \in json /\ CallUnpublish(h, t)

\* Calls, responses, and what pods and the control plane do.
Serve ==
  /\ \/ \E h \in Handlers : Respond(h) \/ GiveUp(h)
     \/ \E h \in Handlers, t \in Targets :
          Publishes(h, t) \/ Unpublishes(h, t) \/ CallExpand(h, t)
     \/ \E t \in Targets : (pod[t[1]] = "live" /\ StopPod(t)) \/ PodWrites(t)
     \/ \E v \in Volumes : GrowPv(v)
  /\ UNCHANGED <<omVars, log, pod, files, unused>>

\* What an unpublished volume leaves behind is removed.
ForgetVolume(t) ==
  /\ phase[t] = "gone" /\ t[2] \in csi[t[1]] /\ t \notin mnt
  /\ dirs' = dirs \ {t}
  /\ json' = json \ {t}
  /\ csi' = [csi EXCEPT ![t[1]] = @ \ {t[2]}]
  /\ UNCHANGED <<handlerVars, pvSize, lv, fs, data, mnt, rec, kubeletVars, boundVars,
                 omVars, log, pod, unused>>

\* The pod is deleted while kubelet is down: its volumes are to go.  Nobody
\* waits for a call of the pod any more (GiveUp comes first).
OrphanPod(p) ==
  /\ p \in Forgotten
  /\ pod[p] = "live"
  /\ \A h \in Handlers : call[h].target \in Of(p) => ~call[h].awaited
  /\ pod' = [pod EXCEPT ![p] = "orphan"]
  /\ phase' = [t \in Targets |-> IF t \in Of(p) /\ phase[t] # "gone" THEN "stopping"
                                 ELSE phase[t]]
  /\ UNCHANGED <<handlerVars, pvSize, hostVars, expanded, boundVars, omVars, log, files,
                 unused>>

\* Kubelet complains about an orphan, and removes a directory without volumes.
Complain(p) == OM!LogOrphan(p) /\ UNCHANGED <<vars, unused>>

RemovePod(p) ==
  /\ pod[p] \in {"live", "orphan"} /\ csi[p] = {}
  /\ pod' = [pod EXCEPT ![p] = "gone"]
  /\ phase' = [t \in Targets |-> IF t \in Of(p) THEN "gone" ELSE phase[t]]
  /\ UNCHANGED <<handlerVars, pvSize, hostVars, expanded, boundVars, omVars, log, files,
                 unused>>

Kubelet ==
  \/ Serve
  \/ \E p \in Pods : StartPod(p) \/ OrphanPod(p) \/ Complain(p) \/ RemovePod(p)
  \/ \E t \in Targets : ForgetVolume(t)

NodeNext == (\E h \in Handlers : Handle(h)) \/ Maintain \/ ProcessEnds \/ Kubelet

NodeSpec == NodeInit /\ [][NodeNext]_nodeVars

-----------------------------------------------------------------------------
(***************************************************************************)
(* Properties.                                                             *)
(***************************************************************************)
\* A mount disappears only from a pod that is to go: neither an unpublish nor
\* the maintenance loop, which finds its pods in a log file, takes the volume
\* of another one.
OnlyLeavingPodsLoseVolumes == 
  [][\A t \in mnt \ mnt' : phase[t] \in {"stopping", "gone"}]_nodeVars

\* While kubelet waits for every call, the loop and the handlers together keep
\* vol_data.json as long as something is mounted, and remember a pod as fixed
\* only when nothing of it is left: a late mount would never be looked at.
RepairsAreFinal == timeouts = 0 => OM!JsonKeptWhileMounted /\ OM!FixedAreClean

=============================================================================
