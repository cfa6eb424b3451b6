# TLA+ models of kata-local-csi-driver

A verification project for the driver in `src/`: a CSI driver that gives pods
local LVM volumes, either mounted on the host or handed to kata containers as
"direct" volumes (a record from which the kata runtime attaches the device to
the guest).

## 1. Inventory

| Part | Code | State | Operations | Talks to |
|---|---|---|---|---|
| Node service | `pkg/csi/lvm/nodeserver.go`, `util.go`, `pkg/utils/mounter.go` | one field, `isDirect`, shared by all requests; everything else is on the host: LVs, file systems, mounts, target directories, kata records | NodePublishVolume, NodeUnpublishVolume, NodeExpandVolume | kubelet (calls, repeats, gives up), API server (reads the PV), LVM and mount commands |
| Controller service | `pkg/csi/lvm/controllerserver.go` | none | CreateVolume (`pickNodeID`), DeleteVolume, ControllerExpandVolume | external provisioner and resizer |
| Maintenance loop | `pkg/om` | `FixedPodList`, in memory | reads the log every ten seconds, repairs orphaned pods and block links | kubelet, through the log and the same files |
| Requests in flight | `pkg/csi/lvm/inflight.go` | a map behind a mutex | Insert, Delete | no caller yet |
| LVM library | `pkg/csi/lvm/vg.go` | LVM's metadata; handles by name | create, look up, remove, expand PVs, VGs, LVs | LVM commands; no caller yet |
| Start-up | `cmd/driver/main.go`, `lvm.go`, `GetMetaData` | flags, the socket file, the health port, the node ID | starts the loop, a driver goroutine per name, the health server | kubelet and the registrar, the metadata service, csi-common |
| Identity service, metrics, device inventory, scheduler maps, cgroup names | `identityserver.go`, `pkg/metrics`, `pkg/csi/device`, `pkg/csi/interface.go`, `cgroup_driver.go` | none that others depend on | | |

What is hard here. The node service takes no lock, so requests for one or
several volumes interleave command by command; a request whose deadline has
passed goes on while its retry runs; each handler is a sequence of external
commands, any of which may fail, and the process may die between two of them;
decisions are made on values read some commands earlier. The maintenance loop
removes files beside a kubelet that creates and removes the same ones, and beside
the handlers of its own process, with which it shares no lock. Several goroutines
and several processes make one socket file and want one port. The
controller keeps nothing, so what it answered is only remembered by whoever
received the answer. `PROJECT.json` lists these hazards with their lines and
the properties that watch them.

What makes each part correct:

* node service: a running pod has its volume, in the form its storage class
  asks for, on a device that exists and has the reported capacity; nothing a
  pod wrote is destroyed; unpublish leaves nothing behind; every call can be
  repeated until it succeeds;
* controller: the data of a volume is in one place; a deleted volume is gone;
* maintenance: what is in use is never removed, and orphans do go;
* requests in flight: one request per volume, no key left behind;
* start-up: a process that serves can be reached, under the same node ID every
  time;
* LVM library: a handle promises no more than there is; what was created is
  found.

## 2. Modules

| Module | What it is |
|---|---|
| `PvInfo` | the arithmetic of getPvInfo (bytes to a number of GiB or MiB) and LVM's rounding |
| `NodeServer` | the node service with kubelet and the API server around it |
| `PublishedVolumes` | the promise to pods: abstract specification that `NodeServer` implements, with `attached <- mnt \cup rec` |
| `NodeServerProofs`, `SerialProofs` | theorems about `NodeServer` |
| `StorageOM`, `StorageOMProofs` | the maintenance loop and kubelet; its theorems |
| `Node` | the process on a node: `NodeServer` composed with an instance of `StorageOM` on the same mounts and directories |
| `NodeProofs` | theorems about the composition, from `SerialProofs` and an instance of `StorageOMProofs` |
| `Startup`, `StartupProofs` | the driver processes of a host, up to where they serve; its theorems |
| `Provisioning`, `ProvisioningProofs` | a volume over the nodes of a cluster; its theorems |
| `InFlight`, `InFlightProofs` | the map of requests, mutex step by mutex step; its theorems |
| `VolumeGroups`, `VolumeGroupsProofs` | the LVM library used by several goroutines; its theorems |
| `MC*` | instances for TLC; one `.cfg` per run |

How state and actions correspond to the code is in the `map` of `PROJECT.json`
and in the comments of the modules. Some remarks:

* `NodeServer`: `call[h]` is a request goroutine, `pc` the command it is about
  to run, the other fields its local variables (`created` is volumeNewCreated,
  `size` and `bytes` what getPvInfo returned). One step is one access to
  something shared: the field, the API server, one external command. `lv`,
  `fs`, `mnt`, `rec`, `dirs` are the host. Kubelet waits for one call per volume
  (unpublish calls of different pods may overlap), repeats what failed, and may
  give up on a call (`GiveUp`) that then runs on. The access to `isDirect` is a
  data race in Go; on the supported platforms a bool is read and written whole,
  so every read sees one of the values written. File system contents are a set
  of volumes with data; mkfs takes the volume out of it.
* `StorageOM`: a log line is a record; parsing keeps only what the line names.
  Kubelet is modelled from what it does to these files: it writes the directory
  and `vol_data.json` first, then publishes; it complains about orphans as long
  as they have volumes, and may tear them down itself at any moment.
* `Node`: the loop's `mounted` and `mdir` are `mnt` and `dirs` of `NodeServer`; a
  target is a pair of a pod and a volume. `Handle` adds what MkdirAll does to the
  parents of a target, which `NodeServer` alone does not need; `ProcessEnds` is a
  crash of both. Kubelet is the one of `NodeServer` together with the files
  `StorageOM` knows it by.
* `Startup`: `main[p]` and `driver[p][n]` are the goroutines of a process, n being
  the position of the driver's name in -driver; `socket`
  is the listener a socket file leads to, none when there is no file, `Stale` when
  its process has ended. `NewCSIDriver` returns nil for an empty ID and the next
  line panics, so an empty answer of the metadata service ends the process, while
  an error page becomes the ID. `wg.Wait` is never reached.
* `Provisioning`: a topology is the set of the nodes its key names, empty when it
  has no such key; `EmptyId` is a key without a value. Publishing is one step here; `NodeServer` has its detail. A pod
  is identified with its node.
* `InFlight`: the deferred Unlock is a step of its own.
* `VolumeGroups`: a volume has an id the code does not have, to tell apart two
  that had the same name. `known` is lvmetad's cache. An operation that fails
  at its only command changes nothing and is not an action.

Definitions whose comment begins with "Mutant of" are not part of the
specifications: each is a faulty version of the definition after it, in which a
property must fail (`mutants` in `PROJECT.json`).

## 3. Runs

Bytes are scaled down: Mi = 2, Gi = 8, an extent is 4 (so 12 is "1.5Gi").

| Run | Instance | Result |
|---|---|---|
| Mixed | one plain, one direct volume; 2 goroutines; 1 failure, 1 restart, 1 timeout | types, PublishedSomewhere, NoLeakedMount, PublishedDeviceExists and the refinement hold |
| Mounts | two pods on a striped plain volume of 768Mi that is expanded twice; 2 goroutines; 1 restart, 1 timeout | RunningPodHasItsVolume, FilesystemFitsDevice and CapacityHonoured hold |
| Liveness | FairSpec; a plain volume and one that cannot be published; 1 failure, 1 restart | pods start, pods leave, expansions finish |
| Orphans | FairSpec; a pod with two volumes, a block link; 1 failure, 1 restart | metadata is kept while mounted, fixed pods are clean, orphans leave |
| Together | handlers and loop in one process; two pods on one volume that is expanded, both may be deleted while kubelet is down; 2 goroutines; 1 failure, 1 restart | RepairsAreFinal, DataSurvives and OnlyLeavingPodsLoseVolumes hold |
| Serving | FairSpec; the node and controller pods of `hack/deployment` on one host, a process with two driver names and no -nodeid; 1 failure or kill | types, ServingIsReachable and NodeIdStable hold, and EventuallyServes |
| Placement | two nodes, two volumes, lost answers, a node with room for one | types; one copy per volume |
| Exclusion | FairSpec; three requests, two volumes | exclusion, no stale key, all requests end |
| LvmHandles | two goroutines, one group, two names, 1 failure | handles stay within their volumes, new groups are found |

Runs that are expected to fail show where the code and what the repository says
of it disagree; each has a finding with the line:

| Run | What TLC finds |
|---|---|
| IsDirectRace | two overlapping publishes: the wrong kind of volume is given to a pod |
| StaleBlankCheck | a publish that timed out formats a volume that holds data by now |
| NoTopology | without topology a volume gets a copy per node |

What the instances of the passing runs leave out, or their properties exclude with
a condition, is left out for one of two reasons. Some of it would take an instance
out of TLC's reach: `Mixed` has no expansion (the panic of NodeExpandVolume is in
`Liveness` and `Together`), `Liveness` one goroutine and no timeout, and the noise
in the log of `Orphans` is bounded. The theorems, which are about safety, have none of these limits. The
rest is left out because the property then fails:

* CapacityHonoured needs host volumes only (after the publish of a direct
  volume `NodeExpandVolume` skips every volume and reports success), no restart
  so far (one between lvextend and the resize: the retry finds the LV large
  enough and never resizes), no failed read of the PV so far (its size is then 0,
  "nothing to do") and an initial size that `getPvInfo` does not truncate (1.5Gi
  is created as 1g). A retry after a timeout may report success while the first
  call is still at the resize, which the property allows for.
* ExpansionsFinish needs such sizes too: from 1Gi to 1.5Gi lvextend is asked for
  1g, refuses, and the expansion is repeated for ever. The same happens when the
  annotation of the PV names another group than the storage class.
* NoLeakedMount speaks of states before any timeout (a publish kubelet gave up on
  may mount after the unpublish) and any failing command (a failing grep reads as
  "not mounted").
* RepairsAreFinal speaks of states before any timeout: such a publish may also
  mount after the loop has marked the pod as fixed, and is then never repaired.
* PublishedDeviceExists needs an lvmType the driver knows (any other creates
  nothing and goes on) and an os.Stat that does not fail (an error other than
  "not exist" is taken as an existing device).
* EventuallyServes is about processes with one driver name: the goroutines of two
  may for ever run into each other's socket and end the process. Of processes
  that want the same health port it promises one; on a node that runs both pods
  of `hack/deployment`, which both take the default port of the host, the other
  one restarts for ever.
* NodeIdStable needs -nodeid, or a metadata service that always answers.
* OrphansLeave needs both switches: with ISSUE_ORPHANED_POD alone `StorageOM`
  never reads the log.

Behaviour of the code that is in the models and that no property speaks of: the
record of a direct volume stays when isDirect was overwritten, or lost in a
restart, before its unpublish; the target directory stays after unpublish; the
link of a pod that starts between the look at /proc/mounts and the removal is
removed; DeleteVolume leaves the logical volume, so that a group may fill up with deleted
ones; LookupLogicalVolume panics when a snapshot disappears between its two lvs
commands. A handler panics in two places, which ends the process with every other
request in it (`Panics`): NodeExpandVolume when the PV cannot be read, and
NodePublishVolume when IsMounted fails for a target path that exists, because the
`err` it formats is the one of the os.Stat before, nil by then. The properties hold
across both.

No instance has a PV that names another group (`pvVG = "other"`); the theorems
cover it.

Bounds. Two goroutines are enough for every race of a request with another one
and with its own retry; two volumes and two or three targets for sharing and for
independence; one failure, one restart and one timeout at any point, combined,
reach every state in which the code has to resume from the middle. Deadlock is
not checked in the node, provisioning, maintenance, start-up and LVM models
since they stop when the bounded pods, failures and creations are used up, or
when every process serves; the liveness runs make up for it. `Together` has no
timeout, which keeps it within reach of TLC; a pod deleted while kubelet is down
leaves no call that kubelet waits for. `InFlight` never stops, and deadlock is checked.

Fairness. A goroutine that can take a step does (the Go scheduler); kubelet
repeats a call until it succeeds, which needs strong fairness because a free
goroutine and a free volume come and go; failures, restarts, timeouts, new pods
and deletions are never forced. In `StorageOM` the loop is weakly fair and
kubelet keeps complaining; in `Startup` every goroutine is weakly fair and so is
the restart of a process that has ended; in `InFlight` a step is strongly fair because Go's
mutex hands itself over to a waiter that has starved.

## 4. Proofs

TLAPS checks these for every value of the constants (any number of volumes,
targets, goroutines, any sizes, any bounds):

The node service alone (`NodeServerProofs`, `SerialProofs`):

* `TypeCorrect`: with the auxiliary `CallsOK`, which ties a goroutine's pc to its
  target, since an idle goroutine has none.
* `RunningIsPublished` and `Implements`: by the inductive invariant `Custody`.
  PublishedSomewhere alone is not inductive: it needs that a handler past a
  certain pc has attached its target (`PublishedSoFar`), and that only stopped
  targets are being unpublished (`OnlyStoppedAreUnpublished`), also by requests
  kubelet no longer waits for.
* `HostVolumesAreMounted`: assumes that no volume is direct
  (`NoDirectVolumes`); then isDirect is never true (`HostOnlyInv`). Without it
  the run IsDirectRace refutes it.
* `FilesystemsFit`: by `PreparedForMount` (a handler that is about to mount has
  a formatted device).
* `DataIsSafe`: assumes `MaxTimeouts = 0`, that is, kubelet waits for every
  call; by `Serial` (one request per volume) and `BlankAtMkfs` (a
  device about to be formatted is still blank). The run StaleBlankCheck shows
  that the assumption is needed.
* `UnpublishUnmounts`: assumes nothing of the bounds, since NoLeakedMount itself
  speaks of states before any timeout and any failure; by `Serial` and `Cleared`,
  which hold as long as the two counters are 0 and, since these only grow
  (`CountersGrow`), held in every earlier state.
* `DevicesExist`: by `Backed` (a handler past createVolume and os.Stat has a
  device, and so has everything attached), since no handler shrinks a device and
  LVM's rounding never goes below what was asked for (`RoundUpCovers`). It assumes that every
  lvmType is one createVolume knows; another one runs no lvcreate and goes on.
* `CapacityIsHonoured`: by `Capacity`, which has three parts: a PV has its
  first capacity or a grown one, and never less than the first (`PvSizesKnown`), every
  call works with sizes that are enough for what was asked of it (`Sizing`), and a
  file system smaller than its device has a call at the resize (`Grown`). The last
  one holds because calls that extend a device go on to resize it and calls that
  find it large enough need not. Two assumptions: no direct volumes, and
  `SizesCovered`, that getPvInfo's whole GiB or MiB, rounded up by LVM, are at
  least the capacity. `WholeUnitsCovered` proves the latter of capacities in whole
  GiB, and of those in whole MiB below one GiB; section 3 says what happens to
  others.

The maintenance loop (`StorageOMProofs`) and the node (`NodeProofs`):

* `TypeCorrect`, `JsonIsKept`, `FixedStayClean`: by one inductive invariant. The
  loop takes no lock; what keeps it apart from kubelet is `OnlyStopped` (a pod it
  has read of, works on or remembers was given up by kubelet, and such pods do
  not come back), so that only a teardown interleaves with a repair. JsonKeptWhileMounted
  needs `UnmountedFirst` (at the removal of vol_data.json nothing is mounted in
  the directory at hand) and `LiveVolumesKnown` (volumes of a live pod have their
  vol_data.json before they are mounted).
* `OthersKeepVolumes` and `RunningStaysPublished` assume nothing beyond the types
  of the constants. A step
  of the node either is a step of the node service or is `Foreign` to it: it
  unmounts volumes of stopped pods, removes directories or stops pods, and touches
  no request, device or record. Foreign steps keep `Custody`, because a stopped
  pod uses none of its volumes (`Leaving`); the steps of the service keep
  `OnlyStopped`, which speaks of no mount.
* `RepairsStayFinal`: while kubelet waits for its calls (`Quiet`), publish works for live
  pods only, and these have their files, so the service's mounts look to the loop
  like kubelet's own and the invariant of `StorageOMProofs` holds, taken over by INSTANCE with
  `mounted <- mnt, mdir <- dirs`. It speaks, as RepairsAreFinal does, of
  states before any timeout.
* `NodeDataIsSafe`: assumes `MaxTimeouts = 0` like `DataIsSafe`, and has its argument,
  as no Foreign step writes to a device.

The other components:

* `VolumeGroupsProofs`: `TypeCorrect`; `HandlesAreHonest` by `Numbered` (ids are given
  once, so a volume that took over a name is not taken for the one the handle was
  made for) and the rounding of lvcreate; `GroupsAreFound` by `ScanOwed` (a group that
  lvmetad has missed is owed a scan by some goroutine; the vgscan alone only
  after a failure, and the property allows one). The labels of devices
  without a group are assumed not to be names of groups.
* `ProvisioningProofs`: `TypeCorrect`, and `CopiesAreUnique`, which assumes that
  every requirement names a node (a key with an empty value names none); by
  `Pinned` (the affinity is chosen once and before any pod is scheduled; copies are made
  within it) and what `pickNodeID` returns. NoTopology shows that the
  assumption is needed.
* `AtMostOneWorks` and `KeysAreOwned`: by `Locked` (whoever is inside Insert or
  Delete holds the mutex; a key found missing is still missing when stored).
* `StartupProofs`, for any number of processes with any number of driver names,
  assuming that every process has an endpoint of its own: `Reachable` by
  `Replaced` (when a driver of a process serves, the file leads to one of them or
  one is about to make it anew), which needs `InOrder` (drivers start in
  order, each once); `Stable` by `Identified` (the ID of a process is the flag or
  the instance's as long as it does not depend on a failed answer) and
  `ListenersRun` (who is behind a file still serves). `TypeCorrect` says among
  other things that main starts no more drivers than there are names.

`Serial` is what `DataIsSafe` needs of the caller and what `InFlight` would
guarantee if the handlers used it: the two together say how the race of
StaleBlankCheck could be closed.

Only model-checked: what holds under fairness (PodsStart, PodsLeave,
ExpansionsFinish, OrphansLeave, RequestsEnd, EventuallyServes), which is out of the prover's reach. Every invariant and every
action property of the passing runs is also a theorem.

## 5. Not modelled

Identity service (constant answers), logging, metrics, the block device
inventory and the cgroup names (formatting and I/O without control). The
scheduler maps, and of `pkg/utils` what neither the handlers nor the loop calls,
among it the node address cache, which is read without its mutex. Read-only and empty RPCs
(NodeGetCapabilities, NodeStageVolume, ControllerPublishVolume, ...). Mount
options, fsType and tags, which no property depends on. Striping is present as
far as it decides whether lvcreate succeeds. The text of error messages.

## 6. Plan

Done, in the order of importance: node service, its abstract specification and
proofs; maintenance loop; provisioning; requests in flight; LVM library; the
composition of the node service with the maintenance loop; start-up; the proofs of
every invariant the runs check.

Next:

1. proofs: that `Node` too implements `PublishedVolumes`, once that has steps which
   stop and remove all targets of a pod at once;
2. `Node` with a timeout, if the instance can be made small enough;
3. the helpers of `pkg/utils` once something calls them: SafePathRemove and
   IsNotMountPoint against their comments, the node address cache.
