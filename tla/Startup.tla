------------------------------- MODULE Startup -------------------------------
(***************************************************************************)
(* The start of the driver process (cmd/driver/main.go, pkg/csi/lvm/lvm.go *)
(* and the gRPC server of csi-common), up to where requests are served.    *)
(* A host may run several such processes, one per pod of the deployment.   *)
(* In a process the main goroutine starts the maintenance loop and one     *)
(* goroutine per driver name, which all listen on the one -endpoint, and   *)
(* then serves /healthz; whichever of them fails ends the whole process,   *)
(* and kubelet starts it again.  Socket files outlive their process.       *)
(***************************************************************************)
EXTENDS Naturals

CONSTANTS
  Processes,    \* driver processes of the host
  DriverCount,  \* names in -driver of a process, split at the commas
  Endpoint,     \* -endpoint of a process
  NodeIdFlag,   \* -nodeid of a process, or Empty
  ServiceType,  \* SERVICE_TYPE of a process, or Empty
  ServicePort,  \* SERVICE_PORT of a process, or Empty
  Empty,        \* the empty string
  Instance,     \* the ID in the metadata service
  ErrorPage,    \* what the metadata service answers instead
  MaxFaults     \* bound: operations that fail, and processes ended from outside

PluginService      == "local"
ProvisionerService == "provisioner"

\* The drivers of a process, in the order of their names; the names themselves
\* do not get further than to the directories main makes.
Drivers(p) == 1..DriverCount[p]

Names     == UNION {Drivers(p) : p \in Processes}
Endpoints == {Endpoint[p] : p \in Processes}
NodeIds   == {NodeIdFlag[p] : p \in Processes} \cup {Empty, Instance, ErrorPage}

\* Every process has a socket of its own: pods mount a directory each for it.
ASSUME StartupAssumption ==
  /\ \A p \in Processes : DriverCount[p] \in Nat \ {0}
  /\ \A p, q \in Processes : Endpoint[p] = Endpoint[q] => p = q
  /\ MaxFaults \in Nat

VARIABLES
  main,        \* where the main goroutine of a process is
  started,     \* drivers main has started
  driver,      \* where a driver's goroutine is
  nodeID,      \* the node ID a driver has been given
  socket,      \* the listener a socket file leads to
  registered,  \* kubelet: the node ID learnt when the plugin was registered
  faults

vars == <<main, started, driver, nodeID, socket, registered, faults>>

NoFile == << >>
Stale  == <<"gone">>  \* a file whose listener has ended

Init ==
  /\ main = [p \in Processes |-> "down"]
  /\ started = [p \in Processes |-> 0]
  /\ driver = [p \in Processes |-> [n \in Names |-> "none"]]
  /\ nodeID = [p \in Processes |-> [n \in Names |-> Empty]]
  /\ socket = [e \in Endpoints |-> NoFile]
  /\ registered = [p \in Processes |-> {}]
  /\ faults = 0

-----------------------------------------------------------------------------
Fault == faults < MaxFaults /\ faults' = faults + 1

\* os.Exit, log.Fatal, or a signal: every goroutine of the process ends, and
\* its socket file stays.
Exit(p) ==
  /\ main' = [main EXCEPT ![p] = "down"]
  /\ started' = [started EXCEPT ![p] = 0]
  /\ driver' = [driver EXCEPT ![p] = [n \in Names |-> "none"]]
  /\ nodeID' = [nodeID EXCEPT ![p] = [n \in Names |-> Empty]]
  /\ socket' = [e \in Endpoints |->
                  IF \E n \in Names : socket[e] = <<p, n>> THEN Stale ELSE socket[e]]
  /\ UNCHANGED registered

\* The process ends because an operation failed.
Fatal(p) == Fault /\ Exit(p)

-----------------------------------------------------------------------------
(***************************************************************************)
(* main.                                                                   *)
(***************************************************************************)
Type(p) == IF ServiceType[p] = Empty THEN PluginService ELSE ServiceType[p]

Known(p) == Type(p) \in {PluginService, ProvisionerService}

\* The log file is opened, and a large one renamed and opened anew, which may
\* fail.  Then "go om.StorageOM()", and the names are split.
SetLogAttribute(p) ==
  \/ /\ main' = [main EXCEPT ![p] = "loop"]
     /\ UNCHANGED <<started, driver, nodeID, socket, registered, faults>>
  \/ Fatal(p)

\* An unknown type of service ends the process.
CheckType(p) ==
  /\ main[p] = "type"
  /\ IF Known(p) THEN SetLogAttribute(p) ELSE Exit(p) /\ UNCHANGED faults

\* createPersistentStorage twice, then the goroutine of the next driver.
StartNext(p) ==
  /\ started' = [started EXCEPT ![p] = @ + 1]
  /\ driver' = [driver EXCEPT ![p][started[p] + 1] = "id"]
  /\ UNCHANGED <<main, nodeID, socket, registered, faults>>

\* Mutant of StartDriver: one round too many.
StartDriverOneMore(p) == main[p] = "loop" /\ started[p] <= DriverCount[p] /\ StartNext(p)

\* Mutant of StartDriver: the loop stops before the last name.
StartDriverButLast(p) ==
  /\ main[p] = "loop" /\ started[p] < DriverCount[p]
  /\ started' = [started EXCEPT ![p] = @ + 1]
  /\ driver' = IF started[p] + 1 = DriverCount[p] THEN driver
               ELSE [driver EXCEPT ![p][started[p] + 1] = "id"]
  /\ UNCHANGED <<main, nodeID, socket, registered, faults>>

\* One round of the loop over the names.
StartDriver(p) ==
  /\ main[p] = "loop" /\ started[p] < DriverCount[p]
  /\ StartNext(p) \/ Fatal(p)

Port(p) ==
  IF ServicePort[p] # Empty THEN ServicePort[p]
  ELSE IF Type(p) = PluginService THEN 12260 ELSE 12270

SamePort(p) == {q \in Processes : Known(q) /\ Port(q) = Port(p)}

\* A port of the host has one listener.
PortFree(p) == \A q \in SamePort(p) : main[q] # "serving"

\* ListenAndServe of /healthz, which answers from now on whatever the drivers do.
ServeHealth(p) ==
  /\ main[p] = "loop" /\ started[p] = DriverCount[p]
  /\ \/ /\ PortFree(p)
        /\ main' = [main EXCEPT ![p] = "serving"]
        /\ UNCHANGED <<started, driver, nodeID, socket, registered, faults>>
     \/ ~PortFree(p) /\ Exit(p) /\ UNCHANGED faults
     \/ Fatal(p)

-----------------------------------------------------------------------------
(***************************************************************************)
(* NewDriver and Run, in a goroutine per name.                             *)
(***************************************************************************)
DriverGoes(p, n, pc) ==
  /\ driver' = [driver EXCEPT ![p][n] = pc]
  /\ UNCHANGED <<main, started, registered>>

\* What GetMetaData returns: it asks neither for an error nor for the status.
GetMetaData(result) ==
  \/ result = Instance /\ UNCHANGED faults
  \/ result \in {Empty, ErrorPage} /\ Fault

\* NewCSIDriver returns nil for an empty ID, and the next line panics on it.
WithId(p, n, id) ==
  \/ /\ id # Empty
     /\ nodeID' = [nodeID EXCEPT ![p][n] = id]
     /\ DriverGoes(p, n, "remove") /\ UNCHANGED socket
  \/ id = Empty /\ Exit(p)

\* Mutant of NewDriver: the flag is not looked at.
NewDriverIgnoresFlag(p, n) ==
  /\ driver[p][n] = "id"
  /\ \E id \in {Instance, Empty, ErrorPage} : GetMetaData(id) /\ WithId(p, n, id)

\* The node ID is the flag, or else the instance ID of the metadata service.
\* NewNodeServer ends the process when it gets no Kubernetes client.
NewDriver(p, n) ==
  /\ driver[p][n] = "id"
  /\ \/ \E id \in NodeIds :
          /\ \/ NodeIdFlag[p] # Empty /\ id = NodeIdFlag[p] /\ UNCHANGED faults
             \/ NodeIdFlag[p] = Empty /\ GetMetaData(id)
          /\ WithId(p, n, id)
     \/ Fatal(p)

\* Mutant of RemoveSocket: done once the driver listens.
RemoveSocketLate(p, n) ==
  \/ /\ driver[p][n] = "remove"
     /\ DriverGoes(p, n, "listen") /\ UNCHANGED <<nodeID, socket, faults>>
  \/ /\ driver[p][n] = "serving" /\ socket[Endpoint[p]] # NoFile
     /\ socket' = [socket EXCEPT ![Endpoint[p]] = NoFile]
     /\ DriverGoes(p, n, "serving") /\ UNCHANGED <<nodeID, faults>>

\* serve removes whatever is at the path of the socket: nothing, the file of an
\* earlier process, or that of another driver of this one.
RemoveSocket(p, n) ==
  /\ driver[p][n] = "remove"
  /\ \/ /\ socket' = [socket EXCEPT ![Endpoint[p]] = NoFile]
        /\ DriverGoes(p, n, "listen") /\ UNCHANGED <<nodeID, faults>>
     \/ Fatal(p)

\* net.Listen makes the file, and fails when there is one.
Listen(p, n) ==
  /\ driver[p][n] = "listen"
  /\ \/ /\ socket[Endpoint[p]] = NoFile
        /\ socket' = [socket EXCEPT ![Endpoint[p]] = <<p, n>>]
        /\ DriverGoes(p, n, "serving") /\ UNCHANGED <<nodeID, faults>>
     \/ socket[Endpoint[p]] # NoFile /\ Exit(p) /\ UNCHANGED faults
     \/ Fatal(p)

-----------------------------------------------------------------------------
(***************************************************************************)
(* Kubelet (external).                                                     *)
(***************************************************************************)
\* The container is started, again if need be.
StartProcess(p) ==
  /\ main[p] = "down"
  /\ main' = [main EXCEPT ![p] = "type"]
  /\ UNCHANGED <<started, driver, nodeID, socket, registered, faults>>

Kill(p) == main[p] # "down" /\ Fatal(p)

\* The registrar asks the driver behind the socket for its node ID, once.
Register(p) ==
  /\ registered[p] = {}
  /\ \E n \in Names :
       /\ socket[Endpoint[p]] = <<p, n>>
       /\ registered' = [registered EXCEPT ![p] = {nodeID[p][n]}]
  /\ UNCHANGED <<main, started, driver, nodeID, socket, faults>>

ProcessStep(p) ==
  \/ CheckType(p) \/ StartDriver(p) \/ ServeHealth(p)
  \/ \E n \in Names :
       NewDriver(p, n) \/ RemoveSocket(p, n) \/ Listen(p, n)

Next ==
  \E p \in Processes : ProcessStep(p) \/ StartProcess(p) \/ Kill(p) \/ Register(p)

Spec == Init /\ [][Next]_vars

\* Every goroutine runs on, and kubelet restarts what has ended.
FairSpec ==
  /\ Spec
  /\ \A p \in Processes :
       /\ WF_vars(StartProcess(p) \/ CheckType(p) \/ StartDriver(p) \/ ServeHealth(p))
       /\ \A n \in Drivers(p) :
            WF_vars(NewDriver(p, n) \/ RemoveSocket(p, n)
                    \/ Listen(p, n))

-----------------------------------------------------------------------------
(***************************************************************************)
(* Properties.                                                             *)
(***************************************************************************)
\* Every variable keeps its type.
TypeOK ==
  /\ main \in [Processes -> {"down", "type", "loop", "serving"}]
  /\ started \in [Processes -> Nat]
  /\ \A p \in Processes : started[p] <= DriverCount[p]
  /\ driver \in [Processes ->
                   [Names -> {"none", "id", "remove", "listen", "serving"}]]
  /\ nodeID \in [Processes -> [Names -> NodeIds]]
  /\ socket \in [Endpoints -> {NoFile, Stale} \cup (Processes \X Names)]
  /\ registered \in [Processes -> SUBSET NodeIds]
  /\ faults \in Nat

Answered(p) == \E n \in Names : socket[Endpoint[p]] = <<p, n>>

\* Once the drivers of a process all serve, kubelet reaches one of them: the
\* goroutines of several names remove and make the same file in any order, and
\* the file of an earlier process does not stay.
ServingIsReachable ==
  \A p \in Processes :
    main[p] = "serving" /\ (\A n \in Drivers(p) : driver[p][n] = "serving")
      => Answered(p)

\* The node ID under which kubelet knows the plugin is the one it answers with
\* after every restart, if it comes from the flag or the metadata service has
\* always answered: volumes are bound to nodes by it.
NodeIdStable ==
  \A p \in Processes : NodeIdFlag[p] # Empty \/ faults = 0 =>
    \A n \in Names : \A id \in registered[p] :
      driver[p][n] = "serving" => nodeID[p][n] = id

\* Of the processes that would serve /healthz on one port of the host, and have
\* one driver name each, one ends up serving, whatever failed before and
\* whatever files it finds.
EventuallyServes ==
  \A p \in Processes :
    (Known(p) /\ \A q \in SamePort(p) : DriverCount[q] = 1) =>
      <>[](\E q \in SamePort(p) : main[q] = "serving" /\ Answered(q))

=============================================================================
