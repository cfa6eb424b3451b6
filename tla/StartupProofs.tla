---------------------------- MODULE StartupProofs ----------------------------
(***************************************************************************)
(* Theorems about Startup, for any number of processes and driver names.   *)
(***************************************************************************)
EXTENDS Startup, TLAPS

\* Drivers of the process are started, in order: the ones to come have not run.
InOrder ==
  \A p \in Processes, n \in Names :
    driver[p][n] # "none" => n \in Drivers(p) /\ n <= started[p]

\* A listener that a file leads to runs.
ListenersRun ==
  \A e \in Endpoints, p \in Processes, n \in Names :
    socket[e] = <<p, n>> => driver[p][n] = "serving"

\* When a driver serves, the file of the process leads to one of its drivers,
\* or one has removed it and is about to make it anew.
Replaced ==
  \A p \in Processes :
    (\E n \in Names : driver[p][n] = "serving") =>
      Answered(p) \/ \E n \in Names : driver[p][n] = "listen"

Expected(p) == IF NodeIdFlag[p] # Empty THEN NodeIdFlag[p] ELSE Instance

\* The ID of a process is settled when it does not depend on a failed answer.
Settled(p) == NodeIdFlag[p] # Empty \/ faults = 0

Identified ==
  \A p \in Processes : Settled(p) =>
    /\ registered[p] \subseteq {Expected(p)}
    /\ \A n \in Names : driver[p][n] \in {"remove", "listen", "serving"} =>
         nodeID[p][n] = Expected(p)

IInv == TypeOK /\ InOrder /\ ListenersRun /\ Replaced /\ Identified

-----------------------------------------------------------------------------
LEMMA FilesDiffer ==
  ASSUME NEW p, NEW n, NEW q, NEW m
  PROVE  /\ NoFile # <<p, n>> /\ Stale # <<p, n>>
         /\ <<p, n>> = <<q, m>> => p = q /\ n = m
BY DEF NoFile, Stale

LEMMA DriversAreNames == \A p \in Processes : Drivers(p) \subseteq Names
BY DEF Names

LEMMA InitHolds == Init => IInv
<1> SUFFICES ASSUME Init PROVE IInv
  OBVIOUS
<1>1. TypeOK
  BY StartupAssumption DEF Init, TypeOK, NodeIds
<1>2. InOrder
  BY DEF Init, InOrder
<1>3. ListenersRun
  BY FilesDiffer DEF Init, ListenersRun
<1>4. Replaced /\ Identified
  BY DEF Init, Replaced, Identified
<1> QED
  BY <1>1, <1>2, <1>3, <1>4 DEF IInv

\* The end of a process, for whatever reason.
LEMMA ExitKeeps ==
  ASSUME IInv, NEW p \in Processes, Exit(p), faults' \in {faults, faults + 1}
  PROVE  IInv'
<1>1. TypeOK'
  BY StartupAssumption DEF IInv, TypeOK, Exit, NodeIds
<1>2. InOrder'
  BY DEF IInv, TypeOK, Exit, InOrder
<1>3. ListenersRun'
  <2> SUFFICES ASSUME NEW e \in Endpoints, NEW q \in Processes, NEW n \in Names,
                      socket'[e] = <<q, n>>
               PROVE  driver'[q][n] = "serving"
    BY DEF ListenersRun
  <2>1. socket[e] = <<q, n>> /\ q # p
    BY FilesDiffer DEF Exit
  <2>2. driver[q][n] = "serving"
    BY <2>1 DEF IInv, ListenersRun
  <2> QED
    BY <2>1, <2>2 DEF IInv, TypeOK, Exit
<1>4. Replaced'
  <2> SUFFICES ASSUME NEW q \in Processes, NEW n \in Names, driver'[q][n] = "serving"
               PROVE  Answered(q)' \/ \E m \in Names : driver'[q][m] = "listen"
    BY DEF Replaced
  <2>1. q # p /\ driver'[q] = driver[q]
    BY DEF IInv, TypeOK, Exit
  <2>2. CASE \E m \in Names : driver[q][m] = "listen"
    BY <2>1, <2>2
  <2>3. CASE Answered(q)
    <3>1. PICK m \in Names : socket[Endpoint[q]] = <<q, m>>
      BY <2>3 DEF Answered
    <3>2. ~ \E k \in Names : socket[Endpoint[q]] = <<p, k>>
      BY <2>1, <3>1, FilesDiffer
    <3>3. socket'[Endpoint[q]] = <<q, m>>
      BY <3>1, <3>2 DEF Exit, Endpoints
    <3> QED
      BY <3>3 DEF Answered
  <2> QED
    BY <2>1, <2>2, <2>3 DEF IInv, Replaced
<1>5. Identified'
  <2> SUFFICES ASSUME NEW q \in Processes, Settled(q)'
               PROVE  /\ registered'[q] \subseteq {Expected(q)}
                      /\ \A n \in Names : driver'[q][n] \in {"remove", "listen", "serving"} =>
                           nodeID'[q][n] = Expected(q)
    BY DEF Identified, Expected
  <2>1. Settled(q)
    BY DEF IInv, TypeOK, Settled
  <2> QED
    BY <2>1 DEF IInv, TypeOK, Exit, Identified
<1> QED
  BY <1>1, <1>2, <1>3, <1>4, <1>5 DEF IInv

-----------------------------------------------------------------------------
\* The main goroutine goes on, by itself.
LEMMA MainKeeps ==
  ASSUME IInv, NEW p \in Processes,
         NEW pc \in {"type", "loop", "serving"}, main' = [main EXCEPT ![p] = pc],
         UNCHANGED <<started, driver, nodeID, socket, registered, faults>>
  PROVE  IInv'
<1>1. TypeOK'
  BY DEF IInv, TypeOK
<1>2. InOrder' /\ ListenersRun' /\ Replaced' /\ Identified'
  BY DEF IInv, InOrder, ListenersRun, Replaced, Answered, Identified, Settled
<1> QED
  BY <1>1, <1>2 DEF IInv

LEMMA FatalKeeps ==
  ASSUME IInv, NEW p \in Processes, Fatal(p)
  PROVE  IInv'
BY ExitKeeps DEF Fatal, Fault

LEMMA CheckTypeKeeps ==
  ASSUME IInv, NEW p \in Processes, CheckType(p)
  PROVE  IInv'
<1>1. CASE Fatal(p)
  BY <1>1, FatalKeeps
<1>2. CASE Exit(p) /\ UNCHANGED faults
  BY <1>2, ExitKeeps
<1>3. CASE /\ main' = [main EXCEPT ![p] = "loop"]
           /\ UNCHANGED <<started, driver, nodeID, socket, registered, faults>>
  BY <1>3, MainKeeps
<1> QED
  BY <1>1, <1>2, <1>3 DEF CheckType, SetLogAttribute

LEMMA StartDriverKeeps ==
  ASSUME IInv, NEW p \in Processes, StartDriver(p)
  PROVE  IInv'
<1>1. CASE Fatal(p)
  BY <1>1, FatalKeeps
<1>2. CASE StartNext(p)
  <2> DEFINE n == started[p] + 1
  <2>1. /\ started' = [started EXCEPT ![p] = n]
        /\ driver' = [driver EXCEPT ![p][n] = "id"]
        /\ UNCHANGED <<main, nodeID, socket, registered, faults>>
    BY <1>2 DEF StartNext
  <2>2. n \in Drivers(p) /\ n \in Nat /\ n <= DriverCount[p]
    BY StartupAssumption DEF StartDriver, IInv, TypeOK, Drivers
  <2>3. n \in Names
    BY <2>2, DriversAreNames
  <2>4. driver[p][n] = "none"
    BY <2>3 DEF IInv, InOrder, TypeOK
  <2>5. \A q \in Processes, m \in Names : m <= started[q] => m <= started'[q]
    BY <2>1, StartupAssumption DEF IInv, TypeOK, Names, Drivers
  <2>6. n <= started'[p]
    BY <2>1, <2>2 DEF IInv, TypeOK
  <2>7. TypeOK'
    BY <2>1, <2>2, <2>3 DEF IInv, TypeOK
  <2> HIDE DEF n
  <2>8. InOrder'
    BY <2>1, <2>2, <2>3, <2>5, <2>6 DEF IInv, TypeOK, InOrder
  <2>9. ListenersRun'
    BY <2>1, <2>3, <2>4 DEF IInv, TypeOK, ListenersRun
  <2>10. Replaced'
    <3>1. \A q \in Processes, m \in Names : driver'[q][m] = "serving" => driver[q][m] = "serving"
      BY <2>1, <2>3 DEF IInv, TypeOK
    <3>2. \A q \in Processes, m \in Names : driver[q][m] = "listen" => driver'[q][m] = "listen"
      BY <2>1, <2>3, <2>4 DEF IInv, TypeOK
    <3>3. \A q \in Processes : Answered(q)' = Answered(q)
      BY <2>1 DEF Answered
    <3> QED
      BY <3>1, <3>2, <3>3 DEF IInv, Replaced
  <2>11. Identified'
    BY <2>1, <2>3 DEF IInv, TypeOK, Identified, Settled
  <2> QED
    BY <2>7, <2>8, <2>9, <2>10, <2>11 DEF IInv
<1> QED
  BY <1>1, <1>2 DEF StartDriver

LEMMA ServeHealthKeeps ==
  ASSUME IInv, NEW p \in Processes, ServeHealth(p)
  PROVE  IInv'
<1>1. CASE Fatal(p)
  BY <1>1, FatalKeeps
<1>2. CASE Exit(p) /\ UNCHANGED faults
  BY <1>2, ExitKeeps
<1>3. CASE /\ main' = [main EXCEPT ![p] = "serving"]
           /\ UNCHANGED <<started, driver, nodeID, socket, registered, faults>>
  BY <1>3, MainKeeps
<1> QED
  BY <1>1, <1>2, <1>3 DEF ServeHealth

-----------------------------------------------------------------------------
LEMMA NewDriverKeeps ==
  ASSUME IInv, NEW p \in Processes, NEW n \in Names, NewDriver(p, n)
  PROVE  IInv'
<1>1. CASE Fatal(p)
  BY <1>1, FatalKeeps
<1>2. ASSUME NEW id \in NodeIds,
             \/ NodeIdFlag[p] # Empty /\ id = NodeIdFlag[p] /\ UNCHANGED faults
             \/ NodeIdFlag[p] = Empty /\ GetMetaData(id),
             WithId(p, n, id)
      PROVE  IInv'
  <2>1. faults' \in {faults, faults + 1}
    BY <1>2 DEF GetMetaData, Fault
  <2>2. CASE Exit(p)
    BY <2>1, <2>2, ExitKeeps
  <2>3. CASE ~Exit(p)
    <3>1. /\ nodeID' = [nodeID EXCEPT ![p][n] = id]
          /\ driver' = [driver EXCEPT ![p][n] = "remove"]
          /\ UNCHANGED <<main, started, registered, socket>>
          /\ driver[p][n] = "id"
      BY <1>2, <2>3 DEF WithId, DriverGoes, NewDriver
    <3>2. TypeOK'
      BY <2>1, <3>1 DEF IInv, TypeOK
    <3>3. InOrder'
      BY <3>1 DEF IInv, TypeOK, InOrder
    <3>4. ListenersRun'
      BY <3>1 DEF IInv, TypeOK, ListenersRun
    <3>5. Replaced'
      BY <3>1 DEF IInv, TypeOK, Replaced, Answered
    <3>6. \A q \in Processes : Settled(q)' => Settled(q)
      BY <2>1 DEF IInv, TypeOK, Settled
    <3>7. Settled(p)' => id = Expected(p)
      BY <1>2 DEF IInv, TypeOK, Settled, GetMetaData, Fault, Expected
    <3>8. Identified'
      BY <3>1, <3>6, <3>7 DEF IInv, TypeOK, Identified, Expected
    <3> QED
      BY <3>2, <3>3, <3>4, <3>5, <3>8 DEF IInv
  <2> QED
    BY <2>2, <2>3
<1> QED
  BY <1>1, <1>2 DEF NewDriver

\* Another process has another endpoint.
LEMMA OwnEndpoint ==
  ASSUME NEW p \in Processes, NEW q \in Processes, q # p
  PROVE  Endpoint[q] # Endpoint[p]
BY StartupAssumption

LEMMA RemoveSocketKeeps ==
  ASSUME IInv, NEW p \in Processes, NEW n \in Names, RemoveSocket(p, n)
  PROVE  IInv'
<1>1. CASE Fatal(p)
  BY <1>1, FatalKeeps
<1>2. CASE ~Fatal(p)
  <2>1. /\ socket' = [socket EXCEPT ![Endpoint[p]] = NoFile]
        /\ driver' = [driver EXCEPT ![p][n] = "listen"]
        /\ UNCHANGED <<main, started, registered, nodeID, faults>>
        /\ driver[p][n] = "remove"
    BY <1>2 DEF RemoveSocket, DriverGoes
  <2>2. TypeOK'
    BY <2>1 DEF IInv, TypeOK
  <2>3. InOrder'
    BY <2>1 DEF IInv, TypeOK, InOrder
  <2>4. ListenersRun'
    <3>1. \A e \in Endpoints : socket'[e] \in {NoFile, socket[e]}
      BY <2>1 DEF IInv, TypeOK
    <3>2. \A q \in Processes, m \in Names : driver[q][m] = "serving" => driver'[q][m] = "serving"
      BY <2>1 DEF IInv, TypeOK
    <3> SUFFICES ASSUME NEW e \in Endpoints, NEW q \in Processes, NEW m \in Names,
                        socket'[e] = <<q, m>>
                 PROVE  driver'[q][m] = "serving"
      BY DEF ListenersRun
    <3>3. socket[e] = <<q, m>>
      BY <3>1, FilesDiffer
    <3> QED
      BY <3>2, <3>3 DEF IInv, ListenersRun
  <2>5. Replaced'
    <3> SUFFICES ASSUME NEW q \in Processes, NEW m \in Names, driver'[q][m] = "serving"
                 PROVE  Answered(q)' \/ \E k \in Names : driver'[q][k] = "listen"
      BY DEF Replaced
    <3>1. CASE q = p
      BY <2>1, <3>1 DEF IInv, TypeOK
    <3>2. CASE q # p
      BY <2>1, <3>2, OwnEndpoint DEF IInv, TypeOK, Replaced, Answered, Endpoints
    <3> QED
      BY <3>1, <3>2
  <2>6. Identified'
    BY <2>1 DEF IInv, TypeOK, Identified, Settled
  <2> QED
    BY <2>2, <2>3, <2>4, <2>5, <2>6 DEF IInv
<1> QED
  BY <1>1, <1>2

LEMMA ListenKeeps ==
  ASSUME IInv, NEW p \in Processes, NEW n \in Names, Listen(p, n)
  PROVE  IInv'
<1>1. CASE Fatal(p)
  BY <1>1, FatalKeeps
<1>2. CASE Exit(p) /\ UNCHANGED faults
  BY <1>2, ExitKeeps
<1>3. CASE /\ socket' = [socket EXCEPT ![Endpoint[p]] = <<p, n>>]
           /\ DriverGoes(p, n, "serving") /\ UNCHANGED <<nodeID, faults>>
  <2>1. /\ driver' = [driver EXCEPT ![p][n] = "serving"]
        /\ UNCHANGED <<main, started, registered, nodeID, faults>>
        /\ driver[p][n] = "listen"
    BY <1>3 DEF DriverGoes, Listen
  <2>2. TypeOK'
    BY <1>3, <2>1 DEF IInv, TypeOK
  <2>3. InOrder'
    BY <2>1 DEF IInv, TypeOK, InOrder
  <2>4. ListenersRun'
    <3> SUFFICES ASSUME NEW e \in Endpoints, NEW q \in Processes, NEW m \in Names,
                        socket'[e] = <<q, m>>
                 PROVE  driver'[q][m] = "serving"
      BY DEF ListenersRun
    <3>1. <<q, m>> = <<p, n>> \/ socket[e] = <<q, m>>
      BY <1>3 DEF IInv, TypeOK
    <3>2. CASE <<q, m>> = <<p, n>>
      BY <2>1, <3>2, FilesDiffer DEF IInv, TypeOK
    <3>3. CASE socket[e] = <<q, m>>
      BY <2>1, <3>3 DEF IInv, TypeOK, ListenersRun
    <3> QED
      BY <3>1, <3>2, <3>3
  <2>5. Replaced'
    <3> SUFFICES ASSUME NEW q \in Processes, NEW m \in Names, driver'[q][m] = "serving"
                 PROVE  Answered(q)' \/ \E k \in Names : driver'[q][k] = "listen"
      BY DEF Replaced
    <3>1. CASE q = p
      BY <1>3, <3>1 DEF IInv, TypeOK, Answered, Endpoints
    <3>2. CASE q # p
      BY <1>3, <2>1, <3>2, OwnEndpoint DEF IInv, TypeOK, Replaced, Answered, Endpoints
    <3> QED
      BY <3>1, <3>2
  <2>6. Identified'
    BY <2>1 DEF IInv, TypeOK, Identified, Settled
  <2> QED
    BY <2>2, <2>3, <2>4, <2>5, <2>6 DEF IInv
<1> QED
  BY <1>1, <1>2, <1>3 DEF Listen

LEMMA RegisterKeeps ==
  ASSUME IInv, NEW p \in Processes, Register(p)
  PROVE  IInv'
<1>1. PICK n \in Names :
        /\ socket[Endpoint[p]] = <<p, n>>
        /\ registered' = [registered EXCEPT ![p] = {nodeID[p][n]}]
  BY DEF Register
<1>2. UNCHANGED <<main, started, driver, nodeID, socket, faults>>
  BY DEF Register
<1>3. TypeOK'
  BY <1>1, <1>2 DEF IInv, TypeOK
<1>4. InOrder' /\ ListenersRun' /\ Replaced'
  BY <1>2 DEF IInv, InOrder, ListenersRun, Replaced, Answered
<1>5. driver[p][n] = "serving"
  BY <1>1 DEF IInv, ListenersRun, Endpoints
<1>6. Identified'
  BY <1>1, <1>2, <1>5 DEF IInv, TypeOK, Identified, Settled
<1> QED
  BY <1>3, <1>4, <1>6 DEF IInv

-----------------------------------------------------------------------------
LEMMA NextKeeps == IInv /\ [Next]_vars => IInv'
<1> SUFFICES ASSUME IInv, [Next]_vars PROVE IInv'
  OBVIOUS
<1>1. ASSUME NEW p \in Processes, ProcessStep(p)
      PROVE  IInv'
  BY <1>1, CheckTypeKeeps, StartDriverKeeps, ServeHealthKeeps, NewDriverKeeps,
     RemoveSocketKeeps, ListenKeeps DEF ProcessStep
<1>2. ASSUME NEW p \in Processes, StartProcess(p)
      PROVE  IInv'
  BY <1>2, MainKeeps DEF StartProcess
<1>3. ASSUME NEW p \in Processes, Kill(p)
      PROVE  IInv'
  BY <1>3, FatalKeeps DEF Kill
<1>4. ASSUME NEW p \in Processes, Register(p)
      PROVE  IInv'
  BY <1>4, RegisterKeeps
<1>5. CASE UNCHANGED vars
  BY <1>5 DEF vars, IInv, TypeOK, InOrder, ListenersRun, Replaced, Answered,
     Identified, Settled
<1> QED
  BY <1>1, <1>2, <1>3, <1>4, <1>5 DEF Next

LEMMA Inductive == Spec => []IInv
BY InitHolds, NextKeeps, PTL DEF Spec

\* Every variable keeps its type; main starts at most as many drivers as the
\* flag -driver has names.
THEOREM TypeCorrect == Spec => []TypeOK
<1>1. IInv => TypeOK
  BY DEF IInv
<1> QED
  BY <1>1, Inductive, PTL

\* Once Run has listened for every driver of a process, one of them is behind
\* the socket file, in whatever order serve removed and made it for the others,
\* and whatever file an earlier process left.
THEOREM Reachable == Spec => []ServingIsReachable
<1>1. IInv => ServingIsReachable
  <2> SUFFICES ASSUME IInv, NEW p \in Processes, main[p] = "serving",
                      \A n \in Drivers(p) : driver[p][n] = "serving"
               PROVE  Answered(p)
    BY DEF ServingIsReachable
  <2>1. 1 \in Drivers(p) /\ 1 \in Names
    BY StartupAssumption, DriversAreNames DEF Drivers
  <2>2. Answered(p) \/ \E n \in Names : driver[p][n] = "listen"
    BY <2>1 DEF IInv, Replaced
  <2> QED
    BY <2>2 DEF IInv, InOrder
<1> QED
  BY <1>1, Inductive, PTL

\* A driver that serves has the node ID kubelet has registered, after any number
\* of restarts, when NewDriver takes it from -nodeid or the metadata service has
\* not failed.
THEOREM Stable == Spec => []NodeIdStable
<1>1. IInv => NodeIdStable
  BY DEF IInv, Identified, Settled, NodeIdStable
<1> QED
  BY <1>1, Inductive, PTL

=============================================================================
