--------------------------- MODULE InFlightProofs ---------------------------
(***************************************************************************)
(* The set of requests in flight excludes, for any number of requests and  *)
(* of volumes, and keeps no key that nobody will delete.                   *)
(***************************************************************************)
EXTENDS InFlight, TLAPS

TypeInv ==
  /\ pc \in [Requests -> PC]
  /\ key \in [Requests -> Keys]
  /\ ok \in [Requests -> BOOLEAN]

\* Whoever is inside Insert or Delete is the one holder of the mutex.
Inside == {"check", "store", "inserted", "remove", "deleted"}
HoldsMutex == \A r \in Requests : pc[r] \in Inside => mux = {r}

\* The answer of the check is still true when the key is stored.
StillMissing == \A r \in Requests : pc[r] = "store" => key[r] \notin inFlight

OwnersInMap == \A r \in Requests : Owns(r) => key[r] \in inFlight

OneOwner ==
  \A r, s \in Requests : Owns(r) /\ Owns(s) /\ key[r] = key[s] => r = s

Locked == TypeInv /\ HoldsMutex /\ StillMissing /\ OwnersInMap /\ OneOwner /\ NoStaleKey

-----------------------------------------------------------------------------
\* The map starts empty and nobody is inside.
LEMMA LockedInit == Init => Locked
  BY DEF Init, Locked, TypeInv, PC, HoldsMutex, Inside, StillMissing, OwnersInMap,
         OneOwner, NoStaleKey, Owns

\* Every step keeps the types.
LEMMA TypeStep == TypeInv /\ [Next]_vars => TypeInv'
  BY ZenonT(60) DEF TypeInv, PC, Next, vars, Call, Step, Goto, InsertLock, InsertFound,
         InsertMissing, InsertStore, InsertReturn, Finish, DeleteLock, DeleteRemove,
         DeleteReturn

\* Every step of Insert and Delete, and of their callers, keeps the invariant.
LEMMA LockedStep == Locked /\ [Next]_vars => Locked'
<1> SUFFICES ASSUME Locked, [Next]_vars PROVE Locked'
  OBVIOUS
<1> USE DEF Locked
<1>0. TypeInv'
  BY TypeStep
<1>1. ASSUME NEW r \in Requests, Call(r)
      PROVE Locked'
  BY <1>0, <1>1 DEF Call, Goto, TypeInv, PC, HoldsMutex, Inside, StillMissing,
     OwnersInMap, OneOwner, NoStaleKey, Owns
<1>2. ASSUME NEW r \in Requests, InsertLock(r)
      PROVE Locked'
  BY <1>0, <1>2 DEF InsertLock, Goto, Lock, TypeInv, PC, HoldsMutex, Inside,
     StillMissing, OwnersInMap, OneOwner, NoStaleKey, Owns
<1>3. ASSUME NEW r \in Requests, InsertFound(r)
      PROVE Locked'
  BY <1>0, <1>3 DEF InsertFound, Goto, TypeInv, PC, HoldsMutex, Inside,
     StillMissing, OwnersInMap, OneOwner, NoStaleKey, Owns
<1>4. ASSUME NEW r \in Requests, InsertMissing(r)
      PROVE Locked'
  BY <1>0, <1>4 DEF InsertMissing, Goto, TypeInv, PC, HoldsMutex, Inside,
     StillMissing, OwnersInMap, OneOwner, NoStaleKey, Owns
<1>5. ASSUME NEW r \in Requests, InsertStore(r)
      PROVE Locked'
  <2>1. HoldsMutex' /\ StillMissing'
    BY <1>5 DEF InsertStore, Goto, TypeInv, PC, HoldsMutex, Inside, StillMissing
  <2>2. \A s \in Requests : Owns(s)' <=> (Owns(s) \/ s = r)
    BY <1>5 DEF InsertStore, Goto, TypeInv, PC, Owns
  <2>3. \A s \in Requests : Owns(s) => key[s] # key[r]
    BY <1>5 DEF InsertStore, Goto, StillMissing, OwnersInMap
  <2>4. OwnersInMap' /\ OneOwner' /\ NoStaleKey'
    BY <1>5, <2>2, <2>3 DEF InsertStore, OwnersInMap, OneOwner, NoStaleKey
  <2> QED
    BY <1>0, <2>1, <2>4
<1>6. ASSUME NEW r \in Requests, InsertReturn(r)
      PROVE Locked'
  BY <1>0, <1>6 DEF InsertReturn, Goto, Unlock, TypeInv, PC, HoldsMutex, Inside,
     StillMissing, OwnersInMap, OneOwner, NoStaleKey, Owns
<1>7. ASSUME NEW r \in Requests, Finish(r)
      PROVE Locked'
  BY <1>0, <1>7 DEF Finish, Goto, TypeInv, PC, HoldsMutex, Inside, StillMissing,
     OwnersInMap, OneOwner, NoStaleKey, Owns
<1>8. ASSUME NEW r \in Requests, DeleteLock(r)
      PROVE Locked'
  BY <1>0, <1>8 DEF DeleteLock, Goto, Lock, TypeInv, PC, HoldsMutex, Inside,
     StillMissing, OwnersInMap, OneOwner, NoStaleKey, Owns
<1>9. ASSUME NEW r \in Requests, DeleteRemove(r)
      PROVE Locked'
  <2>1. HoldsMutex' /\ StillMissing'
    BY <1>9 DEF DeleteRemove, Goto, TypeInv, PC, HoldsMutex, Inside, StillMissing
  <2>2. \A s \in Requests : Owns(s)' <=> (Owns(s) /\ s # r)
    BY <1>9 DEF DeleteRemove, Goto, TypeInv, PC, Owns
  <2>3. Owns(r)
    BY <1>9 DEF DeleteRemove, Goto, Owns
  <2>4. OwnersInMap' /\ OneOwner' /\ NoStaleKey'
    BY <1>9, <2>2, <2>3 DEF DeleteRemove, OwnersInMap, OneOwner, NoStaleKey
  <2> QED
    BY <1>0, <2>1, <2>4
<1>10. ASSUME NEW r \in Requests, DeleteReturn(r)
       PROVE Locked'
  BY <1>0, <1>10 DEF DeleteReturn, Goto, Unlock, TypeInv, PC, HoldsMutex, Inside,
     StillMissing, OwnersInMap, OneOwner, NoStaleKey, Owns
<1>11. CASE UNCHANGED vars
  BY <1>11 DEF vars, TypeInv, HoldsMutex, StillMissing, OwnersInMap, OneOwner,
     NoStaleKey, Owns
<1> QED
  BY <1>1, <1>2, <1>3, <1>4, <1>5, <1>6, <1>7, <1>8, <1>9, <1>10, <1>11
  DEF Next, Step

\* Two requests never work on one volume at a time (Insert and Delete of
\* inflight.go, with every interleaving of their steps).
THEOREM AtMostOneWorks == Spec => []Exclusive
<1>1. Locked => Exclusive
  BY DEF Locked, OneOwner, Owns, Exclusive
<1> QED
  BY LockedInit, LockedStep, <1>1, PTL DEF Spec

\* No key stays in the map without a request that will delete it.
THEOREM KeysAreOwned == Spec => []NoStaleKey
<1>1. Locked => NoStaleKey
  BY DEF Locked
<1> QED
  BY LockedInit, LockedStep, <1>1, PTL DEF Spec

=============================================================================
