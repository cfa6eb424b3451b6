------------------------------ MODULE InFlight ------------------------------
(***************************************************************************)
(* The set of requests in flight (inflight.go): a map of keys behind a     *)
(* mutex.  A request inserts the ID of its volume before it works on it    *)
(* and deletes it afterwards; one that finds the ID there gives up.  Each  *)
(* action is one step of one goroutine between two points where another    *)
(* may run.                                                                *)
(***************************************************************************)
EXTENDS Naturals, FiniteSets

CONSTANTS
  Requests,  \* goroutines, one per request
  Keys       \* IDs of volumes

VARIABLES
  mux,       \* the requests that hold the mutex: at most one
  inFlight,  \* the keys of the map
  pc,        \* where each request is
  key,       \* the key it was called with
  ok         \* what Insert is about to return to it

vars == <<mux, inFlight, pc, key, ok>>

PC == {"idle", "insert", "check", "store", "inserted", "work", "delete", "remove", "deleted"}

Init ==
  /\ mux = {}
  /\ inFlight = {}
  /\ pc = [r \in Requests |-> "idle"]
  /\ key \in [Requests -> Keys]
  /\ ok = [r \in Requests |-> FALSE]

-----------------------------------------------------------------------------
Goto(r, from, to) == pc[r] = from /\ pc' = [pc EXCEPT ![r] = to]

Lock(r)   == mux = {} /\ mux' = {r}
Unlock(r) == mux' = mux \ {r}

(***************************************************************************)
(* Insert(key).                                                            *)
(***************************************************************************)
\* Mutant of InsertLock: the map is read without the mutex.
InsertLockNot(r) ==
  /\ Goto(r, "insert", "check")
  /\ UNCHANGED <<mux, inFlight, key, ok>>

InsertLock(r) ==
  /\ Goto(r, "insert", "check")
  /\ Lock(r)
  /\ UNCHANGED <<inFlight, key, ok>>

\* Mutant of InsertFound: it waits, with the mutex, for the key to disappear.
InsertFoundWaits(r) ==
  /\ key[r] \in inFlight
  /\ Goto(r, "check", "check")
  /\ UNCHANGED <<mux, inFlight, key, ok>>

InsertFound(r) ==
  /\ key[r] \in inFlight
  /\ Goto(r, "check", "inserted")
  /\ ok' = [ok EXCEPT ![r] = FALSE]
  /\ UNCHANGED <<mux, inFlight, key>>

InsertMissing(r) ==
  /\ key[r] \notin inFlight
  /\ Goto(r, "check", "store")
  /\ UNCHANGED <<mux, inFlight, key, ok>>

InsertStore(r) ==
  /\ Goto(r, "store", "inserted")
  /\ inFlight' = inFlight \cup {key[r]}
  /\ ok' = [ok EXCEPT ![r] = TRUE]
  /\ UNCHANGED <<mux, key>>

\* The deferred Unlock, and the return to the caller.
InsertReturn(r) ==
  /\ Goto(r, "inserted", IF ok[r] THEN "work" ELSE "idle")
  /\ Unlock(r)
  /\ UNCHANGED <<inFlight, key, ok>>

(***************************************************************************)
(* Delete(key).                                                            *)
(***************************************************************************)
DeleteLock(r) ==
  /\ Goto(r, "delete", "remove")
  /\ Lock(r)
  /\ UNCHANGED <<inFlight, key, ok>>

\* Mutant of DeleteRemove: the entry stays.
DeleteRemoveNothing(r) ==
  /\ Goto(r, "remove", "deleted")
  /\ UNCHANGED <<mux, inFlight, key, ok>>

DeleteRemove(r) ==
  /\ Goto(r, "remove", "deleted")
  /\ inFlight' = inFlight \ {key[r]}
  /\ UNCHANGED <<mux, key, ok>>

DeleteReturn(r) ==
  /\ Goto(r, "deleted", "idle")
  /\ Unlock(r)
  /\ UNCHANGED <<inFlight, key, ok>>

-----------------------------------------------------------------------------
(***************************************************************************)
(* The request (external: no handler of the driver uses the map): it works *)
(* only after Insert returned true, and then always calls Delete.          *)
(***************************************************************************)
Call(r) ==
  /\ Goto(r, "idle", "insert")
  /\ \E k \in Keys : key' = [key EXCEPT ![r] = k]
  /\ UNCHANGED <<mux, inFlight, ok>>

Finish(r) ==
  /\ Goto(r, "work", "delete")
  /\ UNCHANGED <<mux, inFlight, key, ok>>

Step(r) ==
  \/ InsertLock(r) \/ InsertFound(r) \/ InsertMissing(r) \/ InsertStore(r)
  \/ InsertReturn(r)
  \/ Finish(r) \/ DeleteLock(r) \/ DeleteRemove(r) \/ DeleteReturn(r)

Next == \E r \in Requests : Call(r) \/ Step(r)

Spec == Init /\ [][Next]_vars

\* A goroutine that can go on does, and Go's mutex starves nobody: a goroutine
\* for which it is free again and again gets it.
FairSpec == Spec /\ \A r \in Requests : SF_vars(Step(r))

-----------------------------------------------------------------------------
(***************************************************************************)
(* Properties.                                                             *)
(***************************************************************************)
\* Requests between the store of their key and its removal.
Owns(r) ==
  \/ pc[r] = "inserted" /\ ok[r]
  \/ pc[r] \in {"work", "delete", "remove"}

\* At most one request works on a volume at a time, however the calls of Insert
\* and Delete interleave.
Exclusive ==
  \A r, s \in Requests :
    pc[r] = "work" /\ pc[s] = "work" /\ key[r] = key[s] => r = s

\* Every key in the map is that of a request that will delete it: a failed
\* Insert leaves nothing behind that would block the volume for good.
NoStaleKey == \A k \in inFlight : \E r \in Requests : Owns(r) /\ key[r] = k

\* Insert and Delete return: no request waits for the mutex for ever.
RequestsEnd == \A r \in Requests : pc[r] # "idle" ~> pc[r] = "idle"

=============================================================================
