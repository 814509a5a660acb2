------------------------------ MODULE SharedMap ------------------------------
(***************************************************************************)
(* shared_map (shared_map.hpp): a map with its mutex.  operator() runs a   *)
(* function on the map while a lock_guard holds the mutex.  The function   *)
(* is not one instruction: it reads the map, and later changes it.         *)
(***************************************************************************)
CONSTANTS
    Threads,
    None,
    Run(_, _)    \* Run(m, f): what f(mp) returns and leaves; f may throw

ASSUME NoneAssumption == None \notin Threads

VARIABLES
    mp,        \* the map
    mtx,       \* the thread that holds the mutex, or None
    pc,        \* where each thread is in operator()
    access,    \* the f it was called with, or None
    seen,      \* the map as f has read it, or None
    out        \* what f returned or threw, or None

mapVars == <<mp, mtx, pc, access, seen, out>>

MapInit ==
    /\ mp = <<>>
    /\ mtx = None
    /\ pc = [t \in Threads |-> "idle"]
    /\ access = [t \in Threads |-> None]
    /\ seen = [t \in Threads |-> None]
    /\ out = [t \in Threads |-> None]

-----------------------------------------------------------------------------
Call(t, f) ==
    /\ pc[t] = "idle"
    /\ pc' = [pc EXCEPT ![t] = "lock"]
    /\ access' = [access EXCEPT ![t] = f]
    /\ UNCHANGED <<mp, mtx, seen, out>>

\* Mutant: the lock_guard is destroyed before f is called.
Lock_Released(t) ==
    /\ pc[t] = "lock"
    /\ mtx = None
    /\ pc' = [pc EXCEPT ![t] = "read"]
    /\ UNCHANGED <<mp, mtx, access, seen, out>>

\* The lock_guard, alive until the end of the full expression.
Lock(t) ==
    /\ pc[t] = "lock"
    /\ mtx = None
    /\ mtx' = t
    /\ pc' = [pc EXCEPT ![t] = "read"]
    /\ UNCHANGED <<mp, access, seen, out>>

Read(t) ==
    /\ pc[t] = "read"
    /\ pc' = [pc EXCEPT ![t] = "write"]
    /\ seen' = [seen EXCEPT ![t] = mp]
    /\ UNCHANGED <<mp, mtx, access, out>>

\* Mutant: an f that throws is tried again, with the mutex held.
Write_Retries(t) ==
    /\ pc[t] = "write"
    /\ LET r == Run(seen[t], access[t])
       IN  IF r.throws
           THEN /\ pc' = [pc EXCEPT ![t] = "read"]
                /\ UNCHANGED <<mp, out>>
           ELSE /\ pc' = [pc EXCEPT ![t] = "unlock"]
                /\ out' = [out EXCEPT ![t] = r]
                /\ mp' = r.map
    /\ seen' = [seen EXCEPT ![t] = None]
    /\ UNCHANGED <<mtx, access>>

Write(t) ==
    /\ pc[t] = "write"
    /\ pc' = [pc EXCEPT ![t] = "unlock"]
    /\ out' = [out EXCEPT ![t] = Run(seen[t], access[t])]
    /\ mp' = Run(seen[t], access[t]).map
    /\ seen' = [seen EXCEPT ![t] = None]
    /\ UNCHANGED <<mtx, access>>

\* The guard unlocks, and the result or the exception reaches the caller.
Return(t) ==
    /\ pc[t] = "unlock"
    /\ mtx' = None
    /\ pc' = [pc EXCEPT ![t] = "idle"]
    /\ access' = [access EXCEPT ![t] = None]
    /\ out' = [out EXCEPT ![t] = None]
    /\ UNCHANGED <<mp, seen>>

MapNext == \E t \in Threads :
    Call(t, access'[t]) \/ Lock(t) \/ Read(t) \/ Write(t) \/ Return(t)

MapSpec == MapInit /\ [][MapNext]_mapVars

-----------------------------------------------------------------------------
\* Properties

\* A thread between Lock and Return holds the mutex, so there is one at most,
\* and what it has read of the map is still so when it changes it.
LockHeld ==
    /\ \A t \in Threads : pc[t] \in {"read", "write", "unlock"} <=> mtx = t
    /\ \A t \in Threads : pc[t] = "write" => seen[t] = mp

\* The access of a thread has taken place once f has run.
Phase == [t \in Threads |-> CASE pc[t] = "idle" -> "idle"
                              [] pc[t] = "unlock" -> "done"
                              [] OTHER -> "called"]

Atomic == INSTANCE AtomicMap WITH phase <- Phase

\* Every access is atomic: no thread sees or undoes half of another's.
AccessesAtomic == Atomic!Spec
=============================================================================
