--------------------------- MODULE SharedMapProofs ---------------------------
(***************************************************************************)
(* shared_map makes every access atomic, for any number of threads and any *)
(* functions passed to it.                                                 *)
(***************************************************************************)
EXTENDS SharedMap, TLAPS

PCs == {"idle", "lock", "read", "write", "unlock"}

\* LockHeld with the kinds of values it needs to be inductive.
MapInv ==
    /\ pc \in [Threads -> PCs]
    /\ DOMAIN seen = Threads
    /\ LockHeld

\* The mutex is None or the one thread inside; every step keeps it so.
LEMMA MapInvInit == MapInit => MapInv
  BY NoneAssumption DEF MapInit, MapInv, LockHeld, PCs

LEMMA MapInvNext == MapInv /\ [MapNext]_mapVars => MapInv'
<1> SUFFICES ASSUME MapInv, [MapNext]_mapVars PROVE MapInv'
  OBVIOUS
<1> USE NoneAssumption DEF MapInv, LockHeld, PCs
<1>1. CASE UNCHANGED mapVars
  BY <1>1 DEF mapVars
<1>2. ASSUME NEW t \in Threads, Call(t, access'[t]) PROVE MapInv'
  BY <1>2 DEF Call
<1>3. ASSUME NEW t \in Threads, Lock(t) PROVE MapInv'
  BY <1>3 DEF Lock
<1>4. ASSUME NEW t \in Threads, Read(t) PROVE MapInv'
  <2>1. pc' = [pc EXCEPT ![t] = "write"] /\ seen' = [seen EXCEPT ![t] = mp]
        /\ pc[t] = "read" /\ mp' = mp /\ mtx' = mtx
    BY <1>4 DEF Read
  <2>2. pc' \in [Threads -> PCs] /\ DOMAIN seen' = Threads
    BY <2>1
  <2>3. \A u \in Threads : pc'[u] \in {"read", "write", "unlock"} <=> mtx' = u
    BY <2>1
  <2>4. \A u \in Threads : pc'[u] = "write" => seen'[u] = mp'
    BY <2>1
  <2> QED BY <2>2, <2>3, <2>4
<1>5. ASSUME NEW t \in Threads, Write(t) PROVE MapInv'
  <2>1. pc' = [pc EXCEPT ![t] = "unlock"] /\ seen' = [seen EXCEPT ![t] = None]
        /\ pc[t] = "write" /\ mtx' = mtx
    BY <1>5 DEF Write
  <2>2. pc' \in [Threads -> PCs] /\ DOMAIN seen' = Threads
    BY <2>1
  <2>3. \A u \in Threads : pc'[u] \in {"read", "write", "unlock"} <=> mtx' = u
    BY <2>1
  <2>4. \A u \in Threads : pc'[u] # "write"   \* t held the mutex alone
    BY <2>1
  <2> QED BY <2>2, <2>3, <2>4
<1>6. ASSUME NEW t \in Threads, Return(t) PROVE MapInv'
  BY <1>6 DEF Return
<1> QED BY <1>1, <1>2, <1>3, <1>4, <1>5, <1>6 DEF MapNext

\* Mutual exclusion, and no access works on a map that has changed under it.
THEOREM LockAlwaysHeld == MapSpec => []LockHeld
<1>1. MapInv => LockHeld
  BY DEF MapInv
<1> QED BY <1>1, MapInvInit, MapInvNext, PTL DEF MapSpec

-----------------------------------------------------------------------------
\* A step moves the phase of one thread at most.
LEMMA PhaseMoves ==
    ASSUME pc \in [Threads -> PCs], NEW t \in Threads, NEW p \in PCs,
           pc' = [pc EXCEPT ![t] = p]
    PROVE  Phase' = [Phase EXCEPT ![t] = CASE p = "idle" -> "idle"
                                           [] p = "unlock" -> "done"
                                           [] OTHER -> "called"]
<1>1. \A u \in Threads : pc'[u] = IF u = t THEN p ELSE pc[u]
  OBVIOUS
<1> QED BY <1>1 DEF Phase

LEMMA AtomicStep == MapInv /\ [MapNext]_mapVars => [Atomic!Next]_Atomic!vars
<1> SUFFICES ASSUME MapInv, [MapNext]_mapVars PROVE [Atomic!Next]_Atomic!vars
  OBVIOUS
<1> USE DEF Atomic!vars
<1>1. CASE UNCHANGED mapVars
  BY <1>1 DEF mapVars, Phase
<1>2. ASSUME NEW t \in Threads, Call(t, access'[t]) PROVE Atomic!Next
  <2>1. Phase[t] = "idle" /\ Phase' = [Phase EXCEPT ![t] = "called"]
    BY <1>2, PhaseMoves DEF Call, MapInv, PCs, Phase
  <2> QED BY <1>2, <2>1 DEF Call, Atomic!Call, Atomic!Next
<1>3. ASSUME NEW t \in Threads, Lock(t) PROVE UNCHANGED Atomic!vars
  BY <1>3, PhaseMoves DEF Lock, MapInv, PCs, Phase
<1>4. ASSUME NEW t \in Threads, Read(t) PROVE UNCHANGED Atomic!vars
  BY <1>4, PhaseMoves DEF Read, MapInv, PCs, Phase
<1>5. ASSUME NEW t \in Threads, Write(t) PROVE Atomic!Next
  <2>1. Phase[t] = "called" /\ Phase' = [Phase EXCEPT ![t] = "done"]
    BY <1>5, PhaseMoves DEF Write, MapInv, PCs, Phase
  <2>2. seen[t] = mp
    BY <1>5 DEF Write, MapInv, LockHeld
  <2> QED BY <1>5, <2>1, <2>2 DEF Write, Atomic!Take, Atomic!Next
<1>6. ASSUME NEW t \in Threads, Return(t) PROVE Atomic!Next
  <2>1. Phase[t] = "done" /\ Phase' = [Phase EXCEPT ![t] = "idle"]
    BY <1>6, PhaseMoves DEF Return, MapInv, PCs, Phase
  <2> QED BY <1>6, <2>1 DEF Return, Atomic!Return, Atomic!Next
<1> QED BY <1>1, <1>2, <1>3, <1>4, <1>5, <1>6 DEF MapNext

\* shared_map implements the atomic map: f runs in one piece between the lock
\* and the unlock, so the instant it changes the map is that of the access.
THEOREM SharedMapIsAtomic == MapSpec => AccessesAtomic
<1>1. MapInit => Atomic!Init
  BY DEF MapInit, Atomic!Init, Phase
<1> QED BY <1>1, AtomicStep, MapInvInit, MapInvNext, PTL DEF MapSpec, AccessesAtomic, Atomic!Spec
=============================================================================
