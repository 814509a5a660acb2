------------------------------ MODULE AtomicMap ------------------------------
(***************************************************************************)
(* What shared_map promises its users: an access to the map that a thread  *)
(* calls takes place at one instant between its call and its return, also  *)
(* when it throws.                                                         *)
(***************************************************************************)
CONSTANTS
    Threads,
    None,
    Run(_, _)    \* Run(m, a): the outcome of access a to map m, and the map it leaves

VARIABLES
    mp,        \* the map
    phase,     \* where each thread is: "idle", "called" or "done"
    access,    \* the access it has called, or None
    out        \* the outcome, once the access has taken place

vars == <<mp, phase, access, out>>

Init == /\ mp = <<>>
        /\ phase = [t \in Threads |-> "idle"]
        /\ access = [t \in Threads |-> None]
        /\ out = [t \in Threads |-> None]

Call(t, a) ==
    /\ phase[t] = "idle"
    /\ phase' = [phase EXCEPT ![t] = "called"]
    /\ access' = [access EXCEPT ![t] = a]
    /\ UNCHANGED <<mp, out>>

Take(t) ==
    /\ phase[t] = "called"
    /\ phase' = [phase EXCEPT ![t] = "done"]
    /\ out' = [out EXCEPT ![t] = Run(mp, access[t])]
    /\ mp' = Run(mp, access[t]).map
    /\ UNCHANGED access

Return(t) ==
    /\ phase[t] = "done"
    /\ phase' = [phase EXCEPT ![t] = "idle"]
    /\ access' = [access EXCEPT ![t] = None]
    /\ out' = [out EXCEPT ![t] = None]
    /\ UNCHANGED mp

Next == \E t \in Threads : Call(t, access'[t]) \/ Take(t) \/ Return(t)

Spec == Init /\ [][Next]_vars
=============================================================================
