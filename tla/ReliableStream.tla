--------------------------- MODULE ReliableStream ---------------------------
(***************************************************************************)
(* What both directions of the co-simulation promise for one VVC: what     *)
(* goes in at one end comes out at the other in the same order, nothing    *)
(* lost, duplicated or made up.  Items are bytes or, for a packet-based    *)
(* VVC, whole packets.                                                     *)
(***************************************************************************)
EXTENDS Integers, Sequences

CONSTANT Streams

VARIABLES
    input,    \* all items that have entered each stream
    output    \* all items that have left it

vars == <<input, output>>

Extends(longer, shorter) ==
    /\ Len(longer) > Len(shorter)
    /\ SubSeq(longer, 1, Len(shorter)) = shorter

Init == /\ input = [s \in Streams |-> <<>>]
        /\ output = [s \in Streams |-> <<>>]

\* Some items enter stream s.
Enter(s) ==
    /\ Extends(input'[s], input[s])
    /\ input' = [input EXCEPT ![s] = input'[s]]
    /\ UNCHANGED output

\* The next n items of stream s leave it.
Leave(s, n) ==
    /\ output' = [output EXCEPT ![s] = SubSeq(input[s], 1, Len(@) + n)]
    /\ UNCHANGED input

LeaveSome(s) == \E n \in 1..(Len(input[s]) - Len(output[s])) : Leave(s, n)

Next == \E s \in Streams : Enter(s) \/ LeaveSome(s)

Spec == Init /\ [][Next]_vars
FairSpec == Spec /\ \A s \in Streams : WF_vars(LeaveSome(s))
=============================================================================
