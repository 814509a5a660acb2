--------------------------- MODULE ReceiveService ---------------------------
(***************************************************************************)
(* The receive procedures as a client may think of them: at one instant    *)
(* between its beginning and its end a request either takes what it asked  *)
(* for or finds that it is not there.  ReceiveBytes takes num_bytes bytes, *)
(* or what there is unless exact_length was given; ReceivePacket takes one *)
(* packet.                                                                 *)
(***************************************************************************)
EXTENDS CosimQueues

CONSTANTS
    Vvcs, PacketVvcs, Worker,
    Request,    \* requests: a VVC, num_bytes as a size_t, exact_length
    NoRequest

VARIABLES
    queue,    \* what of every VVC can be taken: bytes or packets
    given,    \* history: what was taken, in order
    asked     \* the request every worker is busy with

vars == <<queue, given, asked>>

Init == /\ queue = [v \in Vvcs |-> <<>>]
        /\ given = [v \in Vvcs |-> <<>>]
        /\ asked = [w \in Worker |-> NoRequest]

\* The simulator adds one byte or one packet.
Arrive(v) ==
    /\ Len(queue'[v]) = Len(queue[v]) + 1
    /\ SubSeq(queue'[v], 1, Len(queue[v])) = queue[v]
    /\ queue' = [queue EXCEPT ![v] = queue'[v]]
    /\ UNCHANGED <<given, asked>>

Begin(w, r) ==
    /\ asked[w] = NoRequest
    /\ asked' = [asked EXCEPT ![w] = r]
    /\ UNCHANGED <<queue, given>>

\* How much request r takes from queue q
Wanted(r, q) ==
    IF r.vvc \in PacketVvcs THEN IF q = <<>> THEN 0 ELSE 1 ELSE TakeCount(q, r.n)

Available(r, q) == r.exact => Len(q) >= r.n

Take(w) ==
    LET r == asked[w]
        q == queue[r.vvc]
        count == Wanted(r, q)
    IN
    /\ r # NoRequest /\ Available(r, q)
    /\ queue' = [queue EXCEPT ![r.vvc] = SubSeq(q, count + 1, Len(q))]
    /\ given' = [given EXCEPT ![r.vvc] = @ \o SubSeq(q, 1, count)]
    /\ asked' = [asked EXCEPT ![w] = NoRequest]

GiveUp(w) ==
    /\ asked[w] # NoRequest /\ ~Available(asked[w], queue[asked[w].vvc])
    /\ asked' = [asked EXCEPT ![w] = NoRequest]
    /\ UNCHANGED <<queue, given>>

Next ==
    \/ \E v \in Vvcs : Arrive(v)
    \/ \E w \in Worker : Take(w) \/ GiveUp(w) \/ \E r \in Request : Begin(w, r)

Spec == Init /\ [][Next]_vars
=============================================================================
