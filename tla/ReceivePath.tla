----------------------------- MODULE ReceivePath -----------------------------
(***************************************************************************)
(* The way of the data a VVC receives: the p_receive process of its        *)
(* controller puts the result of each receive command on the VVC's queue,  *)
(* byte by byte through the foreign functions, and the ReceiveBytes and    *)
(* ReceivePacket procedures of the server take it from there.              *)
(*                                                                         *)
(* The HTTP server answers requests on several worker threads.  A receive  *)
(* procedure looks at the queue, and takes from it, in separate calls of   *)
(* the locked map; other workers and the simulator may come between.       *)
(* Which transaction of the VVC p_receive reads is the subject of module   *)
(* ReceiveController; here a result just arrives for a receive command     *)
(* that was started while listening.                                       *)
(***************************************************************************)
EXTENDS CosimQueues, VvcMap

CONSTANTS
    Worker,         \* threads that execute requests
    NumBytes,       \* values of num_bytes in requests, an int
    ExactLength,    \* values of exact_length in requests
    SizeMod,        \* size_t wraps here (2^64 in the program)
    Result,         \* results of receive commands, the empty one for a timeout
    MaxReceived     \* bound: bytes or packets received by one VVC

ASSUME RequestAssumption == NumBytes \subseteq Int /\ ExactLength \subseteq BOOLEAN
ASSUME ResultAssumption == Result \subseteq Seq(Byte)
\* size_t is wider than int.
ASSUME SizeAssumption == SizeMod \in Nat \ {0} /\ \A n \in NumBytes : n < SizeMod
ASSUME BoundAssumption == MaxReceived \in Nat

VARIABLES
    listen,      \* cfg.listen_enable of every VVC
    byteRx,      \* byte_queues[QID_RECEIVE] of every VVC
    packetRx,    \* packet_queues[QID_RECEIVE] of every VVC
    pc,          \* where each worker is in a receive procedure
    call,        \* the arguments of the procedure, its VVC as a key
    reply,       \* the last response to any request
    armed,       \* is a receive command of p_receive outstanding?
    storing,     \* the bytes of a result p_receive has still to put
    received,    \* history: bytes or packets p_receive has got from the VVC
    taken        \* history: bytes or packets taken from the queue for responses

rpc == <<pc, call, reply, taken>>
receiver == <<armed, storing, received>>
vars == <<registered, listen, byteRx, packetRx, rpc, receiver>>

\* The implicit conversion of an int to size_t
AsSize(n) == n % SizeMod

NoVvc == [type |-> "none", channel |-> "none", id |-> 0]
NoCall == [vvc |-> NoVvc, n |-> 0, exact |-> FALSE]

Success(result) == [success |-> TRUE, result |-> result]
Failure == [success |-> FALSE, result |-> "error"]

Init ==
    /\ registered = {}
    /\ listen = [v \in Vvcs |-> FALSE]
    /\ byteRx = [v \in Vvcs |-> <<>>]
    /\ packetRx = [v \in Vvcs |-> EmptyPacketQueue]
    /\ pc = [w \in Worker |-> "idle"]
    /\ call = [w \in Worker |-> NoCall]
    /\ reply = Success("empty")
    /\ armed = [v \in Vvcs |-> FALSE]
    /\ storing = [v \in Vvcs |-> <<>>]
    /\ received = [v \in Vvcs |-> <<>>]
    /\ taken = [v \in Vvcs |-> <<>>]

ReportVvc(v) ==
    /\ AddVvc(v)
    /\ UNCHANGED <<listen, byteRx, packetRx, rpc, receiver>>

-----------------------------------------------------------------------------
(* The server's procedures                                                  *)

SetVvcListenEnable(t, enable) ==
    LET v == RxKey(t) IN
    /\ UNCHANGED <<registered, byteRx, packetRx, pc, call, taken, receiver>>
    /\ \/ /\ v \in registered
          /\ listen' = [listen EXCEPT ![v] = enable]
          /\ reply' = Success("empty")
       \/ /\ v \notin registered
          /\ reply' = Failure
          /\ UNCHANGED listen

\* A worker leaves the procedure with response r.
Return(w, r) ==
    /\ pc' = [pc EXCEPT ![w] = "idle"]
    /\ call' = [call EXCEPT ![w] = NoCall]
    /\ reply' = r

\* ReceiveBytes, first access: is the queue empty?
ReceiveBytes(w, t, n, exact) ==
    LET v == RxKey(t) IN
    /\ pc[w] = "idle"
    /\ \/ /\ ~HasByteQueue(v)
          /\ Return(w, Failure)
       \/ /\ HasByteQueue(v) /\ byteRx[v] = <<>>
          /\ Return(w, Success("data"))
       \/ /\ HasByteQueue(v) /\ byteRx[v] # <<>>
          /\ pc' = [pc EXCEPT ![w] = IF exact THEN "size" ELSE "get"]
          /\ call' = [call EXCEPT ![w] = [vvc |-> v, n |-> n, exact |-> exact]]
          /\ UNCHANGED reply
    /\ UNCHANGED <<registered, listen, byteRx, packetRx, taken, receiver>>

\* Mutant: exact_length is not checked.
CheckSize_NoCheck(w) ==
    /\ pc[w] = "size"
    /\ pc' = [pc EXCEPT ![w] = "get"]
    /\ UNCHANGED <<registered, listen, byteRx, packetRx, call, reply, taken, receiver>>

\* Mutant: the worker waits until there are enough bytes.
CheckSize_Blocks(w) ==
    /\ pc[w] = "size"
    /\ Len(byteRx[call[w].vvc]) >= AsSize(call[w].n)
    /\ pc' = [pc EXCEPT ![w] = "get"]
    /\ UNCHANGED <<registered, listen, byteRx, packetRx, call, reply, taken, receiver>>

\* Second access, for exact_length: are there enough bytes?
CheckSize(w) ==
    LET v == call[w].vvc IN
    /\ pc[w] = "size"
    /\ \/ /\ Len(byteRx[v]) >= AsSize(call[w].n)
          /\ pc' = [pc EXCEPT ![w] = "get"]
          /\ UNCHANGED <<call, reply>>
       \/ /\ Len(byteRx[v]) < AsSize(call[w].n)
          /\ Return(w, Success("data"))
    /\ UNCHANGED <<registered, listen, byteRx, packetRx, taken, receiver>>

\* Last access: take the bytes.
GetBytes(w) ==
    LET v == call[w].vvc
        size == AsSize(call[w].n)
    IN
    /\ pc[w] = "get"
    /\ byteRx' = [byteRx EXCEPT ![v] = RemainingBytes(@, size)]
    /\ taken' = [taken EXCEPT ![v] = @ \o TakenBytes(byteRx[v], size)]
    /\ Return(w, Success("data"))
    /\ UNCHANGED <<registered, listen, packetRx, receiver>>

\* ReceivePacket, first access: is there a packet?
ReceivePacket(w, t) ==
    LET v == RxKey(t) IN
    /\ pc[w] = "idle"
    /\ \/ /\ ~HasPacketQueue(v)
          /\ Return(w, Failure)
       \/ /\ HasPacketQueue(v) /\ packetRx[v].q = <<>>
          /\ Return(w, Success("data"))
       \/ /\ HasPacketQueue(v) /\ packetRx[v].q # <<>>
          /\ pc' = [pc EXCEPT ![w] = "packet"]
          /\ call' = [call EXCEPT ![w] = [NoCall EXCEPT !.vvc = v]]
          /\ UNCHANGED reply
    /\ UNCHANGED <<registered, listen, byteRx, packetRx, taken, receiver>>

\* Second access: take it, if it is still there.
GetPacket(w) ==
    LET v == call[w].vvc IN
    /\ pc[w] = "packet"
    /\ packetRx' = [packetRx EXCEPT ![v] = RemainingPackets(@)]
    /\ taken' = [taken EXCEPT ![v] = @ \o TakenPackets(packetRx[v])]
    /\ Return(w, Success("data"))
    /\ UNCHANGED <<registered, listen, byteRx, receiver>>

-----------------------------------------------------------------------------
(* p_receive of one VVC                                                     *)

\* Listening is enabled and no receive is under way: start one.
StartReceive(v) ==
    /\ InitDone /\ Receives(v)
    /\ listen[v] /\ ~armed[v] /\ storing[v] = <<>>
    /\ armed' = [armed EXCEPT ![v] = TRUE]
    /\ UNCHANGED <<registered, listen, byteRx, packetRx, rpc, storing, received>>

\* External: the receive command completes with a result, empty when the VVC
\* timed out, and p_receive fetches it.  A UART receives one byte.
CompleteReceive(v, result) ==
    /\ armed[v]
    /\ v.type = "UART_VVC" => Len(result) <= 1
    /\ Len(received[v]) + (IF v \in PacketVvcs THEN 1 ELSE Len(result)) <= MaxReceived
    /\ armed' = [armed EXCEPT ![v] = FALSE]
    /\ storing' = [storing EXCEPT ![v] = result]
    /\ received' = [received EXCEPT ![v] =
                      IF result = <<>> THEN @
                      ELSE IF v \in PacketVvcs THEN Append(@, result) ELSE @ \o result]
    /\ UNCHANGED <<registered, listen, byteRx, packetRx, rpc>>

\* Mutant: the bytes of every result go to the byte queue.
StoreByte_AnyMode(v) ==
    /\ storing[v] # <<>>
    /\ byteRx' = [byteRx EXCEPT ![v] = PutBytes(@, <<Head(storing[v])>>)]
    /\ storing' = [storing EXCEPT ![v] = Tail(@)]
    /\ UNCHANGED <<registered, listen, packetRx, rpc, armed, received>>

\* receive_byte_queue_put of the next byte of the result
StoreByte(v) ==
    /\ storing[v] # <<>> /\ v \notin PacketVvcs
    /\ byteRx' = [byteRx EXCEPT ![v] = PutBytes(@, <<Head(storing[v])>>)]
    /\ storing' = [storing EXCEPT ![v] = Tail(@)]
    /\ UNCHANGED <<registered, listen, packetRx, rpc, armed, received>>

\* receive_packet_queue_put, flagged at the last byte of the result
StorePacketByte(v) ==
    LET last == Len(storing[v]) = 1 IN
    /\ storing[v] # <<>> /\ v \in PacketVvcs
    /\ packetRx' = [packetRx EXCEPT ![v] = PutPacketByte(@, Head(storing[v]), last)]
    /\ storing' = [storing EXCEPT ![v] = Tail(@)]
    /\ UNCHANGED <<registered, listen, byteRx, rpc, armed, received>>

-----------------------------------------------------------------------------
WorkerStep(w) == CheckSize(w) \/ GetBytes(w) \/ GetPacket(w)

Request ==
    \/ \E t \in Targets, enable \in BOOLEAN : SetVvcListenEnable(t, enable)
    \/ \E w \in Worker, t \in Targets, n \in NumBytes, exact \in ExactLength :
          ReceiveBytes(w, t, n, exact)
    \/ \E w \in Worker, t \in Targets : ReceivePacket(w, t)

ReceiveProcess(v) ==
    \/ StartReceive(v) \/ (\E result \in Result : CompleteReceive(v, result))
    \/ StoreByte(v) \/ StorePacketByte(v)

Next ==
    \/ Request
    \/ \E w \in Worker : WorkerStep(w)
    \/ \E v \in Vvcs : ReportVvc(v) \/ ReceiveProcess(v)

Spec == Init /\ [][Next]_vars

\* The operating system runs the worker threads.  Nothing is assumed of the
\* simulator, which may be paused for ever.
FairSpec == Spec /\ \A w \in Worker : WF_vars(WorkerStep(w))

\* A client that asks for an exact length is the only reader of that VVC until
\* its request returns.
ExactAlone ==
    \A w, u \in Worker : w # u /\ call[w].exact => call[w].vvc # call[u].vvc

\* The behaviours in which clients keep to that
AgreedSpec == /\ Init /\ [][Next /\ ExactAlone']_vars
              /\ \A w \in Worker : WF_vars(WorkerStep(w))

-----------------------------------------------------------------------------
(* Properties                                                               *)

Calls == [vvc : Vvcs \cup {NoVvc}, n : Int, exact : BOOLEAN]
Replies == [success : BOOLEAN, result : {"empty", "data", "error"}]

\* The types of the variables.  A worker is past the first access of a procedure
\* only for a registered VVC of the procedure's mode, so the exceptions of the
\* later accesses (uvvm_cosim_data.cpp:17, 21, 65, 69) cannot occur, and the
\* queue of the other mode is never used.
TypeOK ==
    /\ RegistryTypeOK
    /\ listen \in [Vvcs -> BOOLEAN]
    /\ byteRx \in [Vvcs -> Seq(Byte)]
    /\ packetRx \in [Vvcs -> [q : Seq(Seq(Byte) \ {<<>>}), buff : Seq(Byte)]]
    /\ pc \in [Worker -> {"idle", "size", "get", "packet"}]
    /\ call \in [Worker -> Calls]
    /\ reply \in Replies
    /\ armed \in [Vvcs -> BOOLEAN]
    /\ storing \in [Vvcs -> Seq(Byte)]
    /\ DOMAIN received = Vvcs /\ DOMAIN taken = Vvcs
    /\ \A v \in Vvcs : v \notin PacketVvcs =>
          /\ received[v] \in Seq(Byte) /\ taken[v] \in Seq(Byte)
          /\ packetRx[v] = EmptyPacketQueue
    /\ \A v \in PacketVvcs :
          /\ received[v] \in Seq(Seq(Byte)) /\ taken[v] \in Seq(Seq(Byte))
          /\ byteRx[v] = <<>>
    /\ \A w \in Worker :
          /\ pc[w] \in {"size", "get"} => HasByteQueue(call[w].vvc)
          /\ pc[w] = "packet" => HasPacketQueue(call[w].vvc)

\* Bytes got from a VVC are in order and once each in: what responses took, the
\* receive queue, what p_receive has still to put; whatever workers interleave.
BytesConserved ==
    \A v \in Vvcs \ PacketVvcs : received[v] = taken[v] \o byteRx[v] \o storing[v]

\* The packet p_receive is putting byte by byte, none between two results
PartialPacket(v) ==
    IF storing[v] = <<>> THEN <<>> ELSE <<packetRx[v].buff \o storing[v]>>

\* The same for packets: a packet is taken whole or not at all, and never seen
\* before its last byte was put.
PacketsConserved ==
    \A v \in PacketVvcs :
        /\ received[v] = taken[v] \o packetRx[v].q \o PartialPacket(v)
        /\ storing[v] = <<>> => packetRx[v].buff = <<>>

\* README.md:164: a receive response "will either include the requested amount
\* of bytes if the queue has sufficient data, or, [...] either what is available
\* or none at all depending on what parameters it was called with".  So with
\* exact_length a response that takes bytes takes num_bytes of them, though the
\* check and the taking are separate accesses.  (For num_bytes 0 the queue
\* returns everything, byte_queue.hpp:43.)
ExactLengthHonoured ==
    [][\A w \in Worker :
         LET v == call[w].vvc IN
         GetBytes(w) /\ call[w].exact /\ call[w].n > 0 =>
             Len(taken'[v]) - Len(taken[v]) = call[w].n]_vars

\* README.md:164: no request "will wait for the actual request to be completed".
\* Whatever the simulator and other clients do or fail to do, a receive request
\* that has begun ends.
RequestsReturn == \A w \in Worker : pc[w] # "idle" ~> pc[w] = "idle"

\* The procedures, made of several accesses each, implement the service where a
\* request takes effect at one instant: when requests with exact_length are alone
\* with their VVC, a client cannot tell the difference.
Service == INSTANCE ReceiveService WITH
    Request <- [vvc : Vvcs, n : {AsSize(n) : n \in NumBytes} \cup {0}, exact : BOOLEAN],
    NoRequest <- NoCall,
    queue <- [v \in Vvcs |-> IF v \in PacketVvcs THEN packetRx[v].q ELSE byteRx[v]],
    given <- taken,
    asked <- [w \in Worker |-> [call[w] EXCEPT !.n = AsSize(@)]]

ReceivesAtomically == Service!Spec

\* What clients take from a VVC is a reliable stream of what the VVC received.
Stream == INSTANCE ReliableStream WITH
    Streams <- Vvcs, input <- received, output <- taken

ImplementsStream == Stream!Spec
=============================================================================
