----------------------------- MODULE CosimServer -----------------------------
(***************************************************************************)
(* The server's data in use.  The simulator thread makes foreign calls: it *)
(* reports the VVCs, then polls the transmit queues and stores what a VVC  *)
(* received; here the design under test is a loop, so that what a VVC is   *)
(* given to transmit arrives at another one.  The worker threads of the    *)
(* RPC server make the accesses of the clients' requests, in any order.    *)
(* Both go through the one mutex of shared_map.  The server is created at  *)
(* the start of the simulation, and at its end stopped and deleted while   *)
(* requests may be in progress.                                            *)
(***************************************************************************)
EXTENDS SharedMap, ForeignInterface

CONSTANTS
    Sim,            \* the simulator's thread; the others are workers
    Reports,        \* the arguments of report_vvc_info, call after call
    Loop,           \* the target that receives what a target transmits
    Requests,       \* the accesses that requests make
    MaxRequests     \* bound on the requests of a behaviour

ASSUME SimAssumption == Sim \in Threads
ASSUME ReportsAssumption == Len(Reports) \in Nat

VARIABLES
    interface,       \* "VHPI" or "FLI", by the simulator
    cosim_server,    \* the pointer: "null", "listening", "stopping" or "deleted"
    reported,        \* how many VVCs the simulator has reported
    call,            \* the foreign call the simulator makes next or is in
    requests,        \* requests so far
    input,           \* what clients have put to be transmitted, per VVC
    output           \* what clients have taken that was received, per VVC

driverVars == <<interface, cosim_server, reported, call, requests, input, output>>
vars == <<mapVars, driverVars>>

Workers == Threads \ {Sim}

\* A target as the key of the VVC that transmits or receives for it
Sender(target) == IF target.packet_based THEN PacketKey(target) ELSE TxKey(target)
Receiver(target) == IF target.packet_based THEN PacketKey(target) ELSE RxKey(target)

-----------------------------------------------------------------------------
\* What the constants stand for

\* A VVC as the code of the controllers names it
Target == [vvc_type : Seq(STRING), vvc_instance_id : Nat, packet_based : BOOLEAN]

\* The design under test passes what one VVC transmits to one other of its mode.
ASSUME LoopAssumption ==
    /\ \A s \in DOMAIN Loop :
          /\ s \in Target /\ Loop[s] \in Target
          /\ Loop[s].packet_based = s.packet_based
          /\ \A i \in DOMAIN s.vvc_type : s.vvc_type[i] # Nul
          /\ \A i \in DOMAIN Loop[s].vvc_type : Loop[s].vvc_type[i] # Nul
    /\ \A s, u \in DOMAIN Loop : Loop[s] = Loop[u] => s = u

\* The access that a report makes, and the mode it gives the VVC
Reported(i) == ServerAccess("report_vvc_info", VhpiArguments("report_vvc_info", Reports[i]))
ModeReported(i) == VvcConfig(Reported(i).bfm_cfg).packet_based

\* Every VVC at an end of a stream is reported, in the mode its target has.
ASSUME LoopReported ==
    \A s \in DOMAIN Loop : \A v \in {Sender(s), Receiver(Loop[s])} :
        /\ \E i \in 1..Len(Reports) : Reported(i).vvc = v
        /\ \A i \in 1..Len(Reports) : Reported(i).vvc = v => ModeReported(i) = s.packet_based

\* The accesses that the procedures of the server make for clients
ClientAccess(a) ==
    \/ a.op \in {"byte_queue_put", "packet_queue_put_pkt"} /\ a.qid = "TRANSMIT" /\ a.data \in Seq(Byte)
    \/ a.op = "byte_queue_get_n" /\ a.qid = "RECEIVE" /\ a.n \in Nat
    \/ a.op = "packet_queue_get_pkt" /\ a.qid = "RECEIVE"
    \/ a.op \in {"byte_queue_empty", "byte_queue_size", "packet_queue_empty"} /\ a.qid = "RECEIVE"
    \/ a.op \in {"GetVvcList", "SetVvcListenEnable"}

ASSUME RequestsAssumption == \A a \in Requests : ClientAccess(a)

ASSUME OctetAssumption == Byte \subseteq 0..255

\* The foreign calls of the simulator: for a VVC, and from one end of a stream to
\* the other
TargetArgs(target) == <<target.vvc_type, target.vvc_instance_id>>

ReportCall(i) == [name |-> "report_vvc_info", args |-> Reports[i]]
PollCall(s) ==
    [name |-> IF s.packet_based THEN "transmit_packet_queue_empty" ELSE "transmit_byte_queue_empty",
     args |-> TargetArgs(s), target |-> s]
GetCall(s) ==
    [name |-> IF s.packet_based THEN "transmit_packet_queue_get" ELSE "transmit_byte_queue_get",
     args |-> TargetArgs(s), target |-> s]
PutCall(s, b, e) ==
    [name |-> IF s.packet_based THEN "receive_packet_queue_put" ELSE "receive_byte_queue_put",
     args |-> TargetArgs(Loop[s]) \o (IF s.packet_based THEN <<b, AsInt(e)>> ELSE <<b>>),
     target |-> s]

\* None is no call.
ASSUME NoCallAssumption ==
    /\ \A i \in 1..Len(Reports) : ReportCall(i) # None
    /\ \A s \in DOMAIN Loop :
          /\ PollCall(s) # None /\ GetCall(s) # None
          /\ \A b \in Byte, e \in BOOLEAN : PutCall(s, b, e) # None
-----------------------------------------------------------------------------

Init ==
    /\ MapInit
    /\ interface \in {"VHPI", "FLI"}
    /\ cosim_server = "null"
    /\ reported = 0
    /\ call = None
    /\ requests = 0
    /\ input = [v \in {Sender(s) : s \in DOMAIN Loop} |-> <<>>]
    /\ output = [v \in {Receiver(Loop[s]) : s \in DOMAIN Loop} |-> <<>>]

-----------------------------------------------------------------------------
\* Life of the server

\* start_rpc_server
StartOfSim ==
    /\ cosim_server = "null" /\ reported = 0
    /\ cosim_server' = "listening"
    /\ UNCHANGED <<mapVars, interface, reported, call, requests, input, output>>

\* stop_rpc_server calls StopListening: no request is accepted any more.
EndOfSim ==
    /\ cosim_server = "listening"
    /\ pc[Sim] = "idle"
    /\ cosim_server' = "stopping"
    /\ call' = None
    /\ UNCHANGED <<mapVars, interface, reported, requests, input, output>>

\* Mutant: the server is deleted without waiting for its workers.
DeleteServer_NoWait ==
    /\ cosim_server = "stopping"
    /\ cosim_server' = "deleted"
    /\ UNCHANGED <<mapVars, interface, reported, call, requests, input, output>>

\* StopListening has returned, after the requests in progress.
DeleteServer ==
    /\ cosim_server = "stopping"
    /\ \A t \in Workers : pc[t] = "idle"
    /\ cosim_server' = "deleted"
    /\ UNCHANGED <<mapVars, interface, reported, call, requests, input, output>>

-----------------------------------------------------------------------------
\* The simulator's thread

Arguments(c) == IF interface = "VHPI" THEN VhpiArguments(c.name, c.args)
                                      ELSE FliArguments(c.name, c.args)

\* What the simulator begins when it is in no call: the next report, or a poll
\* of a transmit queue.
BeginCall ==
    /\ cosim_server = "listening"
    /\ call = None
    /\ \/ /\ reported < Len(Reports)
          /\ call' = ReportCall(reported + 1)
       \/ /\ reported = Len(Reports)
          /\ \E target \in DOMAIN Loop : call' = PollCall(target)
    /\ UNCHANGED <<mapVars, interface, cosim_server, reported, requests, input, output>>

MakeCall ==
    /\ call # None
    /\ Call(Sim, ServerAccess(call.name, Arguments(call)))
    /\ UNCHANGED driverVars

\* The call that follows one that returned result, or None: a queue that is not
\* empty is read, and what was read is received by the VVC at the other end.
Following(result) ==
    CASE call.name = "transmit_byte_queue_empty" /\ result = 0 ->
           [call EXCEPT !.name = "transmit_byte_queue_get"]
      [] call.name = "transmit_packet_queue_empty" /\ result = 0 ->
           [call EXCEPT !.name = "transmit_packet_queue_get"]
      [] call.name = "transmit_byte_queue_get" ->
           [call EXCEPT !.name = "receive_byte_queue_put",
                        !.args = TargetArgs(Loop[call.target]) \o <<result>>]
      [] call.name = "transmit_packet_queue_get" ->
           LET d == DecodePacketByte(result)
           IN  [call EXCEPT !.name = "receive_packet_queue_put",
                            !.args = TargetArgs(Loop[call.target]) \o <<d.byte, AsInt(d.eop)>>]
      [] OTHER -> None

\* Mutant: every call counts as a report.
SimReturn_CountsAll ==
    /\ Return(Sim)
    /\ call' = Following(ForeignResult(call.name, out[Sim].value))
    /\ reported' = reported + 1
    /\ UNCHANGED <<interface, cosim_server, requests, input, output>>

SimReturn ==
    /\ Return(Sim)
    /\ call' = Following(ForeignResult(call.name, out[Sim].value))
    /\ reported' = IF call.name = "report_vvc_info" THEN reported + 1 ELSE reported
    /\ UNCHANGED <<interface, cosim_server, requests, input, output>>

-----------------------------------------------------------------------------
\* The workers

Request(t) ==
    /\ cosim_server = "listening"
    /\ requests < MaxRequests
    /\ requests' = requests + 1
    /\ \E a \in Requests : Call(t, a)
    /\ UNCHANGED <<interface, cosim_server, reported, call, input, output>>

RequestReturn(t) == Return(t) /\ UNCHANGED driverVars

\* What the end of an access adds to the history of a stream
Entered(a) == IF a.op = "packet_queue_put_pkt"
              THEN IF a.data = <<>> THEN <<>> ELSE <<a.data>>
              ELSE a.data

EndAccess(t) ==
    /\ Write(t)
    /\ LET a == access[t]
           r == Run(seen[t], a)
       IN  /\ input' = IF ~r.throws /\ a.op \in {"byte_queue_put", "packet_queue_put_pkt"}
                                    /\ a.qid = "TRANSMIT"
                       THEN [input EXCEPT ![a.vvc] = @ \o Entered(a)] ELSE input
           /\ output' = IF ~r.throws /\ a.op \in {"byte_queue_get_n", "packet_queue_get_pkt"}
                        THEN [output EXCEPT ![a.vvc] = @ \o r.value] ELSE output
    /\ UNCHANGED <<interface, cosim_server, reported, call, requests>>

-----------------------------------------------------------------------------
\* An access of a thread, once it is called
Step(t) == \/ (Lock(t) \/ Read(t)) /\ UNCHANGED driverVars
           \/ EndAccess(t)
           \/ t = Sim /\ SimReturn
           \/ t # Sim /\ RequestReturn(t)

\* The simulator has ended.
Ended == cosim_server = "deleted" /\ UNCHANGED vars

Next == \/ StartOfSim \/ EndOfSim \/ DeleteServer \/ Ended
        \/ BeginCall \/ MakeCall
        \/ \E t \in Workers : Request(t)
        \/ \E t \in Threads : Step(t)

\* Threads run, and StopListening returns when the workers are idle.
Fairness == (\A t \in Threads : WF_vars(Step(t))) /\ WF_vars(DeleteServer)

Spec == Init /\ [][Next]_vars /\ Fairness

-----------------------------------------------------------------------------
\* Properties

\* Where the threads and the server are.
TypeOK ==
    /\ cosim_server \in {"null", "listening", "stopping", "deleted"}
    /\ mtx \in Threads \cup {None}
    /\ pc \in [Threads -> {"idle", "lock", "read", "write", "unlock"}]
    /\ reported \in 0..Len(Reports)
    /\ \A t \in Threads : pc[t] = "idle" => access[t] = None

\* The server's data is used only while the server exists: no request and no
\* foreign call is in it before start_of_sim or after the delete.
NoUseAfterDelete ==
    cosim_server \in {"null", "deleted"} => \A t \in Threads : pc[t] = "idle"

\* From client to client, through the queues, the foreign calls and back: each
\* stream delivers its bytes or packets in order, with none lost or changed.
EndToEnd == INSTANCE ReliableStream WITH
    Streams <- DOMAIN Loop,
    input   <- [s \in DOMAIN Loop |-> input[Sender(s)]],
    output  <- [s \in DOMAIN Loop |-> output[Receiver(Loop[s])]]

DeliversEndToEnd == EndToEnd!Spec

\* The end of the simulation is not held up: whatever the requests in progress
\* do, throw included, the server is deleted.
ShutdownCompletes == cosim_server = "stopping" ~> cosim_server = "deleted"
=============================================================================
