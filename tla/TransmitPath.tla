---------------------------- MODULE TransmitPath ----------------------------
(***************************************************************************)
(* The way of the data a client transmits: the TransmitBytes and           *)
(* TransmitPacket procedures of the server put it on the queue of a VVC,   *)
(* and the p_transmit process of the controller of that VVC fetches it,    *)
(* byte by byte through the foreign functions, gathers it into a command   *)
(* and schedules the command on the VVC.                                   *)
(*                                                                         *)
(* Clients and the simulator are different threads: a request may come     *)
(* between any two foreign calls.  In the simulator a process runs until   *)
(* its next wait, so what p_transmit does between two foreign calls is     *)
(* part of the step of the first.                                          *)
(***************************************************************************)
EXTENDS CosimQueues, VvcMap

CONSTANTS
    Data,            \* payloads of requests, the empty one among them
    AxisCmdMax,      \* C_CMD_QUEUE_MAX of the AXI-Stream controller
    UartCmdMax,      \* C_CMD_QUEUE_COUNT_THRESHOLD of UVVM, for the UART
    MaxCmdBytes,     \* C_AXISTREAM_VVC_CMD_DATA_MAX_BYTES of UVVM
    MaxAccepted      \* bound: bytes or packets accepted for one VVC

ASSUME DataAssumption == Data \subseteq Seq(Byte)
ASSUME CommandAssumption ==
    AxisCmdMax \in Nat \ {0} /\ UartCmdMax \in Nat \ {0} /\ MaxCmdBytes \in Nat \ {0}
ASSUME BoundAssumption == MaxAccepted \in Nat

VARIABLES
    byteTx,      \* byte_queues[QID_TRANSMIT] of every VVC
    packetTx,    \* packet_queues[QID_TRANSMIT] of every VVC
    reply,       \* the last response to a transmit request
    pc,          \* where p_transmit of every VVC is
    buf,         \* v_data(0 to v_byte_idx-1): bytes fetched and not yet sent
    pending,     \* vvc_status.pending_cmd_cnt
    faults,      \* what went wrong in p_transmit
    accepted,    \* history: bytes or packets whose request succeeded
    sent         \* history: bytes or packets given to the VVC in commands

server == <<byteTx, packetTx, reply, accepted>>
controller == <<pc, buf, pending, faults, sent>>
vars == <<registered, server, controller>>

IsUart(v) == v.type = "UART_VVC"
CmdMax(v) == IF IsUart(v) THEN UartCmdMax ELSE AxisCmdMax

Init ==
    /\ registered = {}
    /\ byteTx = [v \in Vvcs |-> <<>>]
    /\ packetTx = [v \in Vvcs |-> EmptyPacketQueue]
    /\ reply = "none"
    /\ pc = [v \in Vvcs |-> "init"]
    /\ buf = [v \in Vvcs |-> <<>>]
    /\ pending = [v \in Vvcs |-> 0]
    /\ faults = [v \in Vvcs |-> {}]
    /\ accepted = [v \in Vvcs |-> <<>>]
    /\ sent = [v \in Vvcs |-> <<>>]

-----------------------------------------------------------------------------
(* The server's procedures.  A request for a VVC without such a queue is    *)
(* answered with an error and changes nothing.                              *)

TransmitBytes(t, data) ==
    LET v == TxKey(t) IN
    /\ UNCHANGED <<registered, packetTx, controller>>
    /\ \/ /\ HasByteQueue(v)
          /\ Len(accepted[v]) + Len(data) <= MaxAccepted
          /\ byteTx' = [byteTx EXCEPT ![v] = PutBytes(@, data)]
          /\ accepted' = [accepted EXCEPT ![v] = @ \o data]
          /\ reply' = "success"
       \/ /\ ~HasByteQueue(v)
          /\ reply' = "error"
          /\ UNCHANGED <<byteTx, accepted>>

TransmitPacket(t, data) ==
    LET v == PacketKey(t) IN
    /\ UNCHANGED <<registered, byteTx, controller>>
    /\ \/ /\ HasPacketQueue(v)
          /\ Len(accepted[v]) < MaxAccepted
          /\ packetTx' = [packetTx EXCEPT ![v] = PutPacket(@, data)]
          /\ accepted' = [accepted EXCEPT ![v] = IF data = <<>> THEN @ ELSE Append(@, data)]
          /\ reply' = "success"
       \/ /\ ~HasPacketQueue(v)
          /\ reply' = "error"
          /\ UNCHANGED <<packetTx, accepted>>

ReportVvc(v) == AddVvc(v) /\ UNCHANGED <<server, controller>>

-----------------------------------------------------------------------------
(* p_transmit of one VVC                                                    *)

\* init_done and the first clock edge; an instance not in use waits for ever.
Enable(v) ==
    /\ pc[v] = "init" /\ InitDone /\ Transmits(v)
    /\ pc' = [pc EXCEPT ![v] = "clock"]
    /\ UNCHANGED <<registered, server, buf, pending, faults, sent>>

\* wait until rising_edge(clk)
ClockEdge(v) ==
    /\ pc[v] = "clock"
    /\ pc' = [pc EXCEPT ![v] = "poll"]
    /\ UNCHANGED <<registered, server, buf, pending, faults, sent>>

QueueEmpty(v) == IF v \in PacketVvcs THEN packetTx[v].q = <<>> ELSE byteTx[v] = <<>>

\* Mutant: the buffer counts as full one byte too early.
BufferFull_Early(v) == Len(buf[v]) = MaxCmdBytes - 1

BufferFull(v) == Len(buf[v]) = MaxCmdBytes

\* Mutant: a command gathers bytes without end.
CommandFull_Never(v) == FALSE

\* Only bytes for the AXI-Stream VVC are gathered over several polls.
CommandFull(v) == ~IsUart(v) /\ v \notin PacketVvcs /\ BufferFull(v)

\* Mutant: the length of the command queue is not looked at.
MayFetch_NoLimit(v) == ~QueueEmpty(v) /\ ~CommandFull(v)

\* Mutant: the queue is assumed to hold data.
MayFetch_NoEmptyCheck(v) == pending[v] < CmdMax(v) /\ ~CommandFull(v)

\* Mutant: the limit of the command queue is one too low.
MayFetch_LimitTooLow(v) == ~QueueEmpty(v) /\ pending[v] + 1 < CmdMax(v) /\ ~CommandFull(v)

MayFetch(v) == ~QueueEmpty(v) /\ pending[v] < CmdMax(v) /\ ~CommandFull(v)

\* The loop condition and the exits of the loop: get a byte, or leave with what
\* was fetched so far.
Poll(v) ==
    /\ pc[v] = "poll"
    /\ pc' = [pc EXCEPT ![v] = IF MayFetch(v) THEN "get"
                               ELSE IF buf[v] = <<>> THEN "clock" ELSE "send"]
    /\ UNCHANGED <<registered, server, buf, pending, faults, sent>>

\* transmit_byte_queue_get: 0 from an empty queue, with an error message.  The
\* UART controller sends the byte at once, the AXI-Stream one polls for more.
FetchByte(v) ==
    LET got == GetByte(byteTx[v]) IN
    /\ pc[v] = "get" /\ v \notin PacketVvcs
    /\ byteTx' = [byteTx EXCEPT ![v] = got.rest]
    /\ buf' = [buf EXCEPT ![v] = Append(@, got.byte)]
    /\ faults' = [faults EXCEPT ![v] = IF got.got THEN @ ELSE @ \cup {"dry"}]
    /\ pc' = [pc EXCEPT ![v] = IF IsUart(v) THEN "send" ELSE "poll"]
    /\ UNCHANGED <<registered, packetTx, reply, accepted, pending, sent>>

\* One round of the loop of fetch_packet_to_transmit: get a byte until the end
\* of the packet.  An exception of the queue leaves the foreign function.
FetchPacketByte(v) ==
    LET got == GetPacketByte(packetTx[v]) IN
    /\ pc[v] = "get" /\ v \in PacketVvcs /\ ~BufferFull(v)
    /\ packetTx' = [packetTx EXCEPT ![v] = got.rest]
    /\ buf' = [buf EXCEPT ![v] = IF got.throws THEN @ ELSE Append(@, got.byte)]
    /\ faults' = [faults EXCEPT ![v] =
                    IF got.got THEN @
                    ELSE @ \cup {IF got.throws THEN "throw" ELSE "dry"}]
    /\ pc' = [pc EXCEPT ![v] = IF got.throws THEN "dead"
                               ELSE IF got.eop THEN "send" ELSE "get"]
    /\ UNCHANGED <<registered, byteTx, reply, accepted, pending, sent>>

\* The command's buffer is full before the end of the packet: TB_FAILURE, and,
\* if the testbench goes on after it, what was fetched is sent.
Oversize(v) ==
    /\ pc[v] = "get" /\ v \in PacketVvcs /\ BufferFull(v)
    /\ faults' = [faults EXCEPT ![v] = @ \cup {"oversize"}]
    /\ pc' = [pc EXCEPT ![v] = "send"]
    /\ UNCHANGED <<registered, server, buf, pending, sent>>

\* Mutant: the buffer is not emptied for the next command.
SendCommand_KeepsBuffer(v) ==
    /\ pc[v] = "send"
    /\ pending' = [pending EXCEPT ![v] = @ + 1]
    /\ sent' = [sent EXCEPT ![v] = IF v \in PacketVvcs THEN Append(@, buf[v]) ELSE @ \o buf[v]]
    /\ pc' = [pc EXCEPT ![v] = "poll"]
    /\ UNCHANGED <<registered, server, faults, buf>>

\* uart_transmit or axistream_transmit, and back to the loop
SendCommand(v) ==
    /\ pc[v] = "send"
    /\ pending' = [pending EXCEPT ![v] = @ + 1]
    /\ sent' = [sent EXCEPT ![v] = IF v \in PacketVvcs THEN Append(@, buf[v]) ELSE @ \o buf[v]]
    /\ buf' = [buf EXCEPT ![v] = <<>>]
    /\ pc' = [pc EXCEPT ![v] = "poll"]
    /\ UNCHANGED <<registered, server, faults>>

\* External: the executor of the VVC takes the next command of its queue.
VvcExecute(v) ==
    /\ pending[v] > 0
    /\ pending' = [pending EXCEPT ![v] = @ - 1]
    /\ UNCHANGED <<registered, server, pc, buf, faults, sent>>

-----------------------------------------------------------------------------
Rpc == \E t \in Targets, data \in Data : TransmitBytes(t, data) \/ TransmitPacket(t, data)

TransmitProcess(v) ==
    \/ Enable(v) \/ ClockEdge(v) \/ Poll(v) \/ FetchByte(v) \/ FetchPacketByte(v)
    \/ Oversize(v) \/ SendCommand(v)

Next ==
    \/ Rpc
    \/ \E v \in Vvcs : ReportVvc(v) \/ TransmitProcess(v) \/ VvcExecute(v)

Spec == Init /\ [][Next]_vars

\* The simulation runs: its processes reach their next foreign call, the clock
\* ticks and VVCs execute their commands.  No client is obliged to call.
FairSpec ==
    /\ Spec
    /\ \A v \in Vvcs : WF_vars(ReportVvc(v)) /\ WF_vars(TransmitProcess(v))
                       /\ WF_vars(VvcExecute(v))

-----------------------------------------------------------------------------
(* Properties                                                               *)

TransmitVvcs == {v \in Vvcs : Transmits(v)}

\* The types of the variables.  No packet of a queue is ever empty, which is
\* what get_byte relies on (packet_queue.hpp:31).
TypeOK ==
    /\ RegistryTypeOK
    /\ byteTx \in [Vvcs -> Seq(Byte)]
    /\ packetTx \in [Vvcs -> [q : Seq(Seq(Byte) \ {<<>>}), buff : {<<>>}]]
    /\ reply \in {"none", "success", "error"}
    /\ pc \in [Vvcs -> {"init", "clock", "poll", "get", "send", "dead"}]
    /\ buf \in [Vvcs -> Seq(Byte)]
    /\ pending \in [Vvcs -> Nat]
    /\ faults \in [Vvcs -> SUBSET {"dry", "throw", "oversize"}]
    /\ DOMAIN accepted = Vvcs /\ DOMAIN sent = Vvcs
    /\ \A v \in Vvcs : v \notin PacketVvcs => accepted[v] \in Seq(Byte) /\ sent[v] \in Seq(Byte)
    /\ \A v \in PacketVvcs : accepted[v] \in Seq(Seq(Byte)) /\ sent[v] \in Seq(Seq(Byte))

\* Bytes accepted from clients, however many clients call and whatever the
\* simulator is doing, are in order and once each in: the commands sent, the
\* command being gathered, the transmit queue.
BytesInOrder ==
    \A v \in Vvcs \ PacketVvcs : accepted[v] = sent[v] \o buf[v] \o byteTx[v]

\* What is left of the packets accepted and not yet sent: when p_transmit is in
\* the middle of one, its first bytes are in buf and the others head the queue.
UnsentPackets(v) ==
    IF buf[v] = <<>> THEN packetTx[v].q
    ELSE IF pc[v] = "send" THEN <<buf[v]>> \o packetTx[v].q
    ELSE <<buf[v] \o Head(packetTx[v].q)>> \o Tail(packetTx[v].q)

\* One command per packet: packets reach the VVC whole, in order and once each,
\* though they cross the foreign interface byte by byte with an end flag.  An
\* oversized packet (see FramingLostOnlyIfTooLong) is the exception.
PacketsInOrder ==
    \A v \in PacketVvcs :
        "oversize" \notin faults[v] => accepted[v] = sent[v] \o UnsentPackets(v)

\* The error paths of the foreign gets ("did not return a byte",
\* uvvm_cosim_common.cpp:58, and the exception of packet_queue.hpp:32) are never
\* reached: p_transmit is the only reader of its queue, so data it has seen
\* there is still there when it gets it.
GetFindsData == \A v \in Vvcs : faults[v] \subseteq {"oversize"}

\* A controller leaves a VVC's command queue at its limit at most ("prevent
\* command queue from overflowing", uvvm_cosim_axis_vvc_ctrl.vhd:62), and a
\* command within the buffer it is gathered in.
CommandQueueBounded ==
    \A v \in Vvcs : pending[v] <= CmdMax(v) /\ Len(buf[v]) <= MaxCmdBytes

\* The alert about an unfinished packet is raised only for a packet longer than
\* a command's buffer: one that fits exactly is sent without it.
FramingLostOnlyIfTooLong ==
    \A v \in PacketVvcs :
        "oversize" \in faults[v] =>
            \E i \in 1..Len(accepted[v]) : Len(accepted[v][i]) > MaxCmdBytes

\* The path of a served VVC, from requests to commands, is a reliable stream: in
\* order, none lost, none twice, and everything accepted is eventually sent.
Stream == INSTANCE ReliableStream WITH
    Streams <- TransmitVvcs,
    input <- [v \in TransmitVvcs |-> accepted[v]],
    output <- [v \in TransmitVvcs |-> sent[v]]

DeliversEverything == Stream!FairSpec

\* Also packets that are cut because they are too long, and those behind them, get
\* out of the queue: an oversized packet does not hold up the VVC.
PacketsGoOut ==
    \A v \in PacketVvcs : packetTx[v].q # <<>> ~> packetTx[v].q = <<>>

\* README.md:164, of transmit calls: "the data is queued up in the cosim-server,
\* and gradually transmitted as the simulation progresses".  For every VVC a
\* request has succeeded for, data that is queued gets out of the queue.
QueuedIsTransmitted ==
    \A v \in Vvcs : byteTx[v] # <<>> ~> byteTx[v] = <<>>
=============================================================================
