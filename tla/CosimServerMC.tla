---------------------------- MODULE CosimServerMC ----------------------------
(***************************************************************************)
(* One UART stream and one packet-based AXI-Stream stream, each from one   *)
(* VVC to another, with bytes at both ends of their range.                 *)
(***************************************************************************)
EXTENDS CosimServer

CONSTANTS w1, w2

MCByte == {0, 255}
MCThreads == {"sim", w1, w2}

Uart(id) == [vvc_type |-> UART_VVC, vvc_instance_id |-> id, packet_based |-> FALSE]
Axis(id) == [vvc_type |-> AXISTREAM_VVC, vvc_instance_id |-> id, packet_based |-> TRUE]

MCLoop == (Uart(0) :> Uart(1)) @@ (Axis(0) :> Axis(1))

MCReports ==
    << <<UART_VVC, <<"TX">>, 0, bfm_cfg_to_string(UART_VVC, FALSE)>>,
       <<UART_VVC, <<"RX">>, 1, bfm_cfg_to_string(UART_VVC, FALSE)>>,
       <<AXISTREAM_VVC, <<"NA">>, 0, bfm_cfg_to_string(AXISTREAM_VVC, TRUE)>>,
       <<AXISTREAM_VVC, <<"NA">>, 1, bfm_cfg_to_string(AXISTREAM_VVC, TRUE)>> >>

\* UART 2 does not exist: the access throws.
MCRequests ==
    { [op |-> "byte_queue_put", qid |-> "TRANSMIT", vvc |-> TxKey(Uart(0)), data |-> <<255>>],
      [op |-> "byte_queue_get_n", qid |-> "RECEIVE", vvc |-> RxKey(Uart(1)), n |-> 0],
      [op |-> "packet_queue_put_pkt", qid |-> "TRANSMIT", vvc |-> PacketKey(Axis(0)), data |-> <<255, 0>>],
      [op |-> "packet_queue_get_pkt", qid |-> "RECEIVE", vvc |-> PacketKey(Axis(1))],
      [op |-> "byte_queue_size", qid |-> "RECEIVE", vvc |-> RxKey(Uart(2))] }
=============================================================================
