-------------------------------- MODULE VvcMap --------------------------------
(***************************************************************************)
(* The VVC instances of a testbench and how the server finds one.          *)
(*                                                                         *)
(* UvvmCosimData keeps a map from VvcInstanceKey (type, channel, id) to    *)
(* the instance's configuration and queues.  p_uvvm_cosim_init fills it,   *)
(* one report_vvc_info call per VVC in UVVM's activity register, and marks *)
(* the instances the controllers of the library serve.  A client names a   *)
(* VVC by type and id only; the server adds the channel.  Every access is  *)
(* one call of shared_map::operator(), which holds the mutex until the     *)
(* whole access is done, so it is one step of every module of the project. *)
(***************************************************************************)
CONSTANTS
    Vvcs,         \* keys of the VVCs in the activity register
    PacketVvcs,   \* those with bfm_config.check_packet_length at registration
    Targets       \* the (type, id) pairs clients name, registered or not

\* Only the AXI-Stream VVC has packets; channels are those UVVM gives.
ASSUME VvcsAssumption ==
    /\ \A v \in Vvcs : DOMAIN v = {"type", "channel", "id"}
    /\ \A v \in Vvcs : v.channel \in (IF v.type = "UART_VVC" THEN {"TX", "RX"} ELSE {"NA"})
    /\ PacketVvcs \subseteq {v \in Vvcs : v.type = "AXISTREAM_VVC"}

VARIABLE registered    \* keys of vvcInstanceMap

\* The key the server builds for each kind of request.
Key(t, channel) == [type |-> t.type, channel |-> channel, id |-> t.id]
TxKey(t) == Key(t, IF t.type = "UART_VVC" THEN "TX" ELSE "NA")
RxKey(t) == Key(t, IF t.type = "UART_VVC" THEN "RX" ELSE "NA")
PacketKey(t) == Key(t, "NA")

\* get_byte_queue and get_packet_queue find a queue; otherwise they throw.
HasByteQueue(v) == v \in registered /\ v \notin PacketVvcs
HasPacketQueue(v) == v \in registered /\ v \in PacketVvcs

\* vvc_idx_in_use: the instances a transmit or a receive process serves.
Transmits(v) == \/ v.type = "UART_VVC" /\ v.channel = "TX"
                \/ v.type = "AXISTREAM_VVC"
Receives(v) == \/ v.type = "UART_VVC" /\ v.channel = "RX"
               \/ v.type = "AXISTREAM_VVC"

\* report_vvc_info for the next VVC of the register.  AddVvc throws for a key it
\* has already; the register holds a key once.
AddVvc(v) == /\ v \notin registered
             /\ registered' = registered \cup {v}

\* init_done, which follows the loop over the whole register
InitDone == registered = Vvcs

RegistryTypeOK == registered \subseteq Vvcs
=============================================================================
