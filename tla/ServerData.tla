------------------------------ MODULE ServerData ------------------------------
(***************************************************************************)
(* UvvmCosimData (uvvm_cosim_data.cpp): the map of VVC instances, each     *)
(* with its configuration and its queues, and the accesses to it.  A map   *)
(* is a function from the keys it holds; an access is an operator from a   *)
(* map and the arguments to whether it throws, what it returns and the map *)
(* it leaves.  Perform(m, a) is the whole access a, the function that      *)
(* shared_map runs under its mutex.                                        *)
(***************************************************************************)
EXTENDS CosimQueues

QueueIds == {"TRANSMIT", "RECEIVE"}

Throws(m) == [throws |-> TRUE, value |-> "none", map |-> m]
Returns(m, value) == [throws |-> FALSE, value |-> value, map |-> m]

-----------------------------------------------------------------------------
\* Byte queues: get_byte_queue throws for a packet-based or an absent VVC.

HasByteQueue(m, v) == v \in DOMAIN m /\ ~m[v].cfg.packet_based

ByteQueue(m, qid, v) == m[v].byte_queues[qid]

\* An access that returns value and leaves q in the queue.
AccessBytes(m, qid, v, value, q) ==
    IF HasByteQueue(m, v) THEN Returns([m EXCEPT ![v].byte_queues[qid] = q], value)
                          ELSE Throws(m)

byte_queue_empty(m, qid, v) ==
    AccessBytes(m, qid, v, ByteQueue(m, qid, v) = <<>>, ByteQueue(m, qid, v))

byte_queue_size(m, qid, v) ==
    AccessBytes(m, qid, v, Len(ByteQueue(m, qid, v)), ByteQueue(m, qid, v))

byte_queue_put(m, qid, v, data) ==
    AccessBytes(m, qid, v, "none", PutBytes(ByteQueue(m, qid, v), data))

byte_queue_get(m, qid, v) ==
    LET r == GetByte(ByteQueue(m, qid, v))
    IN  AccessBytes(m, qid, v, [got |-> r.got, byte |-> r.byte], r.rest)

byte_queue_get_n(m, qid, v, n) ==
    AccessBytes(m, qid, v, TakenBytes(ByteQueue(m, qid, v), n),
                           RemainingBytes(ByteQueue(m, qid, v), n))

-----------------------------------------------------------------------------
\* Packet queues: get_packet_queue throws for any other VVC.

HasPacketQueue(m, v) == v \in DOMAIN m /\ m[v].cfg.packet_based

PacketQueue(m, qid, v) == m[v].packet_queues[qid]

AccessPackets(m, qid, v, value, q) ==
    IF HasPacketQueue(m, v) THEN Returns([m EXCEPT ![v].packet_queues[qid] = q], value)
                            ELSE Throws(m)

packet_queue_empty(m, qid, v) ==
    AccessPackets(m, qid, v, PacketQueue(m, qid, v).q = <<>>, PacketQueue(m, qid, v))

packet_queue_size(m, qid, v) ==
    AccessPackets(m, qid, v, Len(PacketQueue(m, qid, v).q), PacketQueue(m, qid, v))

packet_queue_get_byte(m, qid, v) ==
    LET r == GetPacketByte(PacketQueue(m, qid, v))
    IN  IF HasPacketQueue(m, v) /\ r.throws THEN Throws(m)
        ELSE AccessPackets(m, qid, v, [got |-> r.got, byte |-> r.byte, eop |-> r.eop], r.rest)

packet_queue_get_pkt(m, qid, v) ==
    AccessPackets(m, qid, v, TakenPackets(PacketQueue(m, qid, v)),
                             RemainingPackets(PacketQueue(m, qid, v)))

packet_queue_put_byte(m, qid, v, byte, eop) ==
    AccessPackets(m, qid, v, "none", PutPacketByte(PacketQueue(m, qid, v), byte, eop))

packet_queue_put_pkt(m, qid, v, pkt) ==
    AccessPackets(m, qid, v, "none", PutPacket(PacketQueue(m, qid, v), pkt))

-----------------------------------------------------------------------------
\* The list of VVCs

NewInstance(cfg) == [cfg           |-> cfg,
                     byte_queues   |-> [qid \in QueueIds |-> <<>>],
                     packet_queues |-> [qid \in QueueIds |-> EmptyPacketQueue]]

IsSet(bfm_cfg, name) == name \in DOMAIN bfm_cfg /\ bfm_cfg[name] # 0

\* The two options the server knows leave bfm_cfg for fields of their own.
VvcConfig(bfm_cfg) ==
    [listen_enable |-> FALSE,
     cosim_support |-> IsSet(bfm_cfg, "cosim_support"),
     packet_based  |-> IsSet(bfm_cfg, "packet_based"),
     bfm_cfg       |-> [k \in DOMAIN bfm_cfg \ {"cosim_support", "packet_based"} |-> bfm_cfg[k]]]

AddVvc(m, v, bfm_cfg) ==
    IF v \in DOMAIN m THEN Throws(m)
    ELSE Returns([k \in DOMAIN m \cup {v} |->
                    IF k = v THEN NewInstance(VvcConfig(bfm_cfg)) ELSE m[k]], "none")

\* The vector is in the order of the keys, which the model leaves out.
GetVvcList(m) == Returns(m, {[key |-> v, cfg |-> m[v].cfg] : v \in DOMAIN m})

SetVvcListenEnable(m, v, enable) ==
    IF v \in DOMAIN m THEN Returns([m EXCEPT ![v].cfg.listen_enable = enable], "none")
                      ELSE Throws(m)

GetVvcListenEnable(m, v) ==
    IF v \in DOMAIN m THEN Returns(m, m[v].cfg.listen_enable) ELSE Throws(m)

-----------------------------------------------------------------------------
\* The public functions: op with its arguments.
Perform(m, a) ==
    CASE a.op = "byte_queue_empty" -> byte_queue_empty(m, a.qid, a.vvc)
      [] a.op = "byte_queue_size" -> byte_queue_size(m, a.qid, a.vvc)
      [] a.op = "byte_queue_put" -> byte_queue_put(m, a.qid, a.vvc, a.data)
      [] a.op = "byte_queue_get" -> byte_queue_get(m, a.qid, a.vvc)
      [] a.op = "byte_queue_get_n" -> byte_queue_get_n(m, a.qid, a.vvc, a.n)
      [] a.op = "packet_queue_empty" -> packet_queue_empty(m, a.qid, a.vvc)
      [] a.op = "packet_queue_size" -> packet_queue_size(m, a.qid, a.vvc)
      [] a.op = "packet_queue_get_byte" -> packet_queue_get_byte(m, a.qid, a.vvc)
      [] a.op = "packet_queue_get_pkt" -> packet_queue_get_pkt(m, a.qid, a.vvc)
      [] a.op = "packet_queue_put_byte" -> packet_queue_put_byte(m, a.qid, a.vvc, a.byte, a.eop)
      [] a.op = "packet_queue_put_pkt" -> packet_queue_put_pkt(m, a.qid, a.vvc, a.data)
      [] a.op = "AddVvc" -> AddVvc(m, a.vvc, a.bfm_cfg)
      [] a.op = "GetVvcList" -> GetVvcList(m)
      [] a.op = "SetVvcListenEnable" -> SetVvcListenEnable(m, a.vvc, a.enable)
      [] a.op = "GetVvcListenEnable" -> GetVvcListenEnable(m, a.vvc)
=============================================================================
