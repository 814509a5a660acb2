----------------------------- MODULE CosimQueues -----------------------------
(***************************************************************************)
(* The two queue classes of the co-simulation server, as operators on      *)
(* their contents: ByteQueue (byte_queue.hpp), a sequence of bytes, and    *)
(* PacketQueue (packet_queue.hpp), a sequence of whole packets beside the  *)
(* buffer that put_byte fills until the end of a packet.                   *)
(***************************************************************************)
EXTENDS Integers, Sequences

CONSTANTS
    Byte,       \* the bytes a client sends or a VVC receives
    Zero        \* the byte 0, what a foreign get returns from an empty queue

ASSUME ByteAssumption == Zero \in Byte

-----------------------------------------------------------------------------
\* ByteQueue

\* put(const std::vector<uint8_t>&)
PutBytes(q, data) == q \o data

\* get(): the optional byte; "got" is whether the optional has a value.
GetByte(q) ==
    IF q = <<>> THEN [got |-> FALSE, byte |-> Zero, rest |-> q]
                ELSE [got |-> TRUE, byte |-> Head(q), rest |-> Tail(q)]

\* How many bytes get(N) takes: all of them when there are fewer than N, and
\* also when N is 0.
TakeCount(q, n) ==
    IF Len(q) < n \/ n = 0 THEN Len(q) ELSE n

\* Mutant: the bytes are taken from the end of the queue.
TakenBytes_Back(q, n) == SubSeq(q, Len(q) - TakeCount(q, n) + 1, Len(q))

\* get(size_t N): what it returns and what it leaves.
TakenBytes(q, n) == SubSeq(q, 1, TakeCount(q, n))

\* Mutant: the last byte returned stays in the queue.
RemainingBytes_OffByOne(q, n) ==
    IF q = <<>> THEN q ELSE SubSeq(q, TakeCount(q, n), Len(q))

RemainingBytes(q, n) == SubSeq(q, TakeCount(q, n) + 1, Len(q))

-----------------------------------------------------------------------------
\* PacketQueue, as a record of q and pkt_buff

EmptyPacketQueue == [q |-> <<>>, buff |-> <<>>]

\* Mutant: no check for an empty packet.
PutPacket_Empty(pq, pkt) == [pq EXCEPT !.q = Append(@, pkt)]

\* put_pkt: an empty packet is dropped.
PutPacket(pq, pkt) ==
    IF pkt = <<>> THEN pq ELSE [pq EXCEPT !.q = Append(@, pkt)]

\* Mutant: pkt_buff is not cleared at the end of a packet.
PutPacketByte_NoClear(pq, byte, eop) ==
    LET buff == Append(pq.buff, byte)
    IN  [q |-> IF eop THEN Append(pq.q, buff) ELSE pq.q, buff |-> buff]

\* put_byte: the packet becomes visible to readers at its last byte.
PutPacketByte(pq, byte, eop) ==
    IF eop THEN [q |-> Append(pq.q, Append(pq.buff, byte)), buff |-> <<>>]
           ELSE [pq EXCEPT !.buff = Append(@, byte)]

\* Mutant: a packet is not popped with its last byte.
GetPacketByte_NoPop(pq) ==
    IF pq.q = <<>> THEN
        [got |-> FALSE, throws |-> FALSE, byte |-> Zero, eop |-> FALSE, rest |-> pq]
    ELSE IF Head(pq.q) = <<>> THEN
        [got |-> FALSE, throws |-> TRUE, byte |-> Zero, eop |-> FALSE, rest |-> pq]
    ELSE [got |-> TRUE, throws |-> FALSE, byte |-> Head(Head(pq.q)),
          eop |-> Tail(Head(pq.q)) = <<>>,
          rest |-> [pq EXCEPT !.q = <<Tail(Head(@))>> \o Tail(@)]]

\* Mutant: the end flag comes one byte early, and the packet goes with it.
GetPacketByte_EndsEarly(pq) ==
    IF pq.q = <<>> THEN
        [got |-> FALSE, throws |-> FALSE, byte |-> Zero, eop |-> FALSE, rest |-> pq]
    ELSE LET first == Head(pq.q)
             eop   == Len(first) <= 2
         IN  [got |-> TRUE, throws |-> FALSE, byte |-> Head(first), eop |-> eop,
              rest |-> [pq EXCEPT !.q = IF eop THEN Tail(@)
                                               ELSE <<Tail(first)>> \o Tail(@)]]

\* get_byte: the first byte of the first packet and whether it ends the packet.
\* It throws when the first packet is empty.
GetPacketByte(pq) ==
    IF pq.q = <<>> THEN
        [got |-> FALSE, throws |-> FALSE, byte |-> Zero, eop |-> FALSE, rest |-> pq]
    ELSE IF Head(pq.q) = <<>> THEN
        [got |-> FALSE, throws |-> TRUE, byte |-> Zero, eop |-> FALSE, rest |-> pq]
    ELSE LET first == Head(pq.q)
             eop   == Tail(first) = <<>>
         IN  [got |-> TRUE, throws |-> FALSE, byte |-> Head(first), eop |-> eop,
              rest |-> [pq EXCEPT !.q = IF eop THEN Tail(@)
                                               ELSE <<Tail(first)>> \o Tail(@)]]

\* get_pkt: the packets taken from the queue, none or the first one, and what
\* is left.
TakenPackets(pq) == IF pq.q = <<>> THEN <<>> ELSE <<Head(pq.q)>>

RemainingPackets(pq) == IF pq.q = <<>> THEN pq ELSE [pq EXCEPT !.q = Tail(@)]
=============================================================================
