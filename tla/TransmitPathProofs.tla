-------------------------- MODULE TransmitPathProofs --------------------------
(***************************************************************************)
(* Proofs about TransmitPath, for any set of VVCs, any payloads and any    *)
(* limits.                                                                 *)
(***************************************************************************)
EXTENDS TransmitPath, StreamFacts

-----------------------------------------------------------------------------
(* Queue operators                                                          *)

\* What get() returns and leaves is typed, and it takes the first byte.
LEMMA GetByteFacts ==
    ASSUME NEW q \in Seq(Byte)
    PROVE  /\ GetByte(q).byte \in Byte
           /\ GetByte(q).rest \in Seq(Byte)
           /\ GetByte(q).got <=> q # <<>>
           /\ q # <<>> => <<GetByte(q).byte>> \o GetByte(q).rest = q
BY ByteAssumption, HeadTailProperties DEF GetByte

Packet == Seq(Byte) \ {<<>>}
PacketQueue == [q : Seq(Packet), buff : {<<>>}]

\* get_byte leaves no empty packet, never throws when there is none, and splits
\* the first byte off the first packet.
LEMMA GetPacketByteFacts ==
    ASSUME NEW pq \in PacketQueue
    PROVE  LET got == GetPacketByte(pq) IN
           /\ got.byte \in Byte
           /\ got.rest \in PacketQueue
           /\ ~got.throws
           /\ got.got <=> pq.q # <<>>
           /\ pq.q # <<>> /\ got.eop =>
                /\ Head(pq.q) = <<got.byte>>
                /\ got.rest.q = Tail(pq.q)
           /\ pq.q # <<>> /\ ~got.eop =>
                /\ got.rest.q # <<>>
                /\ Head(pq.q) = <<got.byte>> \o Head(got.rest.q)
                /\ Tail(got.rest.q) = Tail(pq.q)
           /\ pq.q = <<>> => ~got.eop
<1> DEFINE first == Head(pq.q)
<1>1. CASE pq.q = <<>>
  BY <1>1, ByteAssumption DEF GetPacketByte, PacketQueue
<1>2. CASE pq.q # <<>> /\ Tail(first) = <<>>
  <2> DEFINE new == [pq EXCEPT !.q = Tail(pq.q)]
  <2>1. first \in Packet /\ Tail(pq.q) \in Seq(Packet)
    BY <1>2, HeadTailProperties DEF PacketQueue
  <2>2. Head(first) \in Byte /\ first = <<Head(first)>>
    <3> HIDE DEF first
    <3>1. QED
      BY <1>2, <2>1, HeadThenTail, NoTail DEF Packet
  <2>3. GetPacketByte(pq) = [got |-> TRUE, throws |-> FALSE, byte |-> Head(first), eop |-> TRUE,
                             rest |-> new]
    BY <1>2, <2>1 DEF GetPacketByte, PacketQueue, Packet
  <2>4. new \in PacketQueue /\ new.q = Tail(pq.q)
    BY <2>1 DEF PacketQueue
  <2>5. QED
    <3> HIDE DEF new, first
    <3>1. Head(pq.q) = first
      BY DEF first
    <3>2. QED
      BY <1>2, <2>2, <2>3, <2>4, <3>1
<1>3. CASE pq.q # <<>> /\ Tail(first) # <<>>
  <2> DEFINE rest == <<Tail(first)>> \o Tail(pq.q)
             new == [pq EXCEPT !.q = rest]
  <2>1. first \in Packet /\ Tail(pq.q) \in Seq(Packet)
    BY <1>3, HeadTailProperties DEF PacketQueue
  <2>2. Head(first) \in Byte /\ Tail(first) \in Packet /\ first = <<Head(first)>> \o Tail(first)
    <3> HIDE DEF first
    <3>1. QED
      BY <1>3, <2>1, HeadThenTail DEF Packet
  <2>3. rest \in Seq(Packet) /\ rest # <<>> /\ Head(rest) = Tail(first) /\ Tail(rest) = Tail(pq.q)
    <3> HIDE DEF first
    <3>1. QED
      BY <2>1, <2>2, InFront
  <2>4. GetPacketByte(pq) = [got |-> TRUE, throws |-> FALSE, byte |-> Head(first), eop |-> FALSE,
                             rest |-> new]
    BY <1>3, <2>1 DEF GetPacketByte, PacketQueue, Packet
  <2>5. new \in PacketQueue /\ new.q = rest
    <3> HIDE DEF rest
    <3>1. QED
      BY <2>3 DEF PacketQueue
  <2>6. QED
    <3> HIDE DEF new, rest, first
    <3>1. Head(pq.q) = first
      BY DEF first
    <3> DEFINE got == GetPacketByte(pq)
    <3>2. /\ got.got /\ ~got.throws /\ ~got.eop
          /\ got.byte = Head(first) /\ got.rest = new
      BY <2>4
    <3>3. got.rest.q = rest
      BY <2>5, <3>2
    <3> HIDE DEF got
    <3>4. QED
      BY <1>3, <2>2, <2>3, <2>5, <3>1, <3>2, <3>3 DEF got
<1>4. QED
  BY <1>1, <1>2, <1>3

\* put_pkt appends a packet unless it is empty.
LEMMA PutPacketFacts ==
    ASSUME NEW pq \in PacketQueue, NEW pkt \in Seq(Byte)
    PROVE  /\ PutPacket(pq, pkt) \in PacketQueue
           /\ PutPacket(pq, pkt).q = IF pkt = <<>> THEN pq.q ELSE Append(pq.q, pkt)
BY AppendProperties DEF PutPacket, PacketQueue, Packet

-----------------------------------------------------------------------------
(* Types                                                                    *)

LEMMA TypeInit == Init => TypeOK
<1>1. <<>> \in Seq(Byte) /\ <<>> \in Seq(Seq(Byte)) /\ <<>> \in Seq(Seq(Byte) \ {<<>>})
  BY EmptySeq
<1>2. EmptyPacketQueue \in [q : Seq(Seq(Byte) \ {<<>>}), buff : {<<>>}]
  BY <1>1 DEF EmptyPacketQueue
<1>3. ASSUME Init
      PROVE  /\ RegistryTypeOK
             /\ byteTx \in [Vvcs -> Seq(Byte)]
             /\ buf \in [Vvcs -> Seq(Byte)]
             /\ pending \in [Vvcs -> Nat]
             /\ reply \in {"none", "success", "error"}
             /\ pc \in [Vvcs -> {"init", "clock", "poll", "get", "send", "dead"}]
             /\ faults \in [Vvcs -> SUBSET {"dry", "throw", "oversize"}]
  BY <1>1, <1>3 DEF Init, RegistryTypeOK
<1>4. Init => packetTx \in [Vvcs -> [q : Seq(Seq(Byte) \ {<<>>}), buff : {<<>>}]]
  BY <1>2 DEF Init
<1>5. Init => /\ DOMAIN accepted = Vvcs /\ DOMAIN sent = Vvcs
              /\ \A v \in Vvcs : accepted[v] = <<>> /\ sent[v] = <<>>
  BY DEF Init
<1>6. Init => \A v \in PacketVvcs : accepted[v] = <<>> /\ sent[v] = <<>>
  BY <1>5, VvcsAssumption
<1>7. QED
  BY <1>1, <1>3, <1>4, <1>5, <1>6 DEF TypeOK

LEMMA TypeStep == TypeOK /\ [Next]_vars => TypeOK'
<1> SUFFICES ASSUME TypeOK, [Next]_vars
             PROVE  TypeOK'
  OBVIOUS
<1> USE DEF TypeOK, RegistryTypeOK
<1>1. ASSUME NEW t \in Targets, NEW data \in Data, TransmitBytes(t, data)
      PROVE  TypeOK'
  <2> DEFINE v == TxKey(t)
  <2>1. CASE reply' = "error" /\ UNCHANGED <<byteTx, accepted>>
    BY <1>1, <2>1 DEF TransmitBytes, controller
  <2>2. CASE /\ HasByteQueue(v)
             /\ byteTx' = [byteTx EXCEPT ![v] = PutBytes(@, data)]
             /\ accepted' = [accepted EXCEPT ![v] = @ \o data]
             /\ reply' = "success"
    <3>1. v \in Vvcs /\ v \notin PacketVvcs /\ data \in Seq(Byte)
      BY <2>2, DataAssumption DEF HasByteQueue
    <3> HIDE DEF v
    <3>2. byteTx[v] \o data \in Seq(Byte) /\ accepted[v] \o data \in Seq(Byte)
      BY <3>1, ConcatProperties
    <3>3. /\ byteTx' \in [Vvcs -> Seq(Byte)]
          /\ UNCHANGED <<registered, packetTx, pc, buf, pending, faults, sent>>
      BY <1>1, <2>2, <3>1, <3>2 DEF TransmitBytes, controller, PutBytes
    <3>4. /\ DOMAIN accepted' = Vvcs
          /\ \A w \in Vvcs \ PacketVvcs : accepted'[w] \in Seq(Byte)
          /\ \A w \in PacketVvcs : accepted'[w] = accepted[w]
      BY <2>2, <3>1, <3>2, VvcsAssumption
    <3>5. QED
      BY <2>2, <3>3, <3>4
  <2>3. QED
    BY <1>1, <2>1, <2>2 DEF TransmitBytes
<1>2. ASSUME NEW t \in Targets, NEW data \in Data, TransmitPacket(t, data)
      PROVE  TypeOK'
  <2> DEFINE v == PacketKey(t)
  <2>1. CASE reply' = "error" /\ UNCHANGED <<packetTx, accepted>>
    BY <1>2, <2>1 DEF TransmitPacket, controller
  <2>2. CASE /\ HasPacketQueue(v)
             /\ packetTx' = [packetTx EXCEPT ![v] = PutPacket(@, data)]
             /\ accepted' = [accepted EXCEPT ![v] = IF data = <<>> THEN @ ELSE Append(@, data)]
             /\ reply' = "success"
    <3>1. v \in Vvcs /\ v \in PacketVvcs /\ data \in Seq(Byte)
      BY <2>2, DataAssumption DEF HasPacketQueue
    <3> HIDE DEF v
    <3>2. packetTx[v] \in PacketQueue
      BY <3>1 DEF PacketQueue, Packet
    <3>3. PutPacket(packetTx[v], data) \in PacketQueue
      BY <3>1, <3>2, PutPacketFacts
    <3>4. Append(accepted[v], data) \in Seq(Seq(Byte))
      BY <3>1, AppendProperties
    <3>5. QED
      BY <1>2, <2>2, <3>1, <3>3, <3>4 DEF TransmitPacket, controller, PacketQueue, Packet
  <2>3. QED
    BY <1>2, <2>1, <2>2 DEF TransmitPacket
<1>3. ASSUME NEW v \in Vvcs, ReportVvc(v)
      PROVE  TypeOK'
  BY <1>3 DEF ReportVvc, AddVvc, server, controller
<1>4. ASSUME NEW v \in Vvcs, Enable(v) \/ ClockEdge(v) \/ Poll(v)
      PROVE  TypeOK'
  BY <1>4 DEF Enable, ClockEdge, Poll, server
<1>5. ASSUME NEW v \in Vvcs, FetchByte(v)
      PROVE  TypeOK'
  <2>1. GetByte(byteTx[v]).byte \in Byte /\ GetByte(byteTx[v]).rest \in Seq(Byte)
    BY GetByteFacts
  <2>2. Append(buf[v], GetByte(byteTx[v]).byte) \in Seq(Byte)
    BY <2>1, AppendProperties
  <2>3. QED
    BY <1>5, <2>1, <2>2 DEF FetchByte
<1>6. ASSUME NEW v \in Vvcs, FetchPacketByte(v)
      PROVE  TypeOK'
  <2> DEFINE got == GetPacketByte(packetTx[v])
  <2>1. packetTx[v] \in PacketQueue
    BY DEF PacketQueue, Packet
  <2>2. got.byte \in Byte /\ got.rest \in PacketQueue
    BY <2>1, GetPacketByteFacts
  <2>3. Append(buf[v], got.byte) \in Seq(Byte)
    BY <2>2, AppendProperties
  <2> HIDE DEF got
  <2>4. QED
    BY <1>6, <2>2, <2>3 DEF FetchPacketByte, got, PacketQueue, Packet
<1>7. ASSUME NEW v \in Vvcs, Oversize(v)
      PROVE  TypeOK'
  BY <1>7 DEF Oversize, server
<1>8. ASSUME NEW v \in Vvcs, SendCommand(v)
      PROVE  TypeOK'
  <2>1. v \in PacketVvcs => Append(sent[v], buf[v]) \in Seq(Seq(Byte))
    BY AppendProperties
  <2>2. v \notin PacketVvcs => sent[v] \o buf[v] \in Seq(Byte)
    BY ConcatProperties
  <2>3. QED
    BY <1>8, <2>1, <2>2, EmptySeq DEF SendCommand, server
<1>9. ASSUME NEW v \in Vvcs, VvcExecute(v)
      PROVE  TypeOK'
  BY <1>9 DEF VvcExecute, server
<1>10. CASE UNCHANGED vars
  BY <1>10 DEF vars, server, controller
<1>11. QED
  BY <1>1, <1>2, <1>3, <1>4, <1>5, <1>6, <1>7, <1>8, <1>9, <1>10
     DEF Next, Rpc, TransmitProcess

\* The variables have their types in every reachable state; in particular no
\* packet of a transmit queue is empty, so get_byte never throws for one.
THEOREM TypeCorrect == Spec => []TypeOK
BY TypeInit, TypeStep, PTL DEF Spec

-----------------------------------------------------------------------------
(* The controller's loop                                                    *)

\* What p_transmit of v knows where it is: the queue it is about to get from
\* holds data and the command queue has room, from the poll that saw both until
\* the command is sent, since nobody else takes from the queue or adds commands.
LoopInv(v) ==
    /\ pc[v] # "dead"
    /\ pc[v] \in {"init", "clock"} => buf[v] = <<>>
    /\ pc[v] = "poll" /\ (IsUart(v) \/ v \in PacketVvcs) => buf[v] = <<>>
    /\ pc[v] = "send" => buf[v] # <<>>
    /\ pc[v] = "get" => ~QueueEmpty(v)
    /\ pc[v] = "get" /\ IsUart(v) => buf[v] = <<>>
    /\ pc[v] = "get" /\ v \notin PacketVvcs => Len(buf[v]) < MaxCmdBytes
    /\ Len(buf[v]) <= MaxCmdBytes
    /\ faults[v] \subseteq {"oversize"}
    /\ pending[v] <= CmdMax(v)
    /\ pc[v] \in {"get", "send"} \/ buf[v] # <<>> => pending[v] < CmdMax(v)

Loops == \A v \in Vvcs : LoopInv(v)

\* A step that leaves the process of v alone, does not empty its queue and does
\* not add commands keeps LoopInv(v).
LEMMA LoopFrame ==
    ASSUME NEW v \in Vvcs, TypeOK, TypeOK', LoopInv(v),
           pc'[v] = pc[v], buf'[v] = buf[v], faults'[v] = faults[v],
           pending'[v] <= pending[v],
           QueueEmpty(v)' => QueueEmpty(v)
    PROVE  LoopInv(v)'
<1>1. pending[v] \in Nat /\ pending'[v] \in Nat /\ CmdMax(v) \in Nat
  BY CommandAssumption DEF TypeOK, CmdMax
<1>2. QED
  BY <1>1 DEF LoopInv, CmdMax, IsUart

LEMMA LoopInit == Init => Loops
<1> SUFFICES ASSUME Init, NEW v \in Vvcs
             PROVE  LoopInv(v)
  BY DEF Loops
<1>1. QED
  BY CommandAssumption, EmptySeq DEF Init, LoopInv, CmdMax

LEMMA LoopStep == TypeOK /\ TypeOK' /\ Loops /\ [Next]_vars => Loops'
<1> SUFFICES ASSUME TypeOK, TypeOK', Loops, [Next]_vars, NEW v \in Vvcs
             PROVE  LoopInv(v)'
  BY DEF Loops
<1>a. LoopInv(v)
  BY DEF Loops
<1>b. /\ buf[v] \in Seq(Byte) /\ Len(buf[v]) \in Nat /\ pending[v] \in Nat
      /\ CmdMax(v) \in Nat \ {0} /\ MaxCmdBytes \in Nat \ {0}
  BY CommandAssumption, LenProperties DEF TypeOK, CmdMax
<1>c. v \in PacketVvcs => ~IsUart(v)
  BY VvcsAssumption DEF IsUart
<1>1. ASSUME NEW t \in Targets, NEW data \in Data, TransmitBytes(t, data)
      PROVE  LoopInv(v)'
  <2>1. UNCHANGED <<pc, buf, faults, pending, packetTx>>
    BY <1>1 DEF TransmitBytes, controller
  <2>2. byteTx'[v] = <<>> => byteTx[v] = <<>>
    <3>1. data \in Seq(Byte) /\ byteTx[v] \in Seq(Byte)
      BY DataAssumption DEF TypeOK
    <3>2. byteTx[v] \o data = <<>> => byteTx[v] = <<>>
      BY <3>1, ConcatEqualIffEmpty
    <3>3. byteTx'[v] = byteTx[v] \/ byteTx'[v] = byteTx[v] \o data
      <4> DEFINE k == TxKey(t)
      <4>1. byteTx' = byteTx \/ byteTx' = [byteTx EXCEPT ![k] = byteTx[k] \o data]
        BY <1>1 DEF TransmitBytes, PutBytes
      <4> HIDE DEF k
      <4>2. QED
        <5>1. DOMAIN byteTx = Vvcs /\ v \in Vvcs
          BY DEF TypeOK
        <5>2. QED
          BY <4>1, <5>1
    <3>4. QED
      BY <3>2, <3>3
  <2>3. QED
    BY <1>a, <1>b, <2>1, <2>2, LoopFrame DEF QueueEmpty
<1>2. ASSUME NEW t \in Targets, NEW data \in Data, TransmitPacket(t, data)
      PROVE  LoopInv(v)'
  <2>1. UNCHANGED <<pc, buf, faults, pending, byteTx>>
    BY <1>2 DEF TransmitPacket, controller
  <2>2. packetTx'[v].q = <<>> => packetTx[v].q = <<>>
    <3>1. data \in Seq(Byte) /\ packetTx[v] \in PacketQueue
      BY DataAssumption DEF TypeOK, PacketQueue, Packet
    <3>2. PutPacket(packetTx[v], data).q = <<>> => packetTx[v].q = <<>>
      <4>1. data # <<>> => Append(packetTx[v].q, data) # <<>>
        BY <3>1, AppendProperties DEF PacketQueue, Packet
      <4>2. QED
        BY <3>1, <4>1, PutPacketFacts
    <3>3. packetTx'[v] = packetTx[v] \/ packetTx'[v] = PutPacket(packetTx[v], data)
      BY <1>2 DEF TransmitPacket, TypeOK
    <3>4. QED
      BY <3>2, <3>3
  <2>3. QED
    BY <1>a, <1>b, <2>1, <2>2, LoopFrame DEF QueueEmpty
<1>3. ASSUME NEW u \in Vvcs, ReportVvc(u)
      PROVE  LoopInv(v)'
  BY <1>3, <1>a, <1>b, LoopFrame DEF ReportVvc, server, controller, QueueEmpty
<1>4. ASSUME NEW u \in Vvcs, u # v, TransmitProcess(u)
      PROVE  LoopInv(v)'
  <2>1. /\ pc'[v] = pc[v] /\ buf'[v] = buf[v] /\ faults'[v] = faults[v]
        /\ pending'[v] = pending[v] /\ byteTx'[v] = byteTx[v] /\ packetTx'[v] = packetTx[v]
    BY <1>4, SMTT(30) DEF TransmitProcess, Enable, ClockEdge, Poll, FetchByte, FetchPacketByte,
                Oversize, SendCommand, server, TypeOK
  <2>2. QED
    BY <1>a, <1>b, <2>1, LoopFrame DEF QueueEmpty
<1>5. CASE Enable(v) \/ ClockEdge(v)
  BY <1>5, <1>a, <1>b DEF Enable, ClockEdge, server, LoopInv, TypeOK, CmdMax, IsUart
<1>6. CASE Poll(v)
  BY <1>6, <1>a, <1>b, <1>c DEF Poll, MayFetch, CommandFull, BufferFull, QueueEmpty, server,
                                LoopInv, TypeOK, CmdMax, IsUart
<1>7. CASE FetchByte(v)
  <2>1. byteTx[v] \in Seq(Byte) /\ byteTx[v] # <<>> /\ v \notin PacketVvcs
    BY <1>7, <1>a DEF FetchByte, LoopInv, QueueEmpty, TypeOK
  <2> DEFINE got == GetByte(byteTx[v])
  <2>2. got.got /\ got.byte \in Byte
    BY <2>1, GetByteFacts
  <2> HIDE DEF got
  <2>3. Append(buf[v], got.byte) # <<>> /\ Len(Append(buf[v], got.byte)) = Len(buf[v]) + 1
    BY <1>b, <2>2, AppendProperties
  <2>4. /\ buf'[v] = Append(buf[v], got.byte) /\ faults'[v] = faults[v]
        /\ pc'[v] = IF IsUart(v) THEN "send" ELSE "poll"
        /\ pending'[v] = pending[v]
    BY <1>7, <2>2 DEF FetchByte, got, TypeOK
  <2>5. pc[v] = "get"
    BY <1>7 DEF FetchByte
  <2>6. QED
    BY <1>a, <1>b, <2>1, <2>3, <2>4, <2>5 DEF LoopInv, CmdMax, IsUart
<1>8. CASE FetchPacketByte(v)
  <2>1. packetTx[v] \in PacketQueue /\ packetTx[v].q # <<>> /\ v \in PacketVvcs
    BY <1>8, <1>a DEF FetchPacketByte, LoopInv, QueueEmpty, TypeOK, PacketQueue, Packet
  <2> DEFINE got == GetPacketByte(packetTx[v])
  <2>2. got.got /\ ~got.throws /\ got.byte \in Byte /\ (~got.eop => got.rest.q # <<>>)
    BY <2>1, GetPacketByteFacts
  <2> HIDE DEF got
  <2>3. Append(buf[v], got.byte) # <<>> /\ Len(Append(buf[v], got.byte)) = Len(buf[v]) + 1
    BY <1>b, <2>2, AppendProperties
  <2>4. /\ buf'[v] = Append(buf[v], got.byte) /\ faults'[v] = faults[v]
        /\ pc'[v] = IF got.eop THEN "send" ELSE "get"
        /\ pending'[v] = pending[v] /\ packetTx'[v] = got.rest
    BY <1>8, <2>2 DEF FetchPacketByte, got, TypeOK
  <2>5. pc[v] = "get" /\ Len(buf[v]) # MaxCmdBytes
    BY <1>8 DEF FetchPacketByte, BufferFull
  <2>6. QED
    BY <1>a, <1>b, <1>c, <2>1, <2>2, <2>3, <2>4, <2>5 DEF LoopInv, CmdMax, IsUart, QueueEmpty
<1>9. CASE Oversize(v)
  <2>1. /\ pc[v] = "get" /\ Len(buf[v]) = MaxCmdBytes /\ pc'[v] = "send"
        /\ buf'[v] = buf[v] /\ pending'[v] = pending[v]
        /\ faults'[v] = faults[v] \cup {"oversize"}
    BY <1>9 DEF Oversize, BufferFull, server, TypeOK
  <2>2. buf[v] # <<>>
    BY <1>b, <2>1, EmptySeq
  <2>3. QED
    BY <1>a, <1>b, <2>1, <2>2 DEF LoopInv, CmdMax, IsUart
<1>10. CASE SendCommand(v)
  <2>1. /\ pc[v] = "send" /\ pc'[v] = "poll" /\ buf'[v] = <<>>
        /\ pending'[v] = pending[v] + 1 /\ faults'[v] = faults[v]
    BY <1>10 DEF SendCommand, TypeOK
  <2>2. QED
    BY <1>a, <1>b, <2>1, EmptySeq DEF LoopInv, CmdMax, IsUart
<1>11. ASSUME NEW u \in Vvcs, VvcExecute(u)
       PROVE  LoopInv(v)'
  <2>1. pending'[v] <= pending[v]
    BY <1>11, <1>b DEF VvcExecute, TypeOK
  <2>2. QED
    BY <1>11, <1>a, <2>1, LoopFrame DEF VvcExecute, server, QueueEmpty
<1>12. CASE UNCHANGED vars
  BY <1>12, <1>a, <1>b, LoopFrame DEF vars, server, controller, QueueEmpty
<1>13. QED
  BY <1>1, <1>2, <1>3, <1>4, <1>5, <1>6, <1>7, <1>8, <1>9, <1>10, <1>11, <1>12
     DEF Next, Rpc, TransmitProcess

LEMMA LoopsHold == Spec => []Loops
<1>1. Init => TypeOK /\ Loops
  BY TypeInit, LoopInit
<1>2. TypeOK /\ Loops /\ [Next]_vars => (TypeOK /\ Loops)'
  BY TypeStep, LoopStep
<1>3. QED
  BY <1>1, <1>2, PTL DEF Spec

\* The foreign gets always find data: p_transmit is the only reader.
THEOREM GetAlwaysFindsData == Spec => []GetFindsData
<1>1. Loops => GetFindsData
  BY DEF Loops, LoopInv, GetFindsData
<1>2. QED
  BY <1>1, LoopsHold, PTL

\* p_transmit never drives a VVC's command queue beyond its limit, nor a command
\* beyond its buffer.
THEOREM CommandQueueNeverOverflows == Spec => []CommandQueueBounded
<1>1. Loops => CommandQueueBounded
  BY DEF Loops, LoopInv, CommandQueueBounded
<1>2. QED
  BY <1>1, LoopsHold, PTL

-----------------------------------------------------------------------------
(* The order of bytes                                                       *)

\* The three parts of a stream when something is added at the end, and when a part
\* moves from the last to the middle one.  The names for the set of byte sequences
\* and for the whole stream keep their definitions from the provers.
Bytes == Seq(Byte)
Whole(out, held, queued) == out \o held \o queued

LEMMA ConcatTyped == \A x, y \in Bytes : x \o y \in Bytes
BY ConcatProperties DEF Bytes

LEMMA ConcatRegroups ==
    \A x, y, z \in Bytes : (x \o y) \o z = x \o (y \o z)
BY ConcatAssociative, SMTT(60) DEF Bytes

LEMMA GrowBytes ==
    \A s, b, q, d \in Bytes : PutBytes(Whole(s, b, q), d) = Whole(s, b, PutBytes(q, d))
<1> TAKE s, b, q, d \in Bytes
<1> DEFINE sb == s \o b
<1>1. sb \in Bytes
  BY ConcatTyped
<1> HIDE DEF sb
<1>2. (sb \o q) \o d = sb \o (q \o d)
  BY <1>1, ConcatRegroups
<1>3. QED
  BY <1>2 DEF sb, Whole, PutBytes

LEMMA MoveBytes ==
    \A s, b, h, r \in Bytes : Whole(s, b, h \o r) = Whole(s, b \o h, r)
<1> TAKE s, b, h, r \in Bytes
<1> DEFINE sb == s \o b
<1>1. sb \in Bytes
  BY ConcatTyped
<1> HIDE DEF sb
<1>2. (sb \o h) \o r = sb \o (h \o r)
  BY <1>1, ConcatRegroups
<1>3. (s \o b) \o h = s \o (b \o h)
  BY ConcatRegroups
<1>4. QED
  BY <1>2, <1>3 DEF sb, Whole

LEMMA BytesInit == Init => BytesInOrder
<1> SUFFICES ASSUME Init, NEW v \in Vvcs \ PacketVvcs
             PROVE  accepted[v] = sent[v] \o buf[v] \o byteTx[v]
  BY DEF BytesInOrder
<1>1. <<>> \o <<>> \o <<>> = <<>>
  BY EmptySeq, ConcatEmptySeq
<1>2. QED
  BY <1>1 DEF Init

LEMMA BytesStep == TypeOK /\ Loops /\ BytesInOrder /\ [Next]_vars => BytesInOrder'
<1> SUFFICES ASSUME TypeOK, Loops, BytesInOrder, [Next]_vars, NEW v \in Vvcs \ PacketVvcs
             PROVE  accepted'[v] = sent'[v] \o buf'[v] \o byteTx'[v]
  BY DEF BytesInOrder
<1> DEFINE a == accepted[v]  s == sent[v]  b == buf[v]  q == byteTx[v]
<1>a. a = s \o b \o q
  BY DEF BytesInOrder
<1>b. a \in Seq(Byte) /\ s \in Seq(Byte) /\ b \in Seq(Byte) /\ q \in Seq(Byte) /\ v \in Vvcs
  BY DEF TypeOK
<1>1. ASSUME NEW t \in Targets, NEW data \in Data, TransmitBytes(t, data)
      PROVE  accepted'[v] = sent'[v] \o buf'[v] \o byteTx'[v]
  <2> DEFINE k == TxKey(t)
  <2>1. \/ byteTx' = byteTx /\ accepted' = accepted
        \/ /\ byteTx' = [byteTx EXCEPT ![k] = byteTx[k] \o data]
           /\ accepted' = [accepted EXCEPT ![k] = accepted[k] \o data]
    BY <1>1 DEF TransmitBytes, PutBytes
  <2> HIDE DEF k
  <2>2. sent' = sent /\ buf' = buf
    BY <1>1 DEF TransmitBytes, controller
  <2>3. CASE byteTx'[v] = q /\ accepted'[v] = a
    BY <1>a, <2>2, <2>3
  <2>4. CASE byteTx'[v] = q \o data /\ accepted'[v] = a \o data
    <3>1. s \in Bytes /\ b \in Bytes /\ q \in Bytes /\ data \in Bytes
      BY <1>b, DataAssumption DEF Bytes
    <3> HIDE DEF a, s, b, q
    <3>2. PutBytes(Whole(s, b, q), data) = Whole(s, b, PutBytes(q, data))
      BY <3>1, GrowBytes
    <3>3. sent'[v] = s /\ buf'[v] = b
      BY <2>2 DEF s, b
    <3>4. QED
      BY <1>a, <2>4, <3>2, <3>3 DEF Whole, PutBytes
  <2>5. QED
    BY <1>b, <2>1, <2>3, <2>4 DEF TypeOK
<1>2. ASSUME NEW t \in Targets, NEW data \in Data, TransmitPacket(t, data)
      PROVE  accepted'[v] = sent'[v] \o buf'[v] \o byteTx'[v]
  <2>1. sent' = sent /\ buf' = buf /\ byteTx' = byteTx
    BY <1>2 DEF TransmitPacket, controller
  <2>2. accepted'[v] = a
    <3> DEFINE k == PacketKey(t)
    <3>1. \/ accepted' = accepted
          \/ HasPacketQueue(k) /\ \E new : accepted' = [accepted EXCEPT ![k] = new]
      BY <1>2 DEF TransmitPacket
    <3> HIDE DEF k
    <3>2. QED
      BY <3>1 DEF HasPacketQueue, TypeOK
  <2>3. QED
    BY <1>a, <2>1, <2>2
<1>3. ASSUME NEW u \in Vvcs, ReportVvc(u) \/ VvcExecute(u)
      PROVE  accepted'[v] = sent'[v] \o buf'[v] \o byteTx'[v]
  BY <1>3, <1>a DEF ReportVvc, VvcExecute, server, controller
<1>4. ASSUME NEW u \in Vvcs, u # v, TransmitProcess(u)
      PROVE  accepted'[v] = sent'[v] \o buf'[v] \o byteTx'[v]
  <2>1. accepted' = accepted /\ sent'[v] = s /\ buf'[v] = b /\ byteTx'[v] = q
    BY <1>4, SMTT(30) DEF TransmitProcess, Enable, ClockEdge, Poll, FetchByte, FetchPacketByte,
                Oversize, SendCommand, server, TypeOK
  <2>2. QED
    BY <1>a, <2>1
<1>5. CASE Enable(v) \/ ClockEdge(v) \/ Poll(v) \/ Oversize(v) \/ UNCHANGED vars
  BY <1>5, <1>a DEF Enable, ClockEdge, Poll, Oversize, vars, server, controller
<1>6. CASE FetchByte(v)
  <2> DEFINE got == GetByte(q)
  <2>1. q # <<>>
    BY <1>6 DEF Loops, LoopInv, QueueEmpty, FetchByte
  <2>2. got.byte \in Byte /\ got.rest \in Seq(Byte) /\ q = <<got.byte>> \o got.rest
    BY <1>b, <2>1, GetByteFacts
  <2>3. /\ accepted'[v] = a /\ sent'[v] = s
        /\ buf'[v] = Append(b, got.byte) /\ byteTx'[v] = got.rest
    BY <1>6, <1>b DEF FetchByte, TypeOK
  <2> HIDE DEF got
  <2>4. s \o b \o (<<got.byte>> \o got.rest) = s \o Append(b, got.byte) \o got.rest
    <3> DEFINE h == <<got.byte>>  r == got.rest
    <3>1. s \in Bytes /\ b \in Bytes /\ h \in Bytes /\ r \in Bytes
      BY <1>b, <2>2 DEF Bytes
    <3>2. Append(b, got.byte) = b \o h
      BY <1>b, <2>2, AppendIsConcat
    <3> HIDE DEF a, s, b, q, h, r
    <3>3. Whole(s, b, h \o r) = Whole(s, b \o h, r)
      BY <3>1, MoveBytes
    <3>4. QED
      BY <3>2, <3>3 DEF h, r, Whole
  <2>5. QED
    BY <1>a, <2>2, <2>3, <2>4
<1>7. CASE SendCommand(v)
  <2>1. accepted'[v] = a /\ sent'[v] = s \o b /\ buf'[v] = <<>> /\ byteTx'[v] = q
    BY <1>7, <1>b DEF SendCommand, server, TypeOK
  <2>2. (s \o b) \o <<>> = s \o b
    BY <1>b, ConcatProperties, ConcatEmptySeq
  <2>3. QED
    BY <1>a, <2>1, <2>2
<1>8. CASE FetchPacketByte(v)
  BY <1>8 DEF FetchPacketByte
<1>9. QED
  BY <1>1, <1>2, <1>3, <1>4, <1>5, <1>6, <1>7, <1>8 DEF Next, Rpc, TransmitProcess

\* Bytes reach the commands of a VVC in the order in which their requests were
\* accepted, none lost and none twice, for any number of clients and VVCs.
THEOREM BytesStayInOrder == Spec => []BytesInOrder
<1>1. TypeOK /\ Loops /\ BytesInOrder /\ [Next]_vars => BytesInOrder'
  BY BytesStep
<1>2. QED
  BY <1>1, BytesInit, TypeCorrect, LoopsHold, PTL DEF Spec

-----------------------------------------------------------------------------
(* The order of packets                                                     *)

PacketLists == Seq(Seq(Byte))

LEMMA PacketsAreLists == \A s \in Seq(Packet) : s \in PacketLists
BY SeqMonotonic, Seq(Byte) \ {<<>>} \subseteq Seq(Byte) DEF Packet, PacketLists

LEMMA ListsConcat == \A x, y \in PacketLists : x \o y \in PacketLists
BY ConcatProperties DEF PacketLists

LEMMA ListsRegroup == \A x, y, z \in PacketLists : (x \o y) \o z = x \o (y \o z)
BY ConcatAssociative, SMTT(60) DEF PacketLists

LEMMA OneIsList == \A x \in Bytes : <<x>> \in PacketLists
BY DEF Bytes, PacketLists

LEMMA AppendIsMore ==
    \A s \in PacketLists, x \in Bytes : Append(s, x) = s \o <<x>>
BY AppendIsConcat DEF Bytes, PacketLists

\* The first packet of a queue and the others
LEMMA FirstPacket ==
    ASSUME NEW q \in Seq(Packet), q # <<>>
    PROVE  /\ Head(q) \in Bytes /\ Tail(q) \in Seq(Packet) /\ Tail(q) \in PacketLists
           /\ q = <<Head(q)>> \o Tail(q)
<1>1. Head(q) \in Packet /\ Tail(q) \in Seq(Packet) /\ q = <<Head(q)>> \o Tail(q)
  BY HeadThenTail
<1>2. Head(q) \in Bytes
  BY <1>1 DEF Packet, Bytes
<1>3. QED
  BY <1>1, <1>2, PacketsAreLists

\* While p_transmit fetches, the packet under way is what it has and what heads the
\* queue, also before the first byte.
LEMMA UnsentWhileFetching ==
    ASSUME TypeOK, NEW v \in PacketVvcs, pc[v] = "get", packetTx[v].q # <<>>
    PROVE  UnsentPackets(v) = <<buf[v] \o Head(packetTx[v].q)>> \o Tail(packetTx[v].q)
<1> DEFINE q == packetTx[v].q
<1>1. q \in Seq(Packet) /\ q # <<>>
  BY VvcsAssumption DEF TypeOK, Packet
<1>2. Head(q) \in Bytes /\ q = <<Head(q)>> \o Tail(q)
  BY <1>1, FirstPacket
<1> HIDE DEF q
<1>3. <<>> \o Head(q) = Head(q)
  BY <1>2, ConcatEmptySeq DEF Bytes
<1>4. CASE buf[v] = <<>>
  BY <1>2, <1>3, <1>4 DEF UnsentPackets, q
<1>5. CASE buf[v] # <<>>
  BY <1>5 DEF UnsentPackets
<1>6. QED
  BY <1>4, <1>5

LEMMA UnsentIsList ==
    ASSUME TypeOK, Loops, NEW v \in PacketVvcs
    PROVE  UnsentPackets(v) \in PacketLists
<1> DEFINE q == packetTx[v].q
<1>1. q \in Seq(Packet) /\ buf[v] \in Bytes /\ v \in Vvcs
  BY VvcsAssumption DEF TypeOK, Packet, Bytes
<1>2. q \in PacketLists /\ <<buf[v]>> \in PacketLists
  BY <1>1, PacketsAreLists, OneIsList
<1> HIDE DEF q
<1>3. CASE buf[v] = <<>>
  BY <1>2, <1>3 DEF UnsentPackets, q
<1>4. CASE buf[v] # <<>> /\ pc[v] = "send"
  BY <1>2, <1>4, ListsConcat DEF UnsentPackets, q
<1>5. CASE buf[v] # <<>> /\ pc[v] # "send"
  <2>1. pc[v] = "get" /\ q # <<>>
    BY <1>1, <1>5 DEF Loops, LoopInv, QueueEmpty, TypeOK, q
  <2>2. Head(q) \in Bytes /\ Tail(q) \in PacketLists
    BY <1>1, <2>1, FirstPacket
  <2>3. <<buf[v] \o Head(q)>> \in PacketLists
    BY <1>1, <2>2, ConcatTyped, OneIsList
  <2>4. QED
    BY <1>5, <2>2, <2>3, ListsConcat DEF UnsentPackets, q
<1>6. QED
  BY <1>3, <1>4, <1>5

\* A packet that is queued is behind all that are not sent yet.
LEMMA QueuePacketUnsent ==
    ASSUME TypeOK, Loops, NEW v \in PacketVvcs, NEW data \in Bytes,
           pc'[v] = pc[v], buf'[v] = buf[v], packetTx'[v].q = Append(packetTx[v].q, data)
    PROVE  UnsentPackets(v)' = UnsentPackets(v) \o <<data>>
<1> DEFINE q == packetTx[v].q  b == buf[v]
<1>1. q \in Seq(Packet) /\ b \in Bytes /\ v \in Vvcs
  BY VvcsAssumption DEF TypeOK, Packet, Bytes
<1>2. q \in PacketLists /\ <<b>> \in PacketLists /\ <<data>> \in PacketLists
  BY <1>1, PacketsAreLists, OneIsList
<1> DEFINE more == Append(q, data)
<1> HIDE DEF q, b
<1>3. more = q \o <<data>>
  BY <1>2, AppendIsMore
<1>4. UnsentPackets(v)' = IF b = <<>> THEN more ELSE IF pc[v] = "send" THEN <<b>> \o more
                           ELSE <<b \o Head(more)>> \o Tail(more)
  BY DEF UnsentPackets, q, b
<1>5. UnsentPackets(v) = IF b = <<>> THEN q ELSE IF pc[v] = "send" THEN <<b>> \o q
                          ELSE <<b \o Head(q)>> \o Tail(q)
  BY DEF UnsentPackets, q, b
<1>6. CASE b = <<>>
  BY <1>3, <1>4, <1>5, <1>6
<1>7. CASE b # <<>> /\ pc[v] = "send"
  <2>1. (<<b>> \o q) \o <<data>> = <<b>> \o (q \o <<data>>)
    BY <1>2, ListsRegroup
  <2>2. QED
    BY <1>3, <1>4, <1>5, <1>7, <2>1
<1>8. CASE b # <<>> /\ pc[v] # "send"
  <2>1. q # <<>>
    BY <1>1, <1>8 DEF Loops, LoopInv, QueueEmpty, TypeOK, q, b
  <2>2. Head(q) \in Bytes /\ Tail(q) \in PacketLists
    BY <1>1, <2>1, FirstPacket
  <2>3. Head(more) = Head(q) /\ Tail(more) = Append(Tail(q), data)
    BY <1>2, <2>1, HeadTailAppend DEF PacketLists
  <2> DEFINE first == <<b \o Head(q)>>  rest == Tail(q)
  <2>4. first \in PacketLists /\ rest \in PacketLists
    BY <1>1, <2>2, ConcatTyped, OneIsList
  <2> HIDE DEF first, rest, more
  <2>5. Tail(more) = rest \o <<data>>
    BY <2>2, <2>3, AppendIsMore DEF rest
  <2>6. (first \o rest) \o <<data>> = first \o (rest \o <<data>>)
    BY <1>2, <2>4, ListsRegroup
  <2>7. UnsentPackets(v)' = first \o Tail(more) /\ UnsentPackets(v) = first \o rest
    BY <1>4, <1>5, <1>8, <2>3 DEF first, rest
  <2>8. QED
    BY <2>5, <2>6, <2>7
<1>9. QED
  BY <1>6, <1>7, <1>8

\* The next byte moves from the queue to the packet under way.
LEMMA FetchKeepsUnsent ==
    ASSUME TypeOK, Loops, NEW v \in PacketVvcs, FetchPacketByte(v)
    PROVE  UnsentPackets(v)' = UnsentPackets(v)
<1> DEFINE pq == packetTx[v]  q == pq.q  b == buf[v]  got == GetPacketByte(pq)
<1>1. /\ v \in Vvcs /\ pq \in PacketQueue /\ b \in Bytes /\ q \in Seq(Packet)
      /\ pc[v] = "get" /\ q # <<>>
  BY VvcsAssumption DEF FetchPacketByte, Loops, LoopInv, QueueEmpty, TypeOK, PacketQueue, Packet, Bytes
<1>2. UnsentPackets(v) = <<b \o Head(q)>> \o Tail(q)
  BY <1>1, UnsentWhileFetching
<1>3. /\ got.got /\ ~got.throws /\ got.byte \in Byte /\ got.rest \in PacketQueue
      /\ got.eop => Head(q) = <<got.byte>> /\ got.rest.q = Tail(q)
      /\ ~got.eop => /\ got.rest.q # <<>> /\ Head(q) = <<got.byte>> \o Head(got.rest.q)
                     /\ Tail(got.rest.q) = Tail(q)
  BY <1>1, GetPacketByteFacts
<1> HIDE DEF got
<1>4. /\ packetTx'[v] = got.rest /\ buf'[v] = Append(b, got.byte)
      /\ pc'[v] = IF got.eop THEN "send" ELSE "get"
  BY <1>1, <1>3 DEF FetchPacketByte, got, TypeOK
<1> DEFINE x == <<got.byte>>  r == got.rest.q
<1>5. x \in Bytes /\ Append(b, got.byte) = b \o x /\ b \o x # <<>>
  <2>1. x \in Seq(Byte) /\ b \in Seq(Byte) /\ x # <<>>
    BY <1>1, <1>3 DEF Bytes
  <2>2. Append(b, got.byte) = b \o x
    BY <1>3, <2>1, AppendIsConcat
  <2>3. b \o x # <<>>
    <3> HIDE DEF x
    <3>1. QED
      BY <2>1, ConcatEqualIffEmpty
  <2>4. QED
    BY <2>1, <2>2, <2>3 DEF Bytes
<1>6. UnsentPackets(v)' = IF pc'[v] = "send" THEN <<b \o x>> \o r
                           ELSE <<(b \o x) \o Head(r)>> \o Tail(r)
  BY <1>4, <1>5 DEF UnsentPackets
<1> HIDE DEF pq, q, b, x, r
<1>7. CASE got.eop
  BY <1>2, <1>3, <1>4, <1>6, <1>7 DEF x, r
<1>8. CASE ~got.eop
  <2>1. Head(r) \in Bytes
    <3>1. r \in Seq(Packet) /\ r # <<>>
      BY <1>3, <1>8 DEF r, PacketQueue
    <3>2. QED
      BY <3>1, FirstPacket
  <2>2. (b \o x) \o Head(r) = b \o (x \o Head(r))
    BY <1>1, <1>5, <2>1, ConcatRegroups
  <2>3. Head(q) = x \o Head(r) /\ Tail(r) = Tail(q) /\ pc'[v] = "get"
    BY <1>3, <1>4, <1>8 DEF x, r
  <2>4. QED
    BY <1>2, <1>6, <2>2, <2>3
<1>9. QED
  BY <1>7, <1>8

LEMMA PacketsStep == TypeOK /\ Loops /\ PacketsInOrder /\ [Next]_vars => PacketsInOrder'
<1> SUFFICES ASSUME TypeOK, Loops, PacketsInOrder, [Next]_vars, NEW v \in PacketVvcs,
                    "oversize" \notin faults'[v]
             PROVE  accepted'[v] = sent'[v] \o UnsentPackets(v)'
  BY DEF PacketsInOrder
<1> DEFINE a == accepted[v]  s == sent[v]  u == UnsentPackets(v)
<1>a. /\ v \in Vvcs /\ a \in PacketLists /\ s \in PacketLists /\ u \in PacketLists
      /\ buf[v] \in Bytes
  BY VvcsAssumption, UnsentIsList DEF TypeOK, PacketLists, Bytes
<1>b. "oversize" \notin faults[v] => a = s \o u
  BY DEF PacketsInOrder
<1>c. pc[v] \notin {"get", "send"} => buf[v] = <<>>
  BY <1>a DEF Loops, LoopInv, TypeOK
<1>d. ASSUME accepted'[v] = a, sent'[v] = s, faults'[v] = faults[v],
             UnsentPackets(v)' = u
      PROVE  accepted'[v] = sent'[v] \o UnsentPackets(v)'
  BY <1>b, <1>d
<1>e. ASSUME buf'[v] = buf[v], packetTx'[v] = packetTx[v], pc'[v] = pc[v] \/ buf[v] = <<>>
      PROVE  UnsentPackets(v)' = u
  BY <1>e DEF UnsentPackets
<1> HIDE DEF a, s, u
<1>1. ASSUME NEW t \in Targets, NEW data \in Data, TransmitBytes(t, data)
      PROVE  accepted'[v] = sent'[v] \o UnsentPackets(v)'
  <2>1. UNCHANGED <<pc, buf, faults, sent, packetTx>>
    BY <1>1 DEF TransmitBytes, controller
  <2>2. accepted'[v] = a
    <3> DEFINE k == TxKey(t)
    <3>1. \/ accepted' = accepted
          \/ HasByteQueue(k) /\ \E new : accepted' = [accepted EXCEPT ![k] = new]
      BY <1>1 DEF TransmitBytes
    <3> HIDE DEF k
    <3>2. QED
      BY <1>a, <3>1 DEF HasByteQueue, TypeOK, a
  <2>3. QED
    BY <1>d, <1>e, <2>1, <2>2 DEF s
<1>2. ASSUME NEW t \in Targets, NEW data \in Data, TransmitPacket(t, data)
      PROVE  accepted'[v] = sent'[v] \o UnsentPackets(v)'
  <2> DEFINE k == PacketKey(t)
  <2>1. /\ UNCHANGED <<pc, buf, faults, sent, byteTx>>
        /\ \/ packetTx' = packetTx /\ accepted' = accepted
           \/ /\ packetTx' = [packetTx EXCEPT ![k] = PutPacket(packetTx[k], data)]
              /\ accepted' = [accepted EXCEPT ![k] = IF data = <<>> THEN accepted[k]
                                                      ELSE Append(accepted[k], data)]
    BY <1>2 DEF TransmitPacket, controller
  <2>2. data \in Seq(Byte) /\ data \in Bytes /\ packetTx[v] \in PacketQueue
    BY <1>a, DataAssumption DEF TypeOK, PacketQueue, Packet, Bytes
  <2> HIDE DEF k
  <2>3. CASE packetTx'[v] = packetTx[v] /\ accepted'[v] = a
    BY <1>d, <1>e, <2>1, <2>3 DEF s
  <2>4. CASE /\ packetTx'[v] = PutPacket(packetTx[v], data)
             /\ accepted'[v] = IF data = <<>> THEN a ELSE Append(a, data)
    <3>1. CASE data = <<>>
      <4>1. packetTx'[v] = packetTx[v] /\ accepted'[v] = a
        BY <2>4, <3>1 DEF PutPacket
      <4>2. QED
        BY <2>3, <4>1
    <3>2. CASE data # <<>>
      <4>1. packetTx'[v].q = Append(packetTx[v].q, data)
        BY <2>2, <2>4, <3>2, PutPacketFacts
      <4>2. UnsentPackets(v)' = u \o <<data>>
        BY <2>1, <2>2, <4>1, QueuePacketUnsent DEF u
      <4>3. accepted'[v] = a \o <<data>>
        BY <1>a, <2>2, <2>4, <3>2, AppendIsMore
      <4>4. (s \o u) \o <<data>> = s \o (u \o <<data>>)
        BY <1>a, <2>2, OneIsList, ListsRegroup
      <4>5. sent'[v] = s /\ faults'[v] = faults[v]
        BY <2>1 DEF s
      <4>6. QED
        BY <1>b, <4>2, <4>3, <4>4, <4>5
    <3>3. QED
      BY <3>1, <3>2
  <2>5. \/ packetTx'[v] = packetTx[v] /\ accepted'[v] = a
        \/ /\ packetTx'[v] = PutPacket(packetTx[v], data)
           /\ accepted'[v] = IF data = <<>> THEN a ELSE Append(a, data)
    <3> DEFINE pq == PutPacket(packetTx[k], data)
               all == IF data = <<>> THEN accepted[k] ELSE Append(accepted[k], data)
    <3>1. \/ packetTx' = packetTx /\ accepted' = accepted
          \/ /\ packetTx' = [packetTx EXCEPT ![k] = pq]
             /\ accepted' = [accepted EXCEPT ![k] = all]
      BY <2>1
    <3>2. k = v => /\ pq = PutPacket(packetTx[v], data)
                   /\ all = IF data = <<>> THEN a ELSE Append(a, data)
      BY DEF a
    <3> HIDE DEF pq, all
    <3>3. \/ packetTx'[v] = packetTx[v] /\ accepted'[v] = a
          \/ k = v /\ packetTx'[v] = pq /\ accepted'[v] = all
      BY <1>a, <3>1 DEF TypeOK, a
    <3>4. QED
      BY <3>2, <3>3
  <2>6. QED
    BY <2>3, <2>4, <2>5
<1>3. ASSUME NEW w \in Vvcs, ReportVvc(w) \/ VvcExecute(w)
      PROVE  accepted'[v] = sent'[v] \o UnsentPackets(v)'
  BY <1>3, <1>d, <1>e DEF ReportVvc, VvcExecute, server, controller, a, s
<1>4. ASSUME NEW w \in Vvcs, w # v, TransmitProcess(w)
      PROVE  accepted'[v] = sent'[v] \o UnsentPackets(v)'
  <2>1. /\ accepted' = accepted /\ sent'[v] = s /\ buf'[v] = buf[v] /\ pc'[v] = pc[v]
        /\ packetTx'[v] = packetTx[v] /\ faults'[v] = faults[v]
    BY <1>4, <1>a, SMTT(30) DEF TransmitProcess, Enable, ClockEdge, Poll, FetchByte,
                FetchPacketByte, Oversize, SendCommand, server, TypeOK, s
  <2>2. QED
    BY <1>d, <1>e, <2>1 DEF a
<1>5. CASE Enable(v) \/ ClockEdge(v) \/ Poll(v) \/ UNCHANGED vars
  BY <1>5, <1>c, <1>d, <1>e DEF Enable, ClockEdge, Poll, vars, server, controller, a, s
<1>6. CASE FetchByte(v) \/ Oversize(v)
  BY <1>6, <1>a DEF FetchByte, Oversize, TypeOK
<1>7. CASE FetchPacketByte(v)
  <2>1. UnsentPackets(v)' = u
    BY <1>7, FetchKeepsUnsent DEF u
  <2>2. accepted'[v] = a /\ sent'[v] = s
    BY <1>7 DEF FetchPacketByte, a, s
  <2>3. "oversize" \notin faults[v]
    BY <1>7, <1>a DEF FetchPacketByte, TypeOK
  <2>4. QED
    BY <1>b, <2>1, <2>2, <2>3
<1>8. CASE SendCommand(v)
  <2> DEFINE q == packetTx[v].q  one == <<buf[v]>>
  <2>1. q \in PacketLists /\ one \in PacketLists /\ buf[v] # <<>>
    <3>1. q \in Seq(Packet) /\ buf[v] # <<>>
      BY <1>8, <1>a DEF SendCommand, Loops, LoopInv, TypeOK, Packet
    <3>2. QED
      BY <1>a, <3>1, PacketsAreLists, OneIsList
  <2>2. u = one \o q
    BY <1>8, <2>1 DEF SendCommand, UnsentPackets, u
  <2>3. UnsentPackets(v)' = q
    BY <1>8, <1>a DEF SendCommand, UnsentPackets, TypeOK, server
  <2>4. /\ sent'[v] = Append(s, buf[v]) /\ accepted'[v] = a /\ faults'[v] = faults[v]
    BY <1>8, <1>a DEF SendCommand, TypeOK, server, a, s
  <2>5. Append(s, buf[v]) = s \o one
    BY <1>a, AppendIsMore
  <2> HIDE DEF q, one
  <2>6. (s \o one) \o q = s \o (one \o q)
    BY <1>a, <2>1, ListsRegroup
  <2>7. QED
    BY <1>b, <2>2, <2>3, <2>4, <2>5, <2>6
<1>9. QED
  BY <1>1, <1>2, <1>3, <1>4, <1>5, <1>6, <1>7, <1>8 DEF Next, Rpc, TransmitProcess

\* Packets reach the commands of their VVC whole and in order, one command each,
\* unless one was too long for a command.
THEOREM PacketsStayInOrder == Spec => []PacketsInOrder
<1>1. Init => PacketsInOrder
  <2> SUFFICES ASSUME Init, NEW v \in PacketVvcs
               PROVE  accepted[v] = sent[v] \o UnsentPackets(v)
    BY DEF PacketsInOrder
  <2>1. <<>> \o <<>> = <<>>
    BY EmptySeq, ConcatEmptySeq
  <2>2. /\ v \in Vvcs /\ accepted[v] = <<>> /\ sent[v] = <<>> /\ buf[v] = <<>>
        /\ packetTx[v] = EmptyPacketQueue
    BY VvcsAssumption DEF Init
  <2>3. QED
    BY <2>1, <2>2 DEF UnsentPackets, EmptyPacketQueue
<1>2. QED
  BY <1>1, PacketsStep, TypeCorrect, LoopsHold, PTL DEF Spec

\* A packet longer than a command
TooLong(list) == \E i \in 1..Len(list) : Len(list[i]) > MaxCmdBytes

LEMMA TooLongStays ==
    ASSUME NEW list \in PacketLists, NEW packet \in Bytes, TooLong(list)
    PROVE  TooLong(Append(list, packet))
<1>1. list \in Seq(Seq(Byte)) /\ packet \in Seq(Byte)
  BY DEF PacketLists, Bytes
<1>2. /\ Len(Append(list, packet)) = Len(list) + 1 /\ Len(list) \in Nat
      /\ \A i \in 1..Len(list) : Append(list, packet)[i] = list[i]
  BY <1>1, AppendProperties, LenProperties
<1>3. QED
  BY <1>2 DEF TooLong

\* p_transmit has filled a command before the end of the packet it is fetching.
LEMMA OversizeIsTooLong ==
    ASSUME TypeOK, Loops, PacketsInOrder, NEW v \in PacketVvcs, Oversize(v),
           "oversize" \notin faults[v]
    PROVE  TooLong(accepted[v])
<1> DEFINE q == packetTx[v].q  b == buf[v]  s == sent[v]
           packet == b \o Head(q)  rest == <<packet>> \o Tail(q)
<1>1. /\ b \in Seq(Byte) /\ q \in Seq(Packet) /\ q # <<>> /\ s \in Seq(Seq(Byte))
      /\ pc[v] = "get" /\ Len(b) = MaxCmdBytes /\ MaxCmdBytes \in Nat
  BY VvcsAssumption, CommandAssumption
     DEF Oversize, BufferFull, Loops, LoopInv, QueueEmpty, TypeOK, Packet
<1>2. accepted[v] = s \o rest
  BY <1>1, UnsentWhileFetching DEF PacketsInOrder
<1> HIDE DEF q, b, s
<1>3. Head(q) \in Packet /\ Tail(q) \in PacketLists
  BY <1>1, HeadThenTail, FirstPacket
<1>4. packet \in Seq(Byte) /\ Len(packet) > MaxCmdBytes
  <2> DEFINE h == Head(q)
  <2>1. h \in Seq(Byte) /\ h # <<>>
    BY <1>3 DEF Packet
  <2> HIDE DEF h
  <2>2. Len(b \o h) = Len(b) + Len(h) /\ b \o h \in Seq(Byte) /\ Len(h) \in Nat \ {0}
    BY <1>1, <2>1, ConcatProperties, EmptySeq
  <2>3. QED
    BY <1>1, <2>2 DEF h
<1> HIDE DEF packet
<1>5. rest \in Seq(Seq(Byte)) /\ Len(rest) \in Nat \ {0} /\ rest[1] = packet
  <2>1. Tail(q) \in Seq(Seq(Byte))
    BY <1>3 DEF PacketLists
  <2> DEFINE tail == Tail(q)  one == <<packet>>
  <2>2. one \in Seq(Seq(Byte)) /\ Len(one) = 1 /\ one[1] = packet
    BY <1>4
  <2>3. tail \in Seq(Seq(Byte)) /\ Len(tail) \in Nat
    BY <2>1, LenProperties
  <2> HIDE DEF one, tail
  <2>4. /\ one \o tail \in Seq(Seq(Byte)) /\ Len(one \o tail) = 1 + Len(tail)
        /\ (one \o tail)[1] = packet
    <3> DEFINE S == Seq(Byte)
    <3>1. one \in Seq(S) /\ tail \in Seq(S)
      BY <2>2, <2>3
    <3> HIDE DEF S
    <3>2. /\ one \o tail \in Seq(S) /\ Len(one \o tail) = Len(one) + Len(tail)
          /\ \A i \in 1..Len(one) + Len(tail) :
                (one \o tail)[i] = IF i <= Len(one) THEN one[i] ELSE tail[i - Len(one)]
      BY <3>1, ConcatProperties
    <3>3. QED
      BY <2>2, <2>3, <3>2 DEF S
  <2>5. QED
    BY <2>3, <2>4 DEF one, tail
<1> HIDE DEF rest
<1>6. /\ Len(s) \in Nat /\ Len(s \o rest) = Len(s) + Len(rest)
      /\ (s \o rest)[Len(s) + 1] = rest[1]
  BY <1>1, <1>5, ConcatProperties, LenProperties
<1>7. Len(s) + 1 \in 1..Len(accepted[v]) /\ Len(accepted[v][Len(s) + 1]) > MaxCmdBytes
  BY <1>2, <1>4, <1>5, <1>6
<1>8. QED
  BY <1>7 DEF TooLong

LEMMA FramingStep ==
    TypeOK /\ Loops /\ PacketsInOrder /\ FramingLostOnlyIfTooLong /\ [Next]_vars =>
        FramingLostOnlyIfTooLong'
<1> SUFFICES ASSUME TypeOK, Loops, PacketsInOrder, FramingLostOnlyIfTooLong, [Next]_vars,
                    NEW v \in PacketVvcs, "oversize" \in faults'[v]
             PROVE  TooLong(accepted'[v])
  BY DEF FramingLostOnlyIfTooLong, TooLong
<1>a. v \in Vvcs /\ accepted[v] \in PacketLists
  BY VvcsAssumption DEF TypeOK, PacketLists
<1>b. "oversize" \in faults[v] => TooLong(accepted[v])
  BY DEF FramingLostOnlyIfTooLong, TooLong
<1>1. ASSUME NEW t \in Targets, NEW data \in Data, TransmitPacket(t, data)
      PROVE  TooLong(accepted'[v])
  <2> DEFINE k == PacketKey(t)
  <2>1. /\ faults' = faults
        /\ \/ accepted' = accepted
           \/ accepted' = [accepted EXCEPT ![k] = IF data = <<>> THEN accepted[k]
                                                  ELSE Append(accepted[k], data)]
    BY <1>1 DEF TransmitPacket, controller
  <2> HIDE DEF k
  <2>2. accepted'[v] = accepted[v] \/ accepted'[v] = Append(accepted[v], data)
    BY <1>a, <2>1 DEF TypeOK
  <2>3. data \in Bytes
    BY DataAssumption DEF Bytes
  <2>4. QED
    BY <1>a, <1>b, <2>1, <2>2, <2>3, TooLongStays
<1>2. ASSUME NEW t \in Targets, NEW data \in Data, TransmitBytes(t, data)
      PROVE  TooLong(accepted'[v])
  <2> DEFINE k == TxKey(t)
  <2>1. /\ faults' = faults
        /\ \/ accepted' = accepted
           \/ HasByteQueue(k) /\ \E new : accepted' = [accepted EXCEPT ![k] = new]
    BY <1>2 DEF TransmitBytes, controller
  <2> HIDE DEF k
  <2>2. accepted'[v] = accepted[v]
    BY <1>a, <2>1 DEF HasByteQueue, TypeOK
  <2>3. QED
    BY <1>b, <2>1, <2>2
<1>3. ASSUME NEW w \in Vvcs, ReportVvc(w) \/ VvcExecute(w)
      PROVE  TooLong(accepted'[v])
  BY <1>3, <1>b DEF ReportVvc, VvcExecute, server, controller
<1>4. ASSUME NEW w \in Vvcs, TransmitProcess(w), ~(w = v /\ Oversize(v))
      PROVE  TooLong(accepted'[v])
  <2>1. accepted' = accepted /\ ("oversize" \in faults'[v] => "oversize" \in faults[v])
    BY <1>4, <1>a, SMTT(30) DEF TransmitProcess, Enable, ClockEdge, Poll, FetchByte,
                FetchPacketByte, Oversize, SendCommand, server, TypeOK
  <2>2. QED
    BY <1>b, <2>1
<1>5. CASE Oversize(v)
  <2>1. accepted' = accepted
    BY <1>5 DEF Oversize, server
  <2>2. QED
    BY <1>5, <1>b, <2>1, OversizeIsTooLong
<1>6. CASE UNCHANGED vars
  BY <1>6, <1>b DEF vars, server, controller
<1>7. QED
  BY <1>1, <1>2, <1>3, <1>4, <1>5, <1>6 DEF Next, Rpc

\* The alert about an unfinished packet means that some packet is longer than a
\* command: one that fits exactly never raises it.
THEOREM AlertMeansTooLong == Spec => []FramingLostOnlyIfTooLong
<1>1. Init => FramingLostOnlyIfTooLong
  BY VvcsAssumption DEF Init, FramingLostOnlyIfTooLong
<1>2. QED
  BY <1>1, FramingStep, TypeCorrect, LoopsHold, PacketsStayInOrder, PTL DEF Spec
-----------------------------------------------------------------------------
(* The stream                                                               *)

\* What a step may do to the histories: a request puts data behind what VVC v has
\* accepted, or a command puts what was gathered behind what v was sent.
AcceptsBytes(v, data) ==
    /\ accepted' = [accepted EXCEPT ![v] = accepted[v] \o data]
    /\ sent' = sent

AcceptsPacket(v, data) ==
    /\ data # <<>>
    /\ accepted' = [accepted EXCEPT ![v] = Append(accepted[v], data)]
    /\ sent' = sent

SameHistories == \A v \in Vvcs : accepted'[v] = accepted[v] /\ sent'[v] = sent[v]

LEMMA StepOfHistories ==
    ASSUME TypeOK, [Next]_vars
    PROVE  \/ SameHistories
           \/ \E v \in Vvcs \ PacketVvcs, data \in Data : AcceptsBytes(v, data)
           \/ \E v \in PacketVvcs, data \in Data : AcceptsPacket(v, data)
           \/ \E v \in Vvcs : SendCommand(v)
<1>1. ASSUME NEW t \in Targets, NEW data \in Data, TransmitBytes(t, data)
      PROVE  SameHistories \/ \E v \in Vvcs \ PacketVvcs : AcceptsBytes(v, data)
  <2> DEFINE k == TxKey(t)
  <2>1. /\ sent' = sent
        /\ \/ accepted' = accepted
           \/ /\ HasByteQueue(k)
              /\ accepted' = [accepted EXCEPT ![k] = accepted[k] \o data]
    BY <1>1 DEF TransmitBytes, controller
  <2> HIDE DEF k
  <2>2. HasByteQueue(k) => k \in Vvcs \ PacketVvcs
    BY DEF HasByteQueue, TypeOK, RegistryTypeOK
  <2>3. QED
    BY <2>1, <2>2 DEF SameHistories, AcceptsBytes
<1>2. ASSUME NEW t \in Targets, NEW data \in Data, TransmitPacket(t, data)
      PROVE  SameHistories \/ \E v \in PacketVvcs : AcceptsPacket(v, data)
  <2> DEFINE k == PacketKey(t)
  <2>1. /\ sent' = sent
        /\ \/ accepted' = accepted
           \/ /\ HasPacketQueue(k)
              /\ accepted' = [accepted EXCEPT ![k] = IF data = <<>> THEN accepted[k]
                                                     ELSE Append(accepted[k], data)]
    BY <1>2 DEF TransmitPacket, controller
  <2> HIDE DEF k
  <2>2. HasPacketQueue(k) => k \in PacketVvcs
    BY DEF HasPacketQueue
  <2>3. CASE accepted' = accepted \/ data = <<>>
    BY <2>1, <2>3 DEF SameHistories, TypeOK
  <2>4. CASE accepted' # accepted /\ data # <<>>
    BY <2>1, <2>2, <2>4 DEF AcceptsPacket
  <2>5. QED
    BY <2>3, <2>4
<1>3. ASSUME NEW v \in Vvcs, ReportVvc(v) \/ VvcExecute(v)
      PROVE  SameHistories
  BY <1>3 DEF ReportVvc, VvcExecute, server, controller, SameHistories
<1>4. ASSUME NEW v \in Vvcs, TransmitProcess(v)
      PROVE  SameHistories \/ SendCommand(v)
  BY <1>4 DEF TransmitProcess, Enable, ClockEdge, Poll, FetchByte, FetchPacketByte, Oversize,
              server, SameHistories
<1>5. CASE UNCHANGED vars
  BY <1>5 DEF vars, server, controller, SameHistories
<1>6. QED
  BY <1>1, <1>2, <1>3, <1>4, <1>5 DEF Next, Rpc

\* No packet a client may send is longer than a command.  It says nothing of a
\* testbench without packets, where requests may have any length.
PacketsFit == \A v \in PacketVvcs, data \in Data : Len(data) <= MaxCmdBytes

AllFit == \A v \in PacketVvcs : ~TooLong(accepted[v])

LEMMA FitStep ==
    ASSUME PacketsFit
    PROVE  TypeOK /\ AllFit /\ [Next]_vars => AllFit'
<1> SUFFICES ASSUME TypeOK, AllFit, [Next]_vars, NEW v \in PacketVvcs
             PROVE  ~TooLong(accepted'[v])
  BY DEF AllFit, TooLong
<1>a. v \in Vvcs /\ accepted[v] \in Seq(Seq(Byte)) /\ ~TooLong(accepted[v])
  BY VvcsAssumption DEF TypeOK, AllFit
<1>1. CASE accepted'[v] = accepted[v]
  BY <1>a, <1>1
<1>2. ASSUME NEW data \in Data, accepted'[v] = Append(accepted[v], data)
      PROVE  ~TooLong(accepted'[v])
  <2> DEFINE list == accepted[v]
  <2>1. Len(data) <= MaxCmdBytes /\ data \in Seq(Byte)
    BY DataAssumption DEF PacketsFit
  <2>2. list \in Seq(Seq(Byte)) /\ ~TooLong(list)
    BY <1>a
  <2> HIDE DEF list
  <2>3. /\ Len(Append(list, data)) = Len(list) + 1 /\ Len(list) \in Nat
        /\ \A i \in 1..Len(list) : Append(list, data)[i] = list[i]
        /\ Append(list, data)[Len(list) + 1] = data
    BY <2>1, <2>2, AppendProperties, LenProperties
  <2>4. ~(Len(data) > MaxCmdBytes)
    <3>1. Len(data) \in Nat /\ MaxCmdBytes \in Nat
      BY <2>1, LenProperties, CommandAssumption
    <3>2. QED
      BY <2>1, <3>1
  <2>5. ~TooLong(Append(list, data))
    BY <2>2, <2>3, <2>4 DEF TooLong
  <2>6. QED
    BY <1>2, <2>5 DEF list
<1>3. QED
  <2>1. CASE SameHistories
    BY <1>a, <1>1, <2>1 DEF SameHistories
  <2>2. ASSUME NEW u \in Vvcs \ PacketVvcs, NEW data \in Data, AcceptsBytes(u, data)
        PROVE  ~TooLong(accepted'[v])
    BY <1>a, <1>1, <2>2 DEF AcceptsBytes, TypeOK
  <2>3. ASSUME NEW u \in PacketVvcs, NEW data \in Data, AcceptsPacket(u, data)
        PROVE  ~TooLong(accepted'[v])
    BY <1>a, <1>1, <1>2, <2>3 DEF AcceptsPacket, TypeOK
  <2>4. ASSUME NEW u \in Vvcs, SendCommand(u)
        PROVE  ~TooLong(accepted'[v])
    BY <1>1, <2>4 DEF SendCommand, server
  <2>5. QED
    BY <2>1, <2>2, <2>3, <2>4, StepOfHistories

\* What follows the part of a stream that has left it can leave next.
LEMMA NextBytesLeave ==
    \A t, x, y \in Bytes :
        x # <<>> => \E n \in 1..(Len((t \o x) \o y) - Len(t)) :
                       t \o x = SubSeq((t \o x) \o y, 1, Len(t) + n)
<1> TAKE t, x, y \in Bytes
<1> HAVE x # <<>>
<1> DEFINE all == (t \o x) \o y
<1>1. Len(x) \in 1..(Len(all) - Len(t)) /\ t \o x = SubSeq(all, 1, Len(t) + Len(x))
  BY NextLeaves DEF Bytes
<1> HIDE DEF all
<1>2. \E n \in 1..(Len(all) - Len(t)) : t \o x = SubSeq(all, 1, Len(t) + n)
  BY <1>1
<1>3. QED
  BY <1>2 DEF all

LEMMA NextPacketsLeave ==
    \A t, x, y \in PacketLists :
        x # <<>> => \E n \in 1..(Len((t \o x) \o y) - Len(t)) :
                       t \o x = SubSeq((t \o x) \o y, 1, Len(t) + n)
<1> TAKE t, x, y \in PacketLists
<1> HAVE x # <<>>
<1> DEFINE S == Seq(Byte)
<1>1. t \in Seq(S) /\ x \in Seq(S) /\ y \in Seq(S)
  BY DEF PacketLists
<1> HIDE DEF S
<1> DEFINE all == (t \o x) \o y
<1>2. Len(x) \in 1..(Len(all) - Len(t)) /\ t \o x = SubSeq(all, 1, Len(t) + Len(x))
  BY <1>1, NextLeaves
<1> HIDE DEF all
<1>3. \E n \in 1..(Len(all) - Len(t)) : t \o x = SubSeq(all, 1, Len(t) + n)
  BY <1>2
<1>4. QED
  BY <1>3 DEF all

\* A command puts the next items of the stream into the VVC: the gathered bytes, or
\* the packet that was fetched to its end.
LEMMA CommandLeaves ==
    ASSUME TypeOK, Loops, BytesInOrder, PacketsInOrder, NEW v \in Vvcs, SendCommand(v),
           v \in PacketVvcs => "oversize" \notin faults[v]
    PROVE  \E n \in 1..(Len(accepted[v]) - Len(sent[v])) :
               sent'[v] = SubSeq(accepted[v], 1, Len(sent[v]) + n)
<1> DEFINE s == sent[v]  b == buf[v]
<1>a. b \in Seq(Byte) /\ b # <<>> /\ pc[v] = "send"
  BY DEF SendCommand, Loops, LoopInv, TypeOK
<1>1. CASE v \notin PacketVvcs
  <2> DEFINE q == byteTx[v]
  <2>1. s \in Bytes /\ b \in Bytes /\ q \in Bytes /\ b # <<>>
    BY <1>1, <1>a DEF TypeOK, Bytes
  <2>2. accepted[v] = (s \o b) \o q
    BY <1>1 DEF BytesInOrder
  <2>3. sent'[v] = s \o b
    BY <1>1 DEF SendCommand, TypeOK
  <2> HIDE DEF s, b, q
  <2>4. \E n \in 1..(Len((s \o b) \o q) - Len(s)) : s \o b = SubSeq((s \o b) \o q, 1, Len(s) + n)
    BY <2>1, NextBytesLeave
  <2>5. QED
    BY <2>2, <2>3, <2>4 DEF s
<1>2. CASE v \in PacketVvcs
  <2> DEFINE q == packetTx[v].q  one == <<b>>
  <2>1. q \in Seq(Packet) /\ s \in PacketLists
    BY <1>2 DEF TypeOK, Packet, PacketLists
  <2>2. s \in PacketLists /\ q \in PacketLists /\ one \in PacketLists /\ one # <<>>
    BY <1>a, <2>1, PacketsAreLists DEF PacketLists
  <2>3. accepted[v] = s \o (one \o q) /\ sent'[v] = Append(s, b)
    BY <1>2, <1>a DEF PacketsInOrder, UnsentPackets, SendCommand, TypeOK
  <2>4. Append(s, b) = s \o one
    BY <1>a, <2>1, AppendIsMore DEF Bytes
  <2>5. s \o (one \o q) = (s \o one) \o q
    <3> HIDE DEF s, one, q
    <3>1. QED
      BY <2>2, ListsRegroup
  <2> HIDE DEF s, q, one
  <2>6. \E n \in 1..(Len((s \o one) \o q) - Len(s)) :
            s \o one = SubSeq((s \o one) \o q, 1, Len(s) + n)
    BY <2>2, NextPacketsLeave
  <2>7. QED
    BY <2>3, <2>4, <2>5, <2>6 DEF s
<1>3. QED
  BY <1>1, <1>2

\* Something put behind what was accepted enters the stream of a served VVC, and is
\* no part of any stream if the VVC is not served.
LEMMA MoreEnters ==
    ASSUME TypeOK, NEW v \in Vvcs, NEW new,
           accepted' = [accepted EXCEPT ![v] = new], sent' = sent,
           Len(new) > Len(accepted[v]), SubSeq(new, 1, Len(accepted[v])) = accepted[v]
    PROVE  [Stream!Next]_(Stream!vars)
<1> DEFINE in == [u \in TransmitVvcs |-> accepted[u]]
           more == [u \in TransmitVvcs |-> accepted'[u]]
<1>1. \A u \in Vvcs : accepted'[u] = IF u = v THEN new ELSE accepted[u]
  BY DEF TypeOK
<1>2. CASE v \notin TransmitVvcs
  BY <1>1, <1>2 DEF Stream!vars, TransmitVvcs
<1>3. CASE v \in TransmitVvcs
  <2>1. more = [in EXCEPT ![v] = more[v]] /\ more[v] = new /\ in[v] = accepted[v]
    BY <1>1, <1>3 DEF TransmitVvcs
  <2>2. Stream!Enter(v)
    BY <2>1 DEF Stream!Enter, Stream!Extends
  <2>3. QED
    BY <1>3, <2>2 DEF Stream!Next
<1>4. QED
  BY <1>2, <1>3

\* Every step is a step of the stream or changes neither end of it.
LEMMA StreamStep ==
    TypeOK /\ Loops /\ BytesInOrder /\ PacketsInOrder /\ FramingLostOnlyIfTooLong /\ AllFit
    /\ [Next]_vars => [Stream!Next]_(Stream!vars)
<1> SUFFICES ASSUME TypeOK, Loops, BytesInOrder, PacketsInOrder, FramingLostOnlyIfTooLong,
                    AllFit, [Next]_vars
             PROVE  [Stream!Next]_(Stream!vars)
  OBVIOUS
<1>1. CASE SameHistories
  BY <1>1 DEF SameHistories, Stream!vars, TransmitVvcs
<1>2. ASSUME NEW v \in Vvcs \ PacketVvcs, NEW data \in Data, AcceptsBytes(v, data)
      PROVE  [Stream!Next]_(Stream!vars)
  <2> DEFINE a == accepted[v]
  <2>1. a \in Seq(Byte) /\ data \in Seq(Byte)
    BY DataAssumption DEF TypeOK
  <2>2. CASE data = <<>>
    <3>1. a \o data = a
      BY <2>1, <2>2, ConcatEmptySeq
    <3>2. SameHistories
      BY <1>2, <3>1 DEF AcceptsBytes, SameHistories, TypeOK
    <3>3. QED
      BY <1>1, <3>2
  <2>3. CASE data # <<>>
    <3> DEFINE new == a \o data
    <3> HIDE DEF a
    <3>1. Len(new) > Len(a) /\ SubSeq(new, 1, Len(a)) = a
      BY <2>1, <2>3, PutBehindExtends
    <3>2. accepted' = [accepted EXCEPT ![v] = new] /\ sent' = sent
      BY <1>2 DEF AcceptsBytes, a
    <3> HIDE DEF new
    <3>3. QED
      BY <3>1, <3>2, MoreEnters DEF a
  <2>4. QED
    BY <2>2, <2>3
<1>3. ASSUME NEW v \in PacketVvcs, NEW data \in Data, AcceptsPacket(v, data)
      PROVE  [Stream!Next]_(Stream!vars)
  <2> DEFINE S == Seq(Byte)  a == accepted[v]  one == <<data>>  new == a \o one
  <2>1. v \in Vvcs /\ a \in PacketLists /\ data \in Bytes
    BY VvcsAssumption, DataAssumption DEF TypeOK, PacketLists, Bytes
  <2>2. accepted' = [accepted EXCEPT ![v] = new] /\ sent' = sent
    BY <1>3, <2>1, AppendIsMore DEF AcceptsPacket
  <2>3. a \in Seq(S) /\ one \in Seq(S) /\ one # <<>>
    BY <2>1 DEF PacketLists, Bytes
  <2> HIDE DEF S, a, one
  <2>4. Len(new) > Len(a) /\ SubSeq(new, 1, Len(a)) = a
    BY <2>3, PutBehindExtends
  <2> HIDE DEF new
  <2>5. QED
    BY <2>1, <2>2, <2>4, MoreEnters DEF a
<1>4. ASSUME NEW v \in Vvcs, SendCommand(v)
      PROVE  [Stream!Next]_(Stream!vars)
  <2> DEFINE out == [u \in TransmitVvcs |-> sent[u]]
             next == [u \in TransmitVvcs |-> sent'[u]]
  <2>1. accepted' = accepted /\ \A u \in Vvcs : u # v => sent'[u] = sent[u]
    BY <1>4 DEF SendCommand, server, TypeOK
  <2>2. CASE v \notin TransmitVvcs
    BY <2>1, <2>2 DEF Stream!vars, TransmitVvcs
  <2>3. CASE v \in TransmitVvcs
    <3>1. v \in PacketVvcs => "oversize" \notin faults[v]
      BY DEF AllFit, FramingLostOnlyIfTooLong, TooLong
    <3>2. PICK n \in 1..(Len(accepted[v]) - Len(sent[v])) :
              sent'[v] = SubSeq(accepted[v], 1, Len(sent[v]) + n)
      BY <1>4, <3>1, CommandLeaves
    <3>3. next = [out EXCEPT ![v] = SubSeq(accepted[v], 1, Len(sent[v]) + n)]
      BY <2>1, <2>3, <3>2 DEF TransmitVvcs
    <3>4. Stream!Leave(v, n)
      BY <2>1, <2>3, <3>3 DEF Stream!Leave
    <3>5. Stream!LeaveSome(v)
      BY <2>3, <3>4 DEF Stream!LeaveSome
    <3>6. QED
      BY <2>3, <3>5 DEF Stream!Next
  <2>4. QED
    BY <2>2, <2>3
<1>5. QED
  BY <1>1, <1>2, <1>3, <1>4, StepOfHistories


\* The safety part of DeliversEverything: the path of a served VVC is a reliable
\* stream from requests to commands, where no packet is too long for a command.
\* What commands carry is at any time the beginning of what was accepted, and only
\* grows.
THEOREM TransmitsImplementStream ==
    ASSUME PacketsFit
    PROVE  Spec => Stream!Spec
<1>1. Init => AllFit
  <2> SUFFICES ASSUME Init, NEW v \in PacketVvcs
               PROVE  ~TooLong(accepted[v])
    BY DEF AllFit
  <2>1. accepted[v] = <<>>
    BY VvcsAssumption DEF Init
  <2>2. QED
    BY <2>1 DEF TooLong
<1>2. TypeOK /\ AllFit /\ [Next]_vars => AllFit'
  BY FitStep
<1>3. Init => Stream!Init
  <2> SUFFICES ASSUME Init
               PROVE  Stream!Init
    OBVIOUS
  <2>1. \A v \in TransmitVvcs : accepted[v] = <<>> /\ sent[v] = <<>>
    BY DEF Init, TransmitVvcs
  <2>2. QED
    BY <2>1 DEF Stream!Init
<1>4. QED
  BY <1>1, <1>2, <1>3, StreamStep, TypeCorrect, LoopsHold, BytesStayInOrder, PacketsStayInOrder,
     AlertMeansTooLong, PTL DEF Spec, Stream!Spec

=============================================================================
