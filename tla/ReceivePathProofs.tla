-------------------------- MODULE ReceivePathProofs --------------------------
(***************************************************************************)
(* Proofs about ReceivePath, for any set of VVCs, any number of workers,   *)
(* any requests, any width of size_t and any results.                      *)
(***************************************************************************)
EXTENDS ReceivePath, StreamFacts

-----------------------------------------------------------------------------
(* Queue operators.  The names of the sets of sequences keep their           *)
(* definitions from the provers.                                             *)

Bytes == Seq(Byte)
Packet == Seq(Byte) \ {<<>>}
Packets == Seq(Packet)
PacketQueue == [q : Packets, buff : Bytes]

\* A number of bytes becomes a natural number.
LEMMA SizeIsNat == ASSUME NEW n \in Int PROVE AsSize(n) \in Nat
BY SizeAssumption DEF AsSize

\* get(N) cuts the queue in what it takes and what it leaves.
LEMMA TakeFacts ==
    ASSUME NEW q \in Bytes, NEW n \in Nat
    PROVE  /\ TakenBytes(q, n) \in Bytes /\ RemainingBytes(q, n) \in Bytes
           /\ TakenBytes(q, n) \o RemainingBytes(q, n) = q
<1>1. Len(q) \in Nat
  BY LenProperties DEF Bytes
<1>2. TakeCount(q, n) \in 0..Len(q)
  BY <1>1 DEF TakeCount
<1> DEFINE count == TakeCount(q, n)
<1>3. TakenBytes(q, n) = SubSeq(q, 1, count) /\ RemainingBytes(q, n) = SubSeq(q, count + 1, Len(q))
  BY DEF TakenBytes, RemainingBytes
<1> HIDE DEF count
<1>4. count \in 0..Len(q)
  BY <1>2 DEF count
<1>5. QED
  BY <1>3, <1>4, CutInTwo DEF Bytes

\* get_pkt cuts the packets in what it takes and what it leaves.
LEMMA TakePacketFacts ==
    ASSUME NEW pq \in PacketQueue
    PROVE  /\ TakenPackets(pq) \in Packets /\ RemainingPackets(pq) \in PacketQueue
           /\ RemainingPackets(pq).buff = pq.buff
           /\ TakenPackets(pq) \o RemainingPackets(pq).q = pq.q
<1>1. CASE pq.q = <<>>
  <2>1. TakenPackets(pq) = <<>> /\ RemainingPackets(pq) = pq /\ <<>> \in Seq(Packet)
    BY <1>1, EmptySeq DEF TakenPackets, RemainingPackets
  <2>2. <<>> \o <<>> = <<>>
    BY <2>1, ConcatEmptySeq
  <2>3. QED
    BY <1>1, <2>1, <2>2 DEF Packets
<1>2. CASE pq.q # <<>>
  <2> DEFINE q == pq.q
  <2>1. q \in Seq(Packet) /\ pq.buff \in Bytes
    BY DEF PacketQueue, Packets
  <2>2. TakenPackets(pq) = <<Head(q)>> /\ RemainingPackets(pq) = [pq EXCEPT !.q = Tail(q)]
    BY <1>2 DEF TakenPackets, RemainingPackets
  <2> HIDE DEF q
  <2>3. Head(q) \in Packet /\ Tail(q) \in Seq(Packet) /\ q = <<Head(q)>> \o Tail(q)
    BY <1>2, <2>1, HeadThenTail DEF q
  <2>4. <<Head(q)>> \in Seq(Packet)
    BY <2>3
  <2> DEFINE rest == Tail(q)  new == [pq EXCEPT !.q = rest]
  <2>5. rest \in Packets
    BY <2>3 DEF Packets
  <2> HIDE DEF rest
  <2>6. new \in PacketQueue /\ new.q = rest /\ new.buff = pq.buff
    BY <2>1, <2>5 DEF PacketQueue
  <2> HIDE DEF new
  <2>7. RemainingPackets(pq) = new
    BY <2>2 DEF new, rest
  <2>8. QED
    BY <2>2, <2>3, <2>4, <2>6, <2>7 DEF Packets, rest, q
<1>3. QED
  BY <1>1, <1>2

\* put_byte either finishes a packet or makes the partial one longer.
LEMMA PutPacketByteFacts ==
    ASSUME NEW pq \in PacketQueue, NEW byte \in Byte, NEW eop \in BOOLEAN
    PROVE  LET new  == PutPacketByte(pq, byte, eop)
               more == Append(pq.buff, byte)
           IN  /\ new \in PacketQueue
               /\ more \in Packet
               /\ eop => new.q = Append(pq.q, more) /\ new.buff = <<>>
               /\ ~eop => new.q = pq.q /\ new.buff = more
<1> DEFINE more == Append(pq.buff, byte)
<1>1. pq.buff \in Seq(Byte) /\ pq.q \in Seq(Packet)
  BY DEF PacketQueue, Bytes, Packets
<1>2. more \in Seq(Byte) /\ Len(more) = Len(pq.buff) + 1 /\ Len(pq.buff) \in Nat
  BY <1>1, AppendProperties, LenProperties
<1>3. more \in Packet /\ more \in Bytes
  BY <1>2, EmptySeq DEF Packet, Bytes
<1>4. <<>> \in Bytes
  BY EmptySeq DEF Bytes
<1> HIDE DEF more
<1>5. CASE eop
  <2> DEFINE longer == Append(pq.q, more)
  <2>1. longer \in Packets
    BY <1>1, <1>3, AppendProperties DEF Packets
  <2>2. PutPacketByte(pq, byte, eop) = [q |-> longer, buff |-> <<>>]
    BY <1>5 DEF PutPacketByte, more
  <2> HIDE DEF longer
  <2> DEFINE new == [q |-> longer, buff |-> <<>>]
  <2>3. new \in PacketQueue /\ new.q = longer /\ new.buff = <<>>
    BY <1>4, <2>1 DEF PacketQueue
  <2> HIDE DEF new
  <2>4. PutPacketByte(pq, byte, eop) = new
    BY <2>2 DEF new
  <2>5. QED
    BY <1>3, <1>5, <2>3, <2>4, Zenon DEF longer, more
<1>6. CASE ~eop
  <2>1. PutPacketByte(pq, byte, eop) = [pq EXCEPT !.buff = more]
    BY <1>6 DEF PutPacketByte, more
  <2>2. [pq EXCEPT !.buff = more] \in PacketQueue
    BY <1>3 DEF PacketQueue
  <2>3. QED
    BY <1>3, <1>6, <2>1, <2>2 DEF PacketQueue, more
<1>7. QED
  BY <1>5, <1>6

-----------------------------------------------------------------------------
(* Types                                                                    *)

\* p_receive fetches a result only when it has stored the one before.
OneResult == \A v \in Vvcs : armed[v] => storing[v] = <<>>

Typed == TypeOK /\ OneResult

LEMMA TypeInit == Init => Typed
<1> SUFFICES ASSUME Init
             PROVE  Typed
  OBVIOUS
<1>1. <<>> \in Bytes /\ <<>> \in Packets /\ <<>> \in Seq(Seq(Byte))
  BY EmptySeq DEF Bytes, Packets
<1>2. EmptyPacketQueue \in PacketQueue
  BY <1>1 DEF EmptyPacketQueue, PacketQueue
<1>3. NoCall \in Calls /\ Success("empty") \in Replies
  BY DEF NoCall, Calls, Success, Replies
<1>4. /\ RegistryTypeOK
      /\ listen \in [Vvcs -> BOOLEAN]
      /\ byteRx \in [Vvcs -> Bytes]
      /\ armed \in [Vvcs -> BOOLEAN]
      /\ storing \in [Vvcs -> Bytes]
      /\ pc \in [Worker -> {"idle", "size", "get", "packet"}]
      /\ \A w \in Worker : pc[w] = "idle"
  BY <1>1 DEF Init, RegistryTypeOK
<1>5. packetRx \in [Vvcs -> PacketQueue] /\ \A v \in Vvcs : packetRx[v] = EmptyPacketQueue
  BY <1>2 DEF Init
<1>6. call \in [Worker -> Calls] /\ reply \in Replies
  BY <1>3 DEF Init
<1>7. /\ DOMAIN received = Vvcs /\ DOMAIN taken = Vvcs
      /\ \A v \in Vvcs : /\ received[v] = <<>> /\ taken[v] = <<>> /\ byteRx[v] = <<>>
                         /\ storing[v] = <<>>
  BY DEF Init
<1>8. PacketVvcs \subseteq Vvcs
  BY VvcsAssumption
<1>9. TypeOK
  BY <1>1, <1>4, <1>5, <1>6, <1>7, <1>8 DEF TypeOK, PacketQueue, Packets, Packet, Bytes
<1>10. QED
  BY <1>7, <1>9 DEF Typed, OneResult

\* TypeOK and OneResult with the sets of sequences named
PacketLists == Seq(Seq(Byte))
Types ==
    /\ registered \subseteq Vvcs
    /\ listen \in [Vvcs -> BOOLEAN]
    /\ byteRx \in [Vvcs -> Bytes]
    /\ packetRx \in [Vvcs -> PacketQueue]
    /\ pc \in [Worker -> {"idle", "size", "get", "packet"}]
    /\ call \in [Worker -> Calls]
    /\ reply \in Replies
    /\ armed \in [Vvcs -> BOOLEAN]
    /\ storing \in [Vvcs -> Bytes]
    /\ DOMAIN received = Vvcs /\ DOMAIN taken = Vvcs
    /\ \A v \in Vvcs : v \notin PacketVvcs =>
          /\ received[v] \in Bytes /\ taken[v] \in Bytes
          /\ packetRx[v] = EmptyPacketQueue
    /\ \A v \in PacketVvcs :
          /\ received[v] \in PacketLists /\ taken[v] \in PacketLists
          /\ byteRx[v] = <<>>
    /\ \A w \in Worker :
          /\ pc[w] \in {"size", "get"} => HasByteQueue(call[w].vvc)
          /\ pc[w] = "packet" => HasPacketQueue(call[w].vvc)
    /\ \A v \in Vvcs : armed[v] => storing[v] = <<>>

LEMMA TypesNamed == Typed <=> Types
BY DEF Typed, TypeOK, OneResult, Types, RegistryTypeOK, Bytes, PacketQueue, Packets, Packet,
       PacketLists

\* What is a sequence of packets is one of byte sequences.
LEMMA PacketsAreLists == \A s \in Packets : s \in PacketLists
BY SeqMonotonic, Seq(Byte) \ {<<>>} \subseteq Seq(Byte) DEF Packets, Packet, PacketLists

LEMMA ListsConcat == \A x, y \in PacketLists : x \o y \in PacketLists
BY ConcatProperties DEF PacketLists

LEMMA BytesConcat == \A x, y \in Bytes : x \o y \in Bytes
BY ConcatProperties DEF Bytes

\* The next byte of a result, and what is left after it
LEMMA NextByte ==
    ASSUME NEW s \in Bytes, s # <<>>
    PROVE  Head(s) \in Byte /\ Tail(s) \in Bytes /\ <<Head(s)>> \in Bytes
BY HeadThenTail DEF Bytes

LEMMA TypesStep == Types /\ [Next]_vars => Types'
<1> SUFFICES ASSUME Types, [Next]_vars
             PROVE  Types'
  OBVIOUS
<1>a. Failure \in Replies /\ \A r \in {"empty", "data"} : Success(r) \in Replies
  BY DEF Failure, Success, Replies
<1>b. NoCall \in Calls
  BY DEF NoCall, Calls
<1>c. PacketVvcs \subseteq Vvcs
  BY VvcsAssumption
<1>1. ASSUME NEW v \in Vvcs, ReportVvc(v)
      PROVE  Types'
  BY <1>1 DEF Types, ReportVvc, AddVvc, rpc, receiver, HasByteQueue, HasPacketQueue
<1>2. ASSUME NEW t \in Targets, NEW enable \in BOOLEAN, SetVvcListenEnable(t, enable)
      PROVE  Types'
  <2> DEFINE k == RxKey(t)
  <2>1. /\ UNCHANGED <<registered, byteRx, packetRx, pc, call, taken, armed, storing, received>>
        /\ listen' = listen \/ (k \in registered /\ listen' = [listen EXCEPT ![k] = enable])
        /\ reply' \in Replies
    BY <1>2, <1>a DEF SetVvcListenEnable, receiver
  <2> HIDE DEF k
  <2>2. QED
    BY <2>1 DEF Types, HasByteQueue, HasPacketQueue
<1>3. ASSUME NEW w \in Worker, NEW t \in Targets, NEW n \in NumBytes, NEW exact \in ExactLength,
             ReceiveBytes(w, t, n, exact)
      PROVE  Types'
  <2> DEFINE k == RxKey(t)
             new == [vvc |-> k, n |-> n, exact |-> exact]
  <2>1. /\ UNCHANGED <<registered, listen, byteRx, packetRx, taken, armed, storing, received>>
        /\ \/ /\ pc' = [pc EXCEPT ![w] = "idle"] /\ call' = [call EXCEPT ![w] = NoCall]
              /\ reply' \in Replies
           \/ /\ HasByteQueue(k)
              /\ \E p \in {"size", "get"} : pc' = [pc EXCEPT ![w] = p]
              /\ call' = [call EXCEPT ![w] = new]
              /\ reply' = reply
    BY <1>3, <1>a DEF ReceiveBytes, Return, receiver
  <2>2. HasByteQueue(k) => new \in Calls
    BY RequestAssumption DEF HasByteQueue, Types, Calls
  <2>3. new.vvc = k
    OBVIOUS
  <2> HIDE DEF k, new
  <2>4. QED
    BY <1>b, <2>1, <2>2, <2>3 DEF Types, HasByteQueue, HasPacketQueue
<1>4. ASSUME NEW w \in Worker, NEW t \in Targets, ReceivePacket(w, t)
      PROVE  Types'
  <2> DEFINE k == RxKey(t)
             new == [NoCall EXCEPT !.vvc = k]
  <2>1. /\ UNCHANGED <<registered, listen, byteRx, packetRx, taken, armed, storing, received>>
        /\ \/ /\ pc' = [pc EXCEPT ![w] = "idle"] /\ call' = [call EXCEPT ![w] = NoCall]
              /\ reply' \in Replies
           \/ /\ HasPacketQueue(k)
              /\ pc' = [pc EXCEPT ![w] = "packet"]
              /\ call' = [call EXCEPT ![w] = new]
              /\ reply' = reply
    BY <1>4, <1>a DEF ReceivePacket, Return, receiver
  <2>2. HasPacketQueue(k) => new \in Calls
    <3>1. ASSUME NEW c \in Calls, NEW v \in Vvcs
          PROVE  [c EXCEPT !.vvc = v] \in Calls
      BY DEF Calls
    <3>2. HasPacketQueue(k) => k \in Vvcs
      BY DEF HasPacketQueue, Types
    <3> HIDE DEF k
    <3>3. QED
      BY <1>b, <3>1, <3>2
  <2>3. new.vvc = k
    BY DEF NoCall
  <2> HIDE DEF k, new
  <2>4. QED
    BY <1>b, <2>1, <2>2, <2>3 DEF Types, HasByteQueue, HasPacketQueue
<1>5. ASSUME NEW w \in Worker, CheckSize(w)
      PROVE  Types'
  <2>1. /\ UNCHANGED <<registered, listen, byteRx, packetRx, taken, armed, storing, received>>
        /\ pc[w] = "size"
        /\ \/ /\ pc' = [pc EXCEPT ![w] = "idle"] /\ call' = [call EXCEPT ![w] = NoCall]
              /\ reply' \in Replies
           \/ /\ pc' = [pc EXCEPT ![w] = "get"]
              /\ call' = call /\ reply' = reply
    BY <1>5, <1>a DEF CheckSize, Return, receiver
  <2>2. QED
    BY <1>b, <2>1 DEF Types, HasByteQueue, HasPacketQueue
<1>6. ASSUME NEW w \in Worker, GetBytes(w)
      PROVE  Types'
  <2> DEFINE v == call[w].vvc
             size == AsSize(call[w].n)
             out == TakenBytes(byteRx[v], size)
             rest == RemainingBytes(byteRx[v], size)
             all == taken[v] \o out
  <2>1. /\ UNCHANGED <<registered, listen, packetRx, armed, storing, received>>
        /\ pc[w] = "get"
        /\ byteRx' = [byteRx EXCEPT ![v] = rest] /\ taken' = [taken EXCEPT ![v] = all]
        /\ pc' = [pc EXCEPT ![w] = "idle"] /\ call' = [call EXCEPT ![w] = NoCall]
        /\ reply' \in Replies
    BY <1>6, <1>a DEF GetBytes, Return, receiver
  <2>2. v \in Vvcs /\ v \notin PacketVvcs /\ call[w].n \in Int
    BY <2>1 DEF Types, HasByteQueue, Calls
  <2>3. rest \in Bytes /\ all \in Bytes
    <3>1. size \in Nat /\ byteRx[v] \in Bytes /\ taken[v] \in Bytes
      BY <2>2, SizeIsNat DEF Types
    <3> HIDE DEF size, v
    <3>2. out \in Bytes /\ rest \in Bytes
      BY <3>1, TakeFacts
    <3>3. QED
      BY <3>1, <3>2, BytesConcat
  <2> HIDE DEF v, size, out, rest, all
  <2>4. QED
    BY <1>b, <1>c, <2>1, <2>2, <2>3 DEF Types, HasByteQueue, HasPacketQueue
<1>7. ASSUME NEW w \in Worker, GetPacket(w)
      PROVE  Types'
  <2> DEFINE v == call[w].vvc
             out == TakenPackets(packetRx[v])
             rest == RemainingPackets(packetRx[v])
             all == taken[v] \o out
  <2>1. /\ UNCHANGED <<registered, listen, byteRx, armed, storing, received>>
        /\ pc[w] = "packet"
        /\ packetRx' = [packetRx EXCEPT ![v] = rest] /\ taken' = [taken EXCEPT ![v] = all]
        /\ pc' = [pc EXCEPT ![w] = "idle"] /\ call' = [call EXCEPT ![w] = NoCall]
        /\ reply' \in Replies
    BY <1>7, <1>a DEF GetPacket, Return, receiver
  <2>2. v \in Vvcs /\ v \in PacketVvcs
    BY <1>c, <2>1 DEF Types, HasPacketQueue
  <2>3. rest \in PacketQueue /\ all \in PacketLists
    <3>1. packetRx[v] \in PacketQueue /\ taken[v] \in PacketLists
      BY <2>2 DEF Types
    <3> HIDE DEF v
    <3>2. out \in Packets /\ rest \in PacketQueue
      BY <3>1, TakePacketFacts
    <3>3. QED
      BY <3>1, <3>2, ListsConcat, PacketsAreLists
  <2> HIDE DEF v, out, rest, all
  <2>4. QED
    BY <1>b, <1>c, <2>1, <2>2, <2>3 DEF Types, HasByteQueue, HasPacketQueue
<1>8. ASSUME NEW v \in Vvcs, StartReceive(v)
      PROVE  Types'
  BY <1>8 DEF StartReceive, rpc, Types, HasByteQueue, HasPacketQueue
<1>9. ASSUME NEW v \in Vvcs, NEW result \in Result, CompleteReceive(v, result)
      PROVE  Types'
  <2> DEFINE new == IF result = <<>> THEN received[v]
                    ELSE IF v \in PacketVvcs THEN Append(received[v], result)
                    ELSE received[v] \o result
  <2>1. /\ UNCHANGED <<registered, listen, byteRx, packetRx, pc, call, reply, taken>>
        /\ armed' = [armed EXCEPT ![v] = FALSE]
        /\ storing' = [storing EXCEPT ![v] = result]
        /\ received' = [received EXCEPT ![v] = new]
    BY <1>9 DEF CompleteReceive, rpc
  <2>2. result \in Bytes
    BY ResultAssumption DEF Bytes
  <2>3. v \in PacketVvcs => new \in PacketLists
    BY <2>2, AppendProperties DEF Types, PacketLists, Bytes
  <2>4. v \notin PacketVvcs => new \in Bytes
    BY <2>2, BytesConcat DEF Types
  <2> HIDE DEF new
  <2>5. QED
    BY <1>c, <2>1, <2>2, <2>3, <2>4 DEF Types, HasByteQueue, HasPacketQueue
<1>10. ASSUME NEW v \in Vvcs, StoreByte(v)
       PROVE  Types'
  <2> DEFINE rest == Tail(storing[v])
             new == byteRx[v] \o <<Head(storing[v])>>
  <2>1. /\ UNCHANGED <<registered, listen, packetRx, pc, call, reply, taken, armed, received>>
        /\ v \notin PacketVvcs /\ storing[v] # <<>>
        /\ storing' = [storing EXCEPT ![v] = rest]
        /\ byteRx' = [byteRx EXCEPT ![v] = new]
    BY <1>10 DEF StoreByte, PutBytes, rpc
  <2>2. rest \in Bytes /\ new \in Bytes
    BY <2>1, NextByte, BytesConcat DEF Types
  <2> HIDE DEF rest, new
  <2>3. QED
    BY <1>c, <2>1, <2>2 DEF Types, HasByteQueue, HasPacketQueue
<1>11. ASSUME NEW v \in Vvcs, StorePacketByte(v)
       PROVE  Types'
  <2> DEFINE rest == Tail(storing[v])
             last == Len(storing[v]) = 1
             new == PutPacketByte(packetRx[v], Head(storing[v]), last)
  <2>1. /\ UNCHANGED <<registered, listen, byteRx, pc, call, reply, taken, armed, received>>
        /\ v \in PacketVvcs /\ storing[v] # <<>>
        /\ storing' = [storing EXCEPT ![v] = rest]
        /\ packetRx' = [packetRx EXCEPT ![v] = new]
    BY <1>11 DEF StorePacketByte, rpc
  <2>2. rest \in Bytes /\ Head(storing[v]) \in Byte
    BY <2>1, NextByte DEF Types
  <2>3. new \in PacketQueue
    <3>1. packetRx[v] \in PacketQueue /\ last \in BOOLEAN
      BY DEF Types
    <3> HIDE DEF last
    <3>2. QED
      BY <2>2, <3>1, PutPacketByteFacts
  <2> HIDE DEF rest, new
  <2>4. QED
    BY <1>c, <2>1, <2>2, <2>3 DEF Types, HasByteQueue, HasPacketQueue
<1>12. CASE UNCHANGED vars
  BY <1>12 DEF vars, rpc, receiver, Types, HasByteQueue, HasPacketQueue
<1>13. QED
  BY <1>1, <1>2, <1>3, <1>4, <1>5, <1>6, <1>7, <1>8, <1>9, <1>10, <1>11, <1>12
     DEF Next, Request, WorkerStep, ReceiveProcess

LEMMA TypesAlways == Spec => []Types
BY TypeInit, TypesNamed, TypesStep, PTL DEF Spec

\* The variables have their types in every reachable state: a worker is past the
\* first access of a procedure only for a registered VVC of its mode, so that the
\* exceptions of the later accesses never occur, however many workers there are.
THEOREM ReceiveTypeCorrect == Spec => []TypeOK
<1>1. Types => TypeOK
  BY TypesNamed DEF Typed
<1>2. QED
  BY <1>1, TypesAlways, PTL

-----------------------------------------------------------------------------
(* Nothing is lost or made up                                               *)

LEMMA BytesRegroup == \A x, y, z \in Bytes : (x \o y) \o z = x \o (y \o z)
BY ConcatAssociative, SMTT(60) DEF Bytes

LEMMA ListsRegroup == \A x, y, z \in PacketLists : (x \o y) \o z = x \o (y \o z)
BY ConcatAssociative, SMTT(60) DEF PacketLists

LEMMA BytesAndNothing == \A x \in Bytes : x \o <<>> = x /\ <<>> \o x = x
BY ConcatEmptySeq DEF Bytes

LEMMA ListsAndNothing == \A x \in PacketLists : x \o <<>> = x /\ <<>> \o x = x
BY ConcatEmptySeq DEF PacketLists

\* The three parts of what a VVC has received
Whole(out, queued, held) == (out \o queued) \o held

\* Taking from the queue, and putting in it what was held, keep the whole.
LEMMA MoveBytes ==
    \A t, x, r, h \in Bytes :
        /\ Whole(t, x \o r, h) = Whole(t \o x, r, h)
        /\ Whole(t, r \o x, h) = Whole(t, r, x \o h)
<1> TAKE t, x, r, h \in Bytes
<1>1. (t \o x) \o r = t \o (x \o r)
  BY BytesRegroup
<1>2. (t \o (r \o x)) \o h = (t \o r) \o (x \o h)
  <2> DEFINE tr == t \o r
  <2>1. tr \in Bytes
    BY BytesConcat
  <2>2. t \o (r \o x) = tr \o x
    BY BytesRegroup
  <2> HIDE DEF tr
  <2>3. (tr \o x) \o h = tr \o (x \o h)
    BY <2>1, BytesRegroup
  <2>4. QED
    BY <2>2, <2>3 DEF tr
<1>3. QED
  BY <1>1, <1>2 DEF Whole

LEMMA MovePackets ==
    \A t, x, r, h \in PacketLists :
        /\ Whole(t, x \o r, h) = Whole(t \o x, r, h)
        /\ Whole(t, r \o x, h) = Whole(t, r, x \o h)
<1> TAKE t, x, r, h \in PacketLists
<1>1. (t \o x) \o r = t \o (x \o r)
  BY ListsRegroup
<1>2. (t \o (r \o x)) \o h = (t \o r) \o (x \o h)
  <2> DEFINE tr == t \o r
  <2>1. tr \in PacketLists
    BY ListsConcat
  <2>2. t \o (r \o x) = tr \o x
    BY ListsRegroup
  <2> HIDE DEF tr
  <2>3. (tr \o x) \o h = tr \o (x \o h)
    BY <2>1, ListsRegroup
  <2>4. QED
    BY <2>2, <2>3 DEF tr
<1>3. QED
  BY <1>1, <1>2 DEF Whole

\* What a step may do to the part of the state that belongs to VVC v: nothing, a
\* worker takes from the queue, a result arrives, or its next byte is stored.
SameStream(v) ==
    /\ received'[v] = received[v] /\ taken'[v] = taken[v] /\ storing'[v] = storing[v]
    /\ byteRx'[v] = byteRx[v] /\ packetRx'[v] = packetRx[v]

TakesBytes(v) ==
    \E size \in Nat :
        /\ v \notin PacketVvcs
        /\ byteRx'[v] = RemainingBytes(byteRx[v], size)
        /\ taken'[v] = taken[v] \o TakenBytes(byteRx[v], size)
        /\ received'[v] = received[v] /\ storing'[v] = storing[v]

TakesPacket(v) ==
    /\ v \in PacketVvcs
    /\ packetRx'[v] = RemainingPackets(packetRx[v])
    /\ taken'[v] = taken[v] \o TakenPackets(packetRx[v])
    /\ received'[v] = received[v] /\ storing'[v] = storing[v]

Arrives(v) ==
    \E result \in Bytes :
        /\ storing[v] = <<>> /\ storing'[v] = result
        /\ received'[v] = IF result = <<>> THEN received[v]
                          ELSE IF v \in PacketVvcs THEN Append(received[v], result)
                          ELSE received[v] \o result
        /\ taken'[v] = taken[v] /\ byteRx'[v] = byteRx[v] /\ packetRx'[v] = packetRx[v]

StoresByte(v) ==
    /\ storing[v] # <<>> /\ v \notin PacketVvcs
    /\ byteRx'[v] = byteRx[v] \o <<Head(storing[v])>>
    /\ storing'[v] = Tail(storing[v])
    /\ received'[v] = received[v] /\ taken'[v] = taken[v]

StoresPacketByte(v) ==
    /\ storing[v] # <<>> /\ v \in PacketVvcs
    /\ packetRx'[v] = PutPacketByte(packetRx[v], Head(storing[v]), Len(storing[v]) = 1)
    /\ storing'[v] = Tail(storing[v])
    /\ received'[v] = received[v] /\ taken'[v] = taken[v]

LEMMA StepOfStream ==
    ASSUME Types, [Next]_vars, NEW v \in Vvcs
    PROVE  \/ SameStream(v) \/ TakesBytes(v) \/ TakesPacket(v) \/ Arrives(v)
           \/ StoresByte(v) \/ StoresPacketByte(v)
<1>1. ASSUME NEW u \in Vvcs, ReportVvc(u) \/ StartReceive(u)
      PROVE  SameStream(v)
  BY <1>1 DEF ReportVvc, StartReceive, rpc, receiver, SameStream
<1>2. ASSUME NEW t \in Targets, NEW enable \in BOOLEAN, SetVvcListenEnable(t, enable)
      PROVE  SameStream(v)
  BY <1>2 DEF SetVvcListenEnable, receiver, SameStream
<1>3. ASSUME NEW w \in Worker, NEW t \in Targets, NEW n \in NumBytes, NEW exact \in ExactLength,
             ReceiveBytes(w, t, n, exact)
      PROVE  SameStream(v)
  BY <1>3 DEF ReceiveBytes, receiver, SameStream
<1>4. ASSUME NEW w \in Worker, NEW t \in Targets, ReceivePacket(w, t)
      PROVE  SameStream(v)
  BY <1>4 DEF ReceivePacket, receiver, SameStream
<1>5. ASSUME NEW w \in Worker, CheckSize(w)
      PROVE  SameStream(v)
  BY <1>5 DEF CheckSize, receiver, SameStream
<1>6. ASSUME NEW w \in Worker, GetBytes(w)
      PROVE  SameStream(v) \/ TakesBytes(v)
  <2> DEFINE u == call[w].vvc  size == AsSize(call[w].n)
  <2>1. u \in Vvcs /\ u \notin PacketVvcs /\ size \in Nat
    BY <1>6, SizeIsNat DEF GetBytes, Types, HasByteQueue, Calls
  <2>2. /\ byteRx' = [byteRx EXCEPT ![u] = RemainingBytes(byteRx[u], size)]
        /\ taken' = [taken EXCEPT ![u] = taken[u] \o TakenBytes(byteRx[u], size)]
        /\ UNCHANGED <<packetRx, storing, received>>
    BY <1>6 DEF GetBytes, receiver
  <2> HIDE DEF u, size
  <2>3. QED
    BY <2>1, <2>2 DEF Types, SameStream, TakesBytes
<1>7. ASSUME NEW w \in Worker, GetPacket(w)
      PROVE  SameStream(v) \/ TakesPacket(v)
  <2> DEFINE u == call[w].vvc
  <2>1. u \in PacketVvcs
    BY <1>7 DEF GetPacket, Types, HasPacketQueue
  <2>2. /\ packetRx' = [packetRx EXCEPT ![u] = RemainingPackets(packetRx[u])]
        /\ taken' = [taken EXCEPT ![u] = taken[u] \o TakenPackets(packetRx[u])]
        /\ UNCHANGED <<byteRx, storing, received>>
    BY <1>7 DEF GetPacket, receiver
  <2> HIDE DEF u
  <2>3. QED
    BY <2>1, <2>2 DEF Types, SameStream, TakesPacket
<1>8. ASSUME NEW u \in Vvcs, NEW result \in Result, CompleteReceive(u, result)
      PROVE  SameStream(v) \/ Arrives(v)
  <2>1. result \in Bytes /\ storing[u] = <<>>
    BY <1>8, ResultAssumption DEF CompleteReceive, Types, Bytes
  <2> DEFINE new == IF result = <<>> THEN received[u]
                    ELSE IF u \in PacketVvcs THEN Append(received[u], result)
                    ELSE received[u] \o result
  <2>2. /\ received' = [received EXCEPT ![u] = new]
        /\ storing' = [storing EXCEPT ![u] = result]
        /\ UNCHANGED <<byteRx, packetRx, taken>>
    BY <1>8 DEF CompleteReceive, rpc
  <2>3. CASE u # v
    BY <2>2, <2>3 DEF Types, SameStream
  <2>4. CASE u = v
    <3>1. received'[v] = new /\ storing'[v] = result
      BY <2>2, <2>4 DEF Types
    <3>2. QED
      BY <2>1, <2>2, <2>4, <3>1, Zenon DEF Arrives
  <2>5. QED
    BY <2>3, <2>4
<1>9. ASSUME NEW u \in Vvcs, StoreByte(u)
      PROVE  SameStream(v) \/ StoresByte(v)
  BY <1>9 DEF StoreByte, PutBytes, rpc, Types, SameStream, StoresByte
<1>10. ASSUME NEW u \in Vvcs, StorePacketByte(u)
       PROVE  SameStream(v) \/ StoresPacketByte(v)
  BY <1>10 DEF StorePacketByte, rpc, Types, SameStream, StoresPacketByte
<1>11. CASE UNCHANGED vars
  BY <1>11 DEF vars, rpc, receiver, SameStream
<1>12. QED
  BY <1>1, <1>2, <1>3, <1>4, <1>5, <1>6, <1>7, <1>8, <1>9, <1>10, <1>11
     DEF Next, Request, WorkerStep, ReceiveProcess

LEMMA BytesStep == Types /\ BytesConserved /\ [Next]_vars => BytesConserved'
<1> SUFFICES ASSUME Types, BytesConserved, [Next]_vars, NEW v \in Vvcs \ PacketVvcs
             PROVE  received'[v] = Whole(taken'[v], byteRx'[v], storing'[v])
  BY DEF BytesConserved, Whole
<1> DEFINE a == received[v]  t == taken[v]  q == byteRx[v]  h == storing[v]
<1>a. a \in Bytes /\ t \in Bytes /\ q \in Bytes /\ h \in Bytes /\ v \in Vvcs /\ v \notin PacketVvcs
  BY DEF Types
<1>b. a = Whole(t, q, h)
  BY DEF BytesConserved, Whole
<1> HIDE DEF a, t, q, h
<1>1. CASE SameStream(v)
  BY <1>1, <1>b DEF SameStream, a, t, q, h
<1>2. CASE TakesBytes(v)
  <2>1. PICK size \in Nat :
            /\ byteRx'[v] = RemainingBytes(q, size)
            /\ taken'[v] = t \o TakenBytes(q, size)
            /\ received'[v] = a /\ storing'[v] = h
    BY <1>2 DEF TakesBytes, a, t, q, h
  <2> DEFINE x == TakenBytes(q, size)  r == RemainingBytes(q, size)
  <2>2. x \in Bytes /\ r \in Bytes /\ x \o r = q
    BY <1>a, TakeFacts
  <2> HIDE DEF x, r
  <2>3. Whole(t, x \o r, h) = Whole(t \o x, r, h)
    <3>1. t \in Bytes /\ x \in Bytes /\ r \in Bytes /\ h \in Bytes
      BY <1>a, <2>2
    <3>2. QED
      BY <3>1, MoveBytes
  <2>4. QED
    BY <1>b, <2>1, <2>2, <2>3 DEF x, r
<1>3. CASE Arrives(v)
  <2>1. PICK result \in Bytes :
            /\ h = <<>> /\ storing'[v] = result
            /\ received'[v] = IF result = <<>> THEN a ELSE a \o result
            /\ taken'[v] = t /\ byteRx'[v] = q
    BY <1>3, <1>a DEF Arrives, a, t, q, h
  <2> DEFINE tq == t \o q
  <2>2. tq \in Bytes
    BY <1>a, BytesConcat
  <2> HIDE DEF tq
  <2>3. a = tq
    BY <1>b, <2>1, <2>2, BytesAndNothing DEF Whole, tq
  <2>4. received'[v] = tq \o result
    BY <2>1, <2>2, <2>3, BytesAndNothing
  <2>5. QED
    BY <2>1, <2>4 DEF Whole, tq
<1>4. CASE StoresByte(v)
  <2> DEFINE x == <<Head(h)>>  r == Tail(h)
  <2>1. /\ h # <<>> /\ byteRx'[v] = q \o x /\ storing'[v] = r
        /\ received'[v] = a /\ taken'[v] = t
    BY <1>4 DEF StoresByte, a, t, q, h
  <2>2. x \in Bytes /\ r \in Bytes /\ h = x \o r
    BY <1>a, <2>1, HeadThenTail, NextByte DEF Bytes
  <2> HIDE DEF x, r
  <2>3. Whole(t, q \o x, r) = Whole(t, q, x \o r)
    BY <1>a, <2>2, MoveBytes
  <2>4. QED
    BY <1>b, <2>1, <2>2, <2>3
<1>5. CASE TakesPacket(v) \/ StoresPacketByte(v)
  BY <1>5 DEF TakesPacket, StoresPacketByte
<1>6. QED
  BY <1>1, <1>2, <1>3, <1>4, <1>5, StepOfStream

\* Bytes got from a VVC are kept in order and once each until responses take them,
\* whatever number of workers reads the queue.
THEOREM BytesAlwaysConserved == Spec => []BytesConserved
<1>1. Init => BytesConserved
  <2>1. <<>> \o <<>> \o <<>> = <<>>
    BY EmptySeq, ConcatEmptySeq
  <2>2. QED
    BY <2>1 DEF Init, BytesConserved
<1>2. QED
  BY <1>1, BytesStep, TypesAlways, PTL DEF Spec

-----------------------------------------------------------------------------
(* Packets                                                                  *)

\* The packet under way as a list of none or one
LEMMA PartialIsList ==
    ASSUME Types, NEW v \in PacketVvcs
    PROVE  PartialPacket(v) \in PacketLists
<1>1. v \in Vvcs /\ storing[v] \in Bytes /\ packetRx[v] \in PacketQueue
  BY VvcsAssumption DEF Types
<1>2. packetRx[v].buff \o storing[v] \in Bytes
  BY <1>1, BytesConcat DEF PacketQueue
<1> DEFINE b == packetRx[v].buff \o storing[v]
<1>3. b \in Seq(Byte)
  BY <1>2 DEF Bytes
<1> HIDE DEF b
<1>4. <<b>> \in Seq(Seq(Byte)) /\ <<>> \in Seq(Seq(Byte))
  BY <1>3, EmptySeq
<1>5. QED
  BY <1>4 DEF PartialPacket, PacketLists, b

\* One more byte of the packet under way
LEMMA GrowPacket ==
    ASSUME NEW buff \in Bytes, NEW s \in Bytes, s # <<>>
    PROVE  /\ Append(buff, Head(s)) \o Tail(s) = buff \o s
           /\ Len(s) = 1 => Tail(s) = <<>>
           /\ Len(s) # 1 => Tail(s) # <<>>
           /\ Tail(s) = <<>> => Append(buff, Head(s)) = buff \o s
<1> DEFINE x == <<Head(s)>>  r == Tail(s)
<1>1. x \in Bytes /\ r \in Bytes /\ s = x \o r
  BY HeadThenTail, NextByte DEF Bytes
<1>2. Append(buff, Head(s)) = buff \o x
  BY NextByte, AppendIsConcat DEF Bytes
<1>3. (buff \o x) \o r = buff \o (x \o r)
  BY <1>1, BytesRegroup
<1>4. Len(r) = Len(s) - 1 /\ Len(s) \in Nat /\ (r = <<>> <=> Len(r) = 0)
  BY HeadTailProperties, LenProperties, EmptySeq DEF Bytes
<1>5. (buff \o x) \o <<>> = buff \o x
  BY <1>1, BytesConcat, BytesAndNothing
<1> HIDE DEF x, r
<1>6. Append(buff, Head(s)) \o r = buff \o s
  BY <1>1, <1>2, <1>3, Zenon
<1>7. r = <<>> => Append(buff, Head(s)) = buff \o s
  BY <1>2, <1>5, <1>6, Zenon
<1>8. (Len(s) = 1 => r = <<>>) /\ (Len(s) # 1 => r # <<>>)
  BY <1>4
<1>9. QED
  BY <1>6, <1>7, <1>8, Zenon DEF r

LEMMA OneIsList == \A x \in Bytes : <<x>> \in PacketLists
BY DEF Bytes, PacketLists

LEMMA AppendIsMore == \A s \in PacketLists, x \in Bytes : Append(s, x) = s \o <<x>>
BY AppendIsConcat DEF Bytes, PacketLists

LEMMA PacketsStep == Types /\ PacketsConserved /\ [Next]_vars => PacketsConserved'
<1> SUFFICES ASSUME Types, PacketsConserved, [Next]_vars, NEW v \in PacketVvcs
             PROVE  /\ received'[v] = Whole(taken'[v], packetRx'[v].q, PartialPacket(v)')
                    /\ storing'[v] = <<>> => packetRx'[v].buff = <<>>
  BY DEF PacketsConserved, Whole
<1> DEFINE a == received[v]  t == taken[v]  pq == packetRx[v]  h == storing[v]
           p == PartialPacket(v)
<1>a. /\ a \in PacketLists /\ t \in PacketLists /\ pq \in PacketQueue /\ h \in Bytes
      /\ v \in Vvcs /\ p \in PacketLists
  BY VvcsAssumption, PartialIsList DEF Types
<1>b. pq.q \in Packets /\ pq.q \in PacketLists /\ pq.buff \in Bytes
  BY <1>a, PacketsAreLists DEF PacketQueue
<1>c. a = Whole(t, pq.q, p) /\ (h = <<>> => pq.buff = <<>>)
  BY DEF PacketsConserved, Whole
<1>d. p = IF h = <<>> THEN <<>> ELSE <<pq.buff \o h>>
  BY DEF PartialPacket
<1>e. PartialPacket(v)' = IF storing'[v] = <<>> THEN <<>> ELSE <<packetRx'[v].buff \o storing'[v]>>
  BY DEF PartialPacket
<1> HIDE DEF a, t, pq, h, p
<1>1. CASE SameStream(v)
  BY <1>1, <1>c, <1>d, <1>e DEF SameStream, a, t, pq, h
<1>2. CASE TakesPacket(v)
  <2> DEFINE x == TakenPackets(pq)  rest == RemainingPackets(pq)  r == rest.q
  <2>1. /\ packetRx'[v] = rest /\ taken'[v] = t \o x
        /\ received'[v] = a /\ storing'[v] = h
    BY <1>2 DEF TakesPacket, a, t, pq, h
  <2>2. /\ x \in Packets /\ rest \in PacketQueue /\ rest.buff = pq.buff /\ x \o r = pq.q
    BY <1>a, TakePacketFacts
  <2>3. x \in PacketLists /\ r \in PacketLists
    BY <2>2, PacketsAreLists DEF PacketQueue
  <2> HIDE DEF x, rest
  <2>4. Whole(t, x \o r, p) = Whole(t \o x, r, p)
    <3> HIDE DEF r
    <3>1. t \in PacketLists /\ x \in PacketLists /\ r \in PacketLists /\ p \in PacketLists
      BY <1>a, <2>3
    <3>2. QED
      BY <3>1, MovePackets
  <2>5. PartialPacket(v)' = p
    BY <1>d, <1>e, <2>1, <2>2
  <2>6. QED
    BY <1>c, <2>1, <2>2, <2>4, <2>5
<1>3. CASE Arrives(v)
  <2>1. PICK result \in Bytes :
            /\ h = <<>> /\ storing'[v] = result
            /\ received'[v] = IF result = <<>> THEN a ELSE Append(a, result)
            /\ taken'[v] = t /\ packetRx'[v] = pq
    BY <1>3 DEF Arrives, a, t, pq, h
  <2> DEFINE tq == t \o pq.q
  <2>2. tq \in PacketLists
    BY <1>a, <1>b, ListsConcat
  <2>3. pq.buff = <<>> /\ p = <<>>
    BY <1>c, <1>d, <2>1
  <2> HIDE DEF tq
  <2>4. a = tq
    BY <1>c, <2>2, <2>3, ListsAndNothing DEF Whole, tq
  <2>5. CASE result = <<>>
    BY <1>c, <1>e, <2>1, <2>3, <2>5
  <2>6. CASE result # <<>>
    <3>1. PartialPacket(v)' = <<result>>
      BY <1>e, <2>1, <2>3, <2>6, BytesAndNothing
    <3>2. received'[v] = tq \o <<result>>
      BY <2>1, <2>2, <2>4, <2>6, AppendIsMore
    <3>3. QED
      BY <2>1, <2>6, <3>1, <3>2 DEF Whole, tq
  <2>7. QED
    BY <2>5, <2>6
<1>4. CASE StoresPacketByte(v)
  <2> DEFINE last == Len(h) = 1
             new == PutPacketByte(pq, Head(h), last)
             more == Append(pq.buff, Head(h))
  <2>1. /\ h # <<>> /\ packetRx'[v] = new /\ storing'[v] = Tail(h)
        /\ received'[v] = a /\ taken'[v] = t
    BY <1>4 DEF StoresPacketByte, a, t, pq, h
  <2>2. Head(h) \in Byte /\ last \in BOOLEAN
    BY <1>a, <2>1, NextByte
  <2>3. /\ last => new.q = Append(pq.q, more) /\ new.buff = <<>>
        /\ ~last => new.q = pq.q /\ new.buff = more
    <3> HIDE DEF last
    <3>1. QED
      BY <1>a, <2>2, PutPacketByteFacts
  <2>4. /\ more \o Tail(h) = pq.buff \o h
        /\ last => Tail(h) = <<>> /\ more = pq.buff \o h
        /\ ~last => Tail(h) # <<>>
    BY <1>a, <1>b, <2>1, GrowPacket
  <2>5. pq.buff \o h \in Bytes /\ p = <<pq.buff \o h>>
    BY <1>a, <1>b, <1>d, <2>1, BytesConcat
  <2> HIDE DEF last, new, more
  <2>6. CASE last
    <3> DEFINE tq == t \o (pq.q \o p)
    <3>1. new.q = pq.q \o p
      BY <1>b, <2>3, <2>4, <2>5, <2>6, AppendIsMore
    <3>2. tq \in PacketLists /\ tq = (t \o pq.q) \o p
      BY <1>a, <1>b, ListsConcat, ListsRegroup
    <3>3. PartialPacket(v)' = <<>> /\ packetRx'[v].buff = <<>>
      BY <1>e, <2>1, <2>3, <2>4, <2>6
    <3> HIDE DEF tq
    <3>4. tq \o <<>> = tq
      BY <3>2, ListsAndNothing
    <3>5. QED
      BY <1>c, <2>1, <3>1, <3>2, <3>3, <3>4 DEF Whole, tq
  <2>7. CASE ~last
    <3>1. PartialPacket(v)' = p
      BY <1>e, <2>1, <2>3, <2>4, <2>5, <2>7
    <3>2. QED
      BY <1>c, <2>1, <2>3, <2>4, <2>7, <3>1
  <2>8. QED
    BY <2>6, <2>7
<1>5. CASE TakesBytes(v) \/ StoresByte(v)
  BY <1>5 DEF TakesBytes, StoresByte
<1>6. QED
  BY <1>1, <1>2, <1>3, <1>4, <1>5, <1>a, StepOfStream

\* Packets are kept in order and once each until responses take them, whole, though
\* p_receive stores them byte by byte.
THEOREM PacketsAlwaysConserved == Spec => []PacketsConserved
<1>1. Init => PacketsConserved
  <2> SUFFICES ASSUME Init, NEW v \in PacketVvcs
               PROVE  /\ received[v] = taken[v] \o packetRx[v].q \o PartialPacket(v)
                      /\ packetRx[v].buff = <<>>
    BY DEF PacketsConserved
  <2>1. <<>> \o <<>> \o <<>> = <<>>
    BY EmptySeq, ConcatEmptySeq
  <2>2. /\ v \in Vvcs /\ received[v] = <<>> /\ taken[v] = <<>> /\ storing[v] = <<>>
        /\ packetRx[v] = EmptyPacketQueue
    BY VvcsAssumption DEF Init
  <2>3. packetRx[v].q = <<>> /\ packetRx[v].buff = <<>>
    BY <2>2 DEF EmptyPacketQueue
  <2>4. QED
    BY <2>1, <2>2, <2>3 DEF PartialPacket
<1>2. QED
  BY <1>1, PacketsStep, TypesAlways, PTL DEF Spec

-----------------------------------------------------------------------------
(* The stream                                                               *)

LEMMA NextBytesLeave ==
    \A t, x, y \in Bytes :
        x # <<>> => \E n \in 1..(Len((t \o x) \o y) - Len(t)) :
                       t \o x = SubSeq((t \o x) \o y, 1, Len(t) + n)
<1> TAKE t, x, y \in Bytes
<1> HAVE x # <<>>
<1> DEFINE all == (t \o x) \o y
<1>1. Len(x) \in 1..(Len(all) - Len(t)) /\ t \o x = SubSeq(all, 1, Len(t) + Len(x))
  BY NextLeaves DEF Bytes
<1> HIDE DEF all
<1>2. \E n \in 1..(Len(all) - Len(t)) : t \o x = SubSeq(all, 1, Len(t) + n)
  BY <1>1
<1>3. QED
  BY <1>2 DEF all

LEMMA NextPacketListsLeave ==
    \A t, x, y \in PacketLists :
        x # <<>> => \E n \in 1..(Len((t \o x) \o y) - Len(t)) :
                       t \o x = SubSeq((t \o x) \o y, 1, Len(t) + n)
<1> TAKE t, x, y \in PacketLists
<1> HAVE x # <<>>
<1> DEFINE S == Seq(Byte)
<1>1. t \in Seq(S) /\ x \in Seq(S) /\ y \in Seq(S)
  BY DEF PacketLists
<1> HIDE DEF S
<1> DEFINE all == (t \o x) \o y
<1>2. Len(x) \in 1..(Len(all) - Len(t)) /\ t \o x = SubSeq(all, 1, Len(t) + Len(x))
  BY <1>1, NextLeaves
<1> HIDE DEF all
<1>3. \E n \in 1..(Len(all) - Len(t)) : t \o x = SubSeq(all, 1, Len(t) + n)
  BY <1>2
<1>4. QED
  BY <1>3 DEF all

\* What a worker takes follows what has been taken before.
LEMMA BytesLeave ==
    ASSUME Types, BytesConserved, NEW v \in Vvcs \ PacketVvcs, NEW size \in Nat
    PROVE  LET x == TakenBytes(byteRx[v], size) IN
           \/ taken[v] \o x = taken[v]
           \/ \E n \in 1..(Len(received[v]) - Len(taken[v])) :
                 taken[v] \o x = SubSeq(received[v], 1, Len(taken[v]) + n)
<1> DEFINE a == received[v]  t == taken[v]  q == byteRx[v]  h == storing[v]
           x == TakenBytes(q, size)  r == RemainingBytes(q, size)
<1>1. t \in Bytes /\ q \in Bytes /\ h \in Bytes /\ a = (t \o q) \o h
  BY DEF Types, BytesConserved
<1> HIDE DEF a, t, q, h
<1>2. x \in Bytes /\ r \in Bytes /\ q = x \o r
  BY <1>1, TakeFacts
<1> HIDE DEF x, r
<1> DEFINE y == r \o h
<1>3. y \in Bytes /\ a = (t \o x) \o y
  <2>1. Whole(t, x \o r, h) = Whole(t \o x, r, h)
    BY <1>1, <1>2, MoveBytes
  <2>2. ((t \o x) \o r) \o h = (t \o x) \o (r \o h)
    <3> DEFINE tx == t \o x
    <3>1. tx \in Bytes /\ r \in Bytes /\ h \in Bytes
      BY <1>1, <1>2, BytesConcat
    <3> HIDE DEF tx
    <3>2. (tx \o r) \o h = tx \o (r \o h)
      BY <3>1, BytesRegroup
    <3>3. QED
      BY <3>2 DEF tx
  <2>3. QED
    BY <1>1, <1>2, <2>1, <2>2, BytesConcat DEF Whole
<1> HIDE DEF y
<1>4. CASE x = <<>>
  BY <1>1, <1>4, BytesAndNothing DEF x, t, q
<1>5. CASE x # <<>>
  <2>1. \E n \in 1..(Len(a) - Len(t)) : t \o x = SubSeq(a, 1, Len(t) + n)
    <3> DEFINE all == (t \o x) \o y
    <3>1. \E n \in 1..(Len(all) - Len(t)) : t \o x = SubSeq(all, 1, Len(t) + n)
      <4>1. t \in Bytes /\ x \in Bytes /\ y \in Bytes
        BY <1>1, <1>2, <1>3
      <4>2. QED
        BY <1>5, <4>1, NextBytesLeave
    <3>2. all = a
      BY <1>3
    <3> HIDE DEF all
    <3>3. QED
      BY <3>1, <3>2
  <2>2. QED
    BY <2>1 DEF x, a, t, q
<1>6. QED
  BY <1>4, <1>5

LEMMA PacketsLeave ==
    ASSUME Types, PacketsConserved, NEW v \in PacketVvcs
    PROVE  LET x == TakenPackets(packetRx[v]) IN
           \/ taken[v] \o x = taken[v]
           \/ \E n \in 1..(Len(received[v]) - Len(taken[v])) :
                 taken[v] \o x = SubSeq(received[v], 1, Len(taken[v]) + n)
<1> DEFINE a == received[v]  t == taken[v]  pq == packetRx[v]  p == PartialPacket(v)
           x == TakenPackets(pq)  rest == RemainingPackets(pq)  r == rest.q
<1>1. /\ v \in Vvcs /\ t \in PacketLists /\ pq \in PacketQueue /\ p \in PacketLists
      /\ a = (t \o pq.q) \o p
  BY VvcsAssumption, PartialIsList DEF Types, PacketsConserved
<1> HIDE DEF a, t, pq, p
<1>2. x \in PacketLists /\ r \in PacketLists /\ pq.q = x \o r
  BY <1>1, TakePacketFacts, PacketsAreLists DEF PacketQueue
<1> HIDE DEF x, r
<1> DEFINE y == r \o p
<1>3. y \in PacketLists /\ a = (t \o x) \o y
  <2>1. Whole(t, x \o r, p) = Whole(t \o x, r, p)
    BY <1>1, <1>2, MovePackets
  <2>2. ((t \o x) \o r) \o p = (t \o x) \o (r \o p)
    <3> DEFINE tx == t \o x
    <3>1. tx \in PacketLists /\ r \in PacketLists /\ p \in PacketLists
      BY <1>1, <1>2, ListsConcat
    <3> HIDE DEF tx
    <3>2. (tx \o r) \o p = tx \o (r \o p)
      BY <3>1, ListsRegroup
    <3>3. QED
      BY <3>2 DEF tx
  <2>3. QED
    BY <1>1, <1>2, <2>1, <2>2, ListsConcat DEF Whole
<1> HIDE DEF y
<1>4. CASE x = <<>>
  BY <1>1, <1>4, ListsAndNothing DEF x, t, pq
<1>5. CASE x # <<>>
  <2>1. \E n \in 1..(Len(a) - Len(t)) : t \o x = SubSeq(a, 1, Len(t) + n)
    <3> DEFINE all == (t \o x) \o y
    <3>1. \E n \in 1..(Len(all) - Len(t)) : t \o x = SubSeq(all, 1, Len(t) + n)
      <4>1. t \in PacketLists /\ x \in PacketLists /\ y \in PacketLists
        BY <1>1, <1>2, <1>3
      <4>2. QED
        BY <1>5, <4>1, NextPacketListsLeave
    <3>2. all = a
      BY <1>3
    <3> HIDE DEF all
    <3>3. QED
      BY <3>1, <3>2
  <2>2. QED
    BY <2>1 DEF x, a, t, pq
<1>6. QED
  BY <1>4, <1>5

\* The histories are functions, so that changing nothing of one leaves it the same.
Histories == /\ received = [v \in Vvcs |-> received[v]]
             /\ taken = [v \in Vvcs |-> taken[v]]

LEMMA HistoriesStep == Types /\ Histories /\ [Next]_vars => Histories'
<1> SUFFICES ASSUME Types, Histories, [Next]_vars
             PROVE  Histories'
  OBVIOUS
<1>1. received' = received \/ \E v, x : received' = [received EXCEPT ![v] = x]
  BY DEF Next, Request, WorkerStep, ReceiveProcess, ReportVvc, SetVvcListenEnable, ReceiveBytes,
         ReceivePacket, CheckSize, GetBytes, GetPacket, StartReceive, CompleteReceive, StoreByte,
         StorePacketByte, vars, receiver
<1>2. taken' = taken \/ \E v, x : taken' = [taken EXCEPT ![v] = x]
  BY DEF Next, Request, WorkerStep, ReceiveProcess, ReportVvc, SetVvcListenEnable, ReceiveBytes,
         ReceivePacket, CheckSize, GetBytes, GetPacket, StartReceive, CompleteReceive, StoreByte,
         StorePacketByte, vars, rpc
<1>3. QED
  BY <1>1, <1>2 DEF Types, Histories

LEMMA HistoriesAlways == Spec => []Histories
<1>1. Init => Histories
  BY DEF Init, Histories
<1>2. QED
  BY <1>1, HistoriesStep, TypesAlways, PTL DEF Spec

\* Every step of the receive path is a step of the stream or changes neither end.
LEMMA StreamStep ==
    Types /\ Histories /\ BytesConserved /\ PacketsConserved /\ [Next]_vars =>
        [Stream!Next]_<<received, taken>>
<1> SUFFICES ASSUME Types, Histories, BytesConserved, PacketsConserved, [Next]_vars
             PROVE  Stream!Next \/ UNCHANGED <<received, taken>>
  BY DEF Stream!vars
<1>1. ASSUME NEW v \in Vvcs,
             ReportVvc(v) \/ StartReceive(v) \/ StoreByte(v) \/ StorePacketByte(v)
      PROVE  UNCHANGED <<received, taken>>
  BY <1>1 DEF ReportVvc, StartReceive, StoreByte, StorePacketByte, rpc, receiver
<1>2. ASSUME NEW t \in Targets, NEW enable \in BOOLEAN, SetVvcListenEnable(t, enable)
      PROVE  UNCHANGED <<received, taken>>
  BY <1>2 DEF SetVvcListenEnable, receiver
<1>3. ASSUME NEW w \in Worker, NEW t \in Targets, NEW n \in NumBytes, NEW exact \in ExactLength,
             ReceiveBytes(w, t, n, exact)
      PROVE  UNCHANGED <<received, taken>>
  BY <1>3 DEF ReceiveBytes, receiver
<1>4. ASSUME NEW w \in Worker, NEW t \in Targets, ReceivePacket(w, t)
      PROVE  UNCHANGED <<received, taken>>
  BY <1>4 DEF ReceivePacket, receiver
<1>5. ASSUME NEW w \in Worker, CheckSize(w)
      PROVE  UNCHANGED <<received, taken>>
  BY <1>5 DEF CheckSize, receiver
<1>6. ASSUME NEW w \in Worker, GetBytes(w)
      PROVE  Stream!Next \/ UNCHANGED <<received, taken>>
  <2> DEFINE v == call[w].vvc  size == AsSize(call[w].n)
             all == taken[v] \o TakenBytes(byteRx[v], size)
  <2>1. v \in Vvcs \ PacketVvcs /\ size \in Nat
    BY <1>6, SizeIsNat DEF GetBytes, Types, HasByteQueue, Calls
  <2>2. taken' = [taken EXCEPT ![v] = all] /\ received' = received
    BY <1>6 DEF GetBytes, receiver
  <2> HIDE DEF v, size
  <2>3. \/ all = taken[v]
        \/ \E n \in 1..(Len(received[v]) - Len(taken[v])) :
              all = SubSeq(received[v], 1, Len(taken[v]) + n)
    BY <2>1, BytesLeave
  <2> HIDE DEF all
  <2>4. CASE all = taken[v]
    BY <2>2, <2>4 DEF Histories
  <2>5. CASE all # taken[v]
    <3>1. PICK n \in 1..(Len(received[v]) - Len(taken[v])) :
              all = SubSeq(received[v], 1, Len(taken[v]) + n)
      BY <2>3, <2>5
    <3>2. Stream!Leave(v, n)
      BY <2>2, <3>1 DEF Stream!Leave
    <3>3. Stream!LeaveSome(v)
      BY <3>2 DEF Stream!LeaveSome
    <3>4. QED
      BY <2>1, <3>3 DEF Stream!Next
  <2>6. QED
    BY <2>4, <2>5
<1>7. ASSUME NEW w \in Worker, GetPacket(w)
      PROVE  Stream!Next \/ UNCHANGED <<received, taken>>
  <2> DEFINE v == call[w].vvc
             all == taken[v] \o TakenPackets(packetRx[v])
  <2>1. v \in PacketVvcs /\ v \in Vvcs
    BY <1>7, VvcsAssumption DEF GetPacket, Types, HasPacketQueue
  <2>2. taken' = [taken EXCEPT ![v] = all] /\ received' = received
    BY <1>7 DEF GetPacket, receiver
  <2> HIDE DEF v
  <2>3. \/ all = taken[v]
        \/ \E n \in 1..(Len(received[v]) - Len(taken[v])) :
              all = SubSeq(received[v], 1, Len(taken[v]) + n)
    BY <2>1, PacketsLeave
  <2> HIDE DEF all
  <2>4. CASE all = taken[v]
    BY <2>2, <2>4 DEF Histories
  <2>5. CASE all # taken[v]
    <3>1. PICK n \in 1..(Len(received[v]) - Len(taken[v])) :
              all = SubSeq(received[v], 1, Len(taken[v]) + n)
      BY <2>3, <2>5
    <3>2. Stream!Leave(v, n)
      BY <2>2, <3>1 DEF Stream!Leave
    <3>3. Stream!LeaveSome(v)
      BY <3>2 DEF Stream!LeaveSome
    <3>4. QED
      BY <2>1, <3>3 DEF Stream!Next
  <2>6. QED
    BY <2>4, <2>5
<1>8. ASSUME NEW v \in Vvcs, NEW result \in Result, CompleteReceive(v, result)
      PROVE  Stream!Next \/ UNCHANGED <<received, taken>>
  <2>1. result \in Bytes
    BY ResultAssumption DEF Bytes
  <2>2. CASE result = <<>>
    <3>1. received' = [received EXCEPT ![v] = received[v]] /\ taken' = taken
      BY <1>8, <2>2 DEF CompleteReceive, rpc
    <3>2. received' = received
      BY <3>1 DEF Histories
    <3>3. QED
      BY <3>1, <3>2
  <2>3. CASE result # <<>>
    <3> DEFINE new == IF v \in PacketVvcs THEN Append(received[v], result)
                      ELSE received[v] \o result
    <3>1. received' = [received EXCEPT ![v] = new] /\ taken' = taken
      BY <1>8, <2>3 DEF CompleteReceive, rpc
    <3>2. Len(new) > Len(received[v]) /\ SubSeq(new, 1, Len(received[v])) = received[v]
      <4>1. CASE v \notin PacketVvcs
        <5>1. received[v] \in Seq(Byte) /\ result \in Seq(Byte)
          BY <2>1, <4>1 DEF Types, Bytes
        <5>2. QED
          BY <2>3, <4>1, <5>1, PutBehindExtends
      <4>2. CASE v \in PacketVvcs
        <5>1. /\ received[v] \in Seq(Seq(Byte)) /\ <<result>> \in Seq(Seq(Byte))
              /\ <<result>> # <<>> /\ new = received[v] \o <<result>>
          BY <2>1, <4>2, AppendIsMore, OneIsList DEF Types, PacketLists
        <5>2. QED
          BY <5>1, PutBehindExtends
      <4>3. QED
        BY <4>1, <4>2
    <3> HIDE DEF new
    <3>3. received'[v] = new
      BY <3>1 DEF Types
    <3>4. QED
      BY <3>1, <3>2, <3>3 DEF Stream!Next, Stream!Enter, Stream!Extends
  <2>4. QED
    BY <2>2, <2>3
<1>9. CASE UNCHANGED vars
  BY <1>9 DEF vars, rpc, receiver
<1>10. QED
  BY <1>1, <1>2, <1>3, <1>4, <1>5, <1>6, <1>7, <1>8, <1>9
     DEF Next, Request, WorkerStep, ReceiveProcess

\* What clients take from a VVC is a reliable stream of what the VVC received, for
\* any number of clients, also those that race for bytes with exact_length.
THEOREM ReceivesImplementStream == Spec => ImplementsStream
<1>1. Init => Stream!Init
  BY DEF Init, Stream!Init
<1>2. Types /\ Histories /\ BytesConserved /\ PacketsConserved /\ [Next]_vars =>
          [Stream!Next]_(Stream!vars)
  BY StreamStep DEF Stream!vars
<1>3. QED
  BY <1>1, <1>2, TypesAlways, HistoriesAlways, BytesAlwaysConserved, PacketsAlwaysConserved, PTL
     DEF Spec, ImplementsStream, Stream!Spec
-----------------------------------------------------------------------------
(* Requests that take effect at one instant, when exact_length is used alone *)

\* What a worker knows of its request: the arguments it began with and, from the
\* check of the size on, that there are as many bytes as an exact request wants.
RequestInv(w) ==
    /\ pc[w] = "idle" => call[w] = NoCall
    /\ call[w].n \in NumBytes \cup {0}
    /\ pc[w] = "size" => call[w].exact
    /\ pc[w] = "packet" => ~call[w].exact
    /\ pc[w] = "get" /\ call[w].exact => Len(byteRx[call[w].vvc]) >= AsSize(call[w].n)

Requests == \A w \in Worker : RequestInv(w)

\* A worker keeps what it knows in a step that leaves it alone and takes nothing
\* from the queue it is about to read.
LEMMA RequestFrame ==
    ASSUME Types, Types', NEW w \in Worker, RequestInv(w),
           pc'[w] = pc[w], call'[w] = call[w],
           pc[w] = "get" /\ call[w].exact =>
               Len(byteRx'[call[w].vvc]) >= Len(byteRx[call[w].vvc])
    PROVE  RequestInv(w)'
<1>1. CASE pc[w] = "get" /\ call[w].exact
  <2> DEFINE v == call[w].vvc  old == Len(byteRx[v])  new == Len(byteRx'[v])
             size == AsSize(call[w].n)
  <2>1. v \in Vvcs /\ call[w].n \in Int
    BY <1>1 DEF Types, HasByteQueue, Calls
  <2>2. byteRx[v] \in Seq(Byte) /\ byteRx'[v] \in Seq(Byte)
    BY <2>1 DEF Types, Bytes
  <2>3. old \in Nat /\ new \in Nat /\ size \in Nat
    BY <2>1, <2>2, LenProperties, SizeIsNat
  <2>4. old >= size /\ new >= old
    BY <1>1 DEF RequestInv
  <2> HIDE DEF old, new, size
  <2>5. new >= size
    BY <2>3, <2>4
  <2>6. QED
    BY <1>1, <2>5 DEF RequestInv, new, size
<1>2. CASE ~(pc[w] = "get" /\ call[w].exact)
  BY <1>2 DEF RequestInv
<1>3. QED
  BY <1>1, <1>2

\* Putting a byte behind a queue makes it longer.
LEMMA PutIsLonger ==
    ASSUME NEW q \in Bytes, NEW x \in Bytes
    PROVE  Len(q \o x) >= Len(q)
<1>1. q \in Seq(Byte) /\ x \in Seq(Byte)
  BY DEF Bytes
<1>2. Len(q \o x) = Len(q) + Len(x) /\ Len(q) \in Nat /\ Len(x) \in Nat
  BY <1>1, ConcatProperties, LenProperties
<1>3. QED
  BY <1>2

LEMMA RequestsStep ==
    Types /\ Types' /\ ExactAlone /\ Requests /\ [Next]_vars => Requests'
<1> SUFFICES ASSUME Types, Types', ExactAlone, Requests, [Next]_vars, NEW w \in Worker
             PROVE  RequestInv(w)'
  BY DEF Requests
<1>a. RequestInv(w)
  BY DEF Requests
<1>b. NoCall.n = 0 /\ NoCall.exact = FALSE
  BY DEF NoCall
<1>c. ASSUME pc'[w] = "idle", call'[w] = NoCall
      PROVE  RequestInv(w)'
  BY <1>b, <1>c DEF RequestInv
<1>d. ASSUME UNCHANGED <<pc, call, byteRx>>
      PROVE  RequestInv(w)'
  BY <1>a, <1>d DEF RequestInv
<1>1. ASSUME NEW v \in Vvcs,
             \/ ReportVvc(v) \/ StartReceive(v) \/ StorePacketByte(v)
             \/ \E result \in Result : CompleteReceive(v, result)
      PROVE  RequestInv(w)'
  BY <1>1, <1>d DEF ReportVvc, StartReceive, StorePacketByte, CompleteReceive, rpc
<1>2. ASSUME NEW t \in Targets, NEW enable \in BOOLEAN, SetVvcListenEnable(t, enable)
      PROVE  RequestInv(w)'
  BY <1>2, <1>d DEF SetVvcListenEnable
<1>3. ASSUME NEW v \in Vvcs, StoreByte(v)
      PROVE  RequestInv(w)'
  <2> DEFINE x == <<Head(storing[v])>>
  <2>1. pc' = pc /\ call' = call /\ byteRx' = [byteRx EXCEPT ![v] = byteRx[v] \o x]
    BY <1>3 DEF StoreByte, PutBytes, rpc
  <2>2. x \in Bytes
    BY <1>3, NextByte DEF StoreByte, Types
  <2> HIDE DEF x
  <2>3. pc[w] = "get" => Len(byteRx'[call[w].vvc]) >= Len(byteRx[call[w].vvc])
    <3> DEFINE u == call[w].vvc  q == byteRx[u]
    <3>1. pc[w] = "get" => u \in Vvcs /\ q \in Bytes
      BY DEF Types, HasByteQueue
    <3>2. pc[w] = "get" => byteRx'[u] = q \/ byteRx'[u] = q \o x
      BY <2>1, <3>1 DEF Types
    <3> HIDE DEF u, q
    <3>3. pc[w] = "get" => Len(q \o x) >= Len(q) /\ Len(q) >= Len(q)
      BY <2>2, <3>1, PutIsLonger, LenProperties DEF Bytes
    <3>4. QED
      BY <3>2, <3>3 DEF u, q
  <2>4. QED
    BY <1>a, <2>1, <2>3, RequestFrame
<1>4. ASSUME NEW u \in Worker, NEW t \in Targets, NEW n \in NumBytes, NEW exact \in ExactLength,
             ReceiveBytes(u, t, n, exact)
      PROVE  RequestInv(w)'
  <2> DEFINE new == [vvc |-> RxKey(t), n |-> n, exact |-> exact]
  <2>1. /\ byteRx' = byteRx
        /\ \/ pc' = [pc EXCEPT ![u] = "idle"] /\ call' = [call EXCEPT ![u] = NoCall]
           \/ /\ pc' = [pc EXCEPT ![u] = IF exact THEN "size" ELSE "get"]
              /\ call' = [call EXCEPT ![u] = new]
    BY <1>4 DEF ReceiveBytes, Return
  <2>2. new.n = n /\ new.exact = exact /\ exact \in BOOLEAN
    BY RequestAssumption
  <2> HIDE DEF new
  <2>3. CASE u # w
    BY <1>a, <2>1, <2>3 DEF Types, RequestInv
  <2>4. CASE u = w /\ call'[w] = NoCall /\ pc'[w] = "idle"
    BY <1>c, <2>4
  <2>5. CASE u = w /\ call'[w] = new /\ pc'[w] = IF exact THEN "size" ELSE "get"
    <3>1. call'[w].n = n /\ call'[w].exact = exact
      BY <2>2, <2>5
    <3>2. QED
      BY <2>2, <2>5, <3>1 DEF RequestInv
  <2>6. QED
    BY <2>1, <2>3, <2>4, <2>5 DEF Types
<1>5. ASSUME NEW u \in Worker, NEW t \in Targets, ReceivePacket(u, t)
      PROVE  RequestInv(w)'
  <2> DEFINE new == [NoCall EXCEPT !.vvc = RxKey(t)]
  <2>1. /\ byteRx' = byteRx
        /\ \/ pc' = [pc EXCEPT ![u] = "idle"] /\ call' = [call EXCEPT ![u] = NoCall]
           \/ pc' = [pc EXCEPT ![u] = "packet"] /\ call' = [call EXCEPT ![u] = new]
    BY <1>5 DEF ReceivePacket, Return
  <2>2. new.n = 0 /\ new.exact = FALSE
    BY DEF NoCall
  <2> HIDE DEF new
  <2>3. CASE u # w
    BY <1>a, <2>1, <2>3 DEF Types, RequestInv
  <2>4. CASE u = w /\ call'[w] = NoCall /\ pc'[w] = "idle"
    BY <1>c, <2>4
  <2>5. CASE u = w /\ call'[w] = new /\ pc'[w] = "packet"
    BY <2>2, <2>5 DEF RequestInv
  <2>6. QED
    BY <2>1, <2>3, <2>4, <2>5 DEF Types
<1>6. ASSUME NEW u \in Worker, CheckSize(u)
      PROVE  RequestInv(w)'
  <2>1. /\ byteRx' = byteRx
        /\ \/ pc' = [pc EXCEPT ![u] = "idle"] /\ call' = [call EXCEPT ![u] = NoCall]
           \/ /\ Len(byteRx[call[u].vvc]) >= AsSize(call[u].n)
              /\ pc' = [pc EXCEPT ![u] = "get"] /\ call' = call
    BY <1>6 DEF CheckSize, Return
  <2>2. CASE u # w
    BY <1>a, <2>1, <2>2 DEF Types, RequestInv
  <2>3. CASE u = w
    BY <1>a, <1>c, <2>1, <2>3 DEF Types, RequestInv
  <2>4. QED
    BY <2>2, <2>3
<1>7. ASSUME NEW u \in Worker, GetBytes(u)
      PROVE  RequestInv(w)'
  <2> DEFINE v == call[u].vvc  rest == RemainingBytes(byteRx[v], AsSize(call[u].n))
  <2>1. /\ pc' = [pc EXCEPT ![u] = "idle"] /\ call' = [call EXCEPT ![u] = NoCall]
        /\ byteRx' = [byteRx EXCEPT ![v] = rest]
    BY <1>7 DEF GetBytes, Return
  <2> HIDE DEF rest
  <2>2. CASE u = w
    BY <1>c, <2>1, <2>2 DEF Types
  <2>3. CASE u # w
    <3>1. call[w].exact => call[w].vvc # v
      BY <2>3 DEF ExactAlone
    <3>2. pc'[w] = pc[w] /\ call'[w] = call[w]
      BY <2>1, <2>3 DEF Types
    <3>3. pc[w] = "get" /\ call[w].exact => byteRx'[call[w].vvc] = byteRx[call[w].vvc]
      BY <2>1, <3>1 DEF Types, HasByteQueue
    <3>4. QED
      BY <1>a, <3>2, <3>3 DEF RequestInv
  <2>4. QED
    BY <2>2, <2>3
<1>8. ASSUME NEW u \in Worker, GetPacket(u)
      PROVE  RequestInv(w)'
  <2>1. /\ pc' = [pc EXCEPT ![u] = "idle"] /\ call' = [call EXCEPT ![u] = NoCall]
        /\ byteRx' = byteRx
    BY <1>8 DEF GetPacket, Return
  <2>2. CASE u = w
    BY <1>c, <2>1, <2>2 DEF Types
  <2>3. CASE u # w
    BY <1>a, <2>1, <2>3 DEF Types, RequestInv
  <2>4. QED
    BY <2>2, <2>3
<1>9. CASE UNCHANGED vars
  BY <1>9, <1>d DEF vars, rpc
<1>10. QED
  BY <1>1, <1>2, <1>3, <1>4, <1>5, <1>6, <1>7, <1>8, <1>9
     DEF Next, Request, WorkerStep, ReceiveProcess

\* What the properties of Spec rest on holds in the behaviours where clients keep
\* to the rule, too, and there workers know what they rely on.
LEMMA AgreedInvariant == AgreedSpec => [](Types /\ ExactAlone /\ Requests)
<1>1. Init => Types /\ ExactAlone /\ Requests
  <2> SUFFICES ASSUME Init
               PROVE  Types /\ ExactAlone /\ Requests
    OBVIOUS
  <2>1. Types
    BY TypeInit, TypesNamed
  <2>2. \A w \in Worker : call[w] = NoCall /\ pc[w] = "idle"
    BY DEF Init
  <2>3. NoCall.n = 0 /\ NoCall.exact = FALSE
    BY DEF NoCall
  <2>4. QED
    BY <2>1, <2>2, <2>3 DEF ExactAlone, Requests, RequestInv
<1>2. Types /\ ExactAlone /\ Requests /\ [Next /\ ExactAlone']_vars =>
          (Types /\ ExactAlone /\ Requests)'
  <2> SUFFICES ASSUME Types, ExactAlone, Requests, [Next /\ ExactAlone']_vars
               PROVE  (Types /\ ExactAlone /\ Requests)'
    OBVIOUS
  <2>1. [Next]_vars
    OBVIOUS
  <2>2. Types'
    BY <2>1, TypesStep
  <2>3. ExactAlone'
    BY DEF vars, rpc, ExactAlone
  <2>4. QED
    BY <2>1, <2>2, <2>3, RequestsStep
<1>3. QED
  BY <1>1, <1>2, PTL DEF AgreedSpec

\* So all that is proved of Spec holds where clients keep to the rule.
LEMMA AgreedIsSpec == AgreedSpec => Spec
<1>1. [Next /\ ExactAlone']_vars => [Next]_vars
  OBVIOUS
<1>2. QED
  BY <1>1, PTL DEF AgreedSpec, Spec

\* With exact_length a response that takes bytes takes as many as were asked for,
\* though the check and the taking are separate accesses.
THEOREM ExactLengthAlwaysHonoured == AgreedSpec => ExactLengthHonoured
<1> DEFINE Honoured == \A w \in Worker :
             LET v == call[w].vvc IN
             GetBytes(w) /\ call[w].exact /\ call[w].n > 0 =>
                 Len(taken'[v]) - Len(taken[v]) = call[w].n
<1>1. Types /\ Requests => Honoured
  <2> DEFINE n(w) == call[w].n  v(w) == call[w].vvc
  <2> SUFFICES ASSUME Types, Requests, NEW w \in Worker,
                      GetBytes(w), call[w].exact, n(w) > 0
               PROVE  Len(taken'[v(w)]) - Len(taken[v(w)]) = n(w)
    OBVIOUS
  <2> DEFINE q == byteRx[v(w)]  t == taken[v(w)]  out == TakenBytes(q, n(w))
  <2>1. AsSize(n(w)) = n(w) /\ n(w) \in Nat
    <3>1. n(w) \in NumBytes
      BY DEF Requests, RequestInv
    <3>2. n(w) \in Int /\ n(w) < SizeMod /\ SizeMod \in Nat
      BY <3>1, RequestAssumption, SizeAssumption
    <3> HIDE DEF n
    <3>3. QED
      BY <3>2 DEF AsSize
  <2>2. v(w) \in Vvcs \ PacketVvcs /\ Len(q) >= AsSize(n(w))
    BY DEF GetBytes, Types, HasByteQueue, Requests, RequestInv
  <2>3. q \in Seq(Byte) /\ t \in Seq(Byte)
    BY <2>2 DEF Types, Bytes
  <2>4. taken'[v(w)] = t \o out
    BY <2>1, <2>2 DEF GetBytes, Types
  <2> HIDE DEF n, v, q, t
  <2>5. TakeCount(q, n(w)) = n(w) /\ n(w) \in 0..Len(q)
    <3>1. Len(q) \in Nat
      BY <2>3, LenProperties
    <3>2. QED
      BY <2>1, <2>2, <3>1 DEF TakeCount
  <2>6. out \in Seq(Byte) /\ Len(out) = n(w)
    BY <2>3, <2>5, CutInTwo DEF TakenBytes
  <2> HIDE DEF out
  <2>7. Len(t \o out) = Len(t) + Len(out) /\ Len(t) \in Nat
    BY <2>3, <2>6, ConcatProperties, LenProperties
  <2>8. QED
    BY <2>1, <2>4, <2>6, <2>7 DEF t
<1>2. QED
  BY <1>1, AgreedInvariant, PTL DEF ExactLengthHonoured

-----------------------------------------------------------------------------
(* The service                                                              *)

\* The state of the service, piece by piece
Queue(v) == IF v \in PacketVvcs THEN packetRx[v].q ELSE byteRx[v]
Asked(w) == [call[w] EXCEPT !.n = AsSize(@)]
Queues == [v \in Vvcs |-> Queue(v)]
AskedOf == [w \in Worker |-> Asked(w)]

\* The conversion of num_bytes leaves an idle worker idle.
LEMMA IdleAsksNothing == [NoCall EXCEPT !.n = AsSize(@)] = NoCall
<1> DEFINE no == FALSE  none == [vvc |-> NoVvc, n |-> 0, exact |-> no]
<1> HIDE DEF no
<1>1. none.n = 0 /\ [none EXCEPT !.n = 0] = none
  OBVIOUS
<1>2. AsSize(0) = 0
  BY SizeAssumption DEF AsSize
<1>3. none = NoCall
  BY DEF NoCall, no
<1> HIDE DEF none
<1>4. QED
  BY <1>1, <1>2, <1>3

\* What the service sees of a request; only an idle worker has none.
LEMMA AskedFacts ==
    ASSUME Types, NEW w \in Worker
    PROVE  /\ call[w] = NoCall => Asked(w) = NoCall
           /\ Asked(w).vvc = call[w].vvc
           /\ Asked(w).n = AsSize(call[w].n)
           /\ Asked(w).exact = call[w].exact
           /\ call[w].vvc \in Vvcs => Asked(w) # NoCall
<1>1. call[w] \in Calls
  BY DEF Types
<1>2. /\ Asked(w).vvc = call[w].vvc /\ Asked(w).n = AsSize(call[w].n)
      /\ Asked(w).exact = call[w].exact
  BY <1>1 DEF Asked, Calls
<1>3. call[w] = NoCall => Asked(w) = NoCall
  BY IdleAsksNothing DEF Asked
<1>4. call[w].vvc \in Vvcs => call[w].vvc # NoVvc
  BY VvcsAssumption DEF NoVvc
<1>5. QED
  BY <1>2, <1>3, <1>4 DEF NoCall

\* A step that changes no queue, nothing taken and no request is a stutter.
LEMMA ServiceStutters ==
    ASSUME UNCHANGED <<byteRx, taken>>, \A v \in PacketVvcs : packetRx'[v].q = packetRx[v].q,
           \A w \in Worker : Asked(w)' = Asked(w)
    PROVE  UNCHANGED Service!vars
<1>1. Queues' = Queues
  BY DEF Queues, Queue
<1>2. AskedOf' = AskedOf
  BY DEF AskedOf
<1>3. QED
  BY <1>1, <1>2 DEF Service!vars, Queues, Queue, AskedOf, Asked

\* A queue that has one item more
LEMMA OneMore ==
    ASSUME NEW S, NEW q \in Seq(S), NEW x \in S
    PROVE  Len(q \o <<x>>) = Len(q) + 1 /\ SubSeq(q \o <<x>>, 1, Len(q)) = q
<1> DEFINE one == <<x>>
<1>1. one \in Seq(S) /\ Len(one) = 1
  OBVIOUS
<1> HIDE DEF one
<1>2. Len(q \o one) = Len(q) + Len(one) /\ SubSeq(q \o one, 1, Len(q)) = q
  BY <1>1, ConcatProperties, PrefixOfConcat
<1>3. QED
  BY <1>1, <1>2 DEF one

\* One item is put on the queue of v.
LEMMA ServiceArrives ==
    ASSUME NEW v \in Vvcs, NEW new, Queue(v)' = new,
           Len(new) = Len(Queue(v)) + 1, SubSeq(new, 1, Len(Queue(v))) = Queue(v),
           \A u \in Vvcs : u # v => Queue(u)' = Queue(u),
           UNCHANGED <<taken, call>>
    PROVE  Service!Next
<1>1. Queues' = [Queues EXCEPT ![v] = new] /\ Queues'[v] = new /\ Queues[v] = Queue(v)
  BY DEF Queues
<1>2. AskedOf' = AskedOf
  BY DEF AskedOf, Asked
<1>3. Service!Arrive(v)
  <2> HIDE DEF Queues, AskedOf
  <2>1. Len(Queues'[v]) = Len(Queues[v]) + 1
    BY <1>1
  <2>2. SubSeq(Queues'[v], 1, Len(Queues[v])) = Queues[v]
    BY <1>1
  <2>3. Queues' = [Queues EXCEPT ![v] = Queues'[v]]
    BY <1>1
  <2>4. QED
    BY <1>2, <2>1, <2>2, <2>3 DEF Service!Arrive, Queues, Queue, AskedOf, Asked
<1>4. QED
  BY <1>3 DEF Service!Next

\* Worker w takes the first count items from the queue of v, as its request wants.
TakesItems(w, v, count, rest) ==
    /\ v = call[w].vvc
    /\ Service!Available(Asked(w), Queue(v))
    /\ count = Service!Wanted(Asked(w), Queue(v))
    /\ rest = SubSeq(Queue(v), count + 1, Len(Queue(v)))
    /\ Queue(v)' = rest /\ \A u \in Vvcs : u # v => Queue(u)' = Queue(u)
    /\ taken' = [taken EXCEPT ![v] = @ \o SubSeq(Queue(v), 1, count)]
    /\ call' = [call EXCEPT ![w] = NoCall]

LEMMA ServiceTakes ==
    ASSUME Types, NEW w \in Worker, NEW v \in Vvcs, NEW count, NEW rest,
           TakesItems(w, v, count, rest)
    PROVE  Service!Next
<1> USE DEF TakesItems
<1>1. Asked(w).vvc = v /\ Asked(w) # NoCall
  BY AskedFacts
<1>2. Queues' = [Queues EXCEPT ![v] = rest] /\ Queues[v] = Queue(v)
  BY DEF Queues
<1>3. AskedOf' = [AskedOf EXCEPT ![w] = NoCall] /\ AskedOf[w] = Asked(w)
  <2>1. \A u \in Worker : Asked(u)' = IF u = w THEN NoCall ELSE Asked(u)
    BY IdleAsksNothing DEF Asked, Types
  <2>2. QED
    BY <2>1 DEF AskedOf
<1>4. Service!Take(w)
  <2> HIDE DEF Queues, AskedOf
  <2>1. /\ AskedOf[w] # NoCall
        /\ Service!Available(AskedOf[w], Queues[AskedOf[w].vvc])
        /\ count = Service!Wanted(AskedOf[w], Queues[AskedOf[w].vvc])
    BY <1>1, <1>2, <1>3
  <2>2. /\ Queues' = [Queues EXCEPT ![AskedOf[w].vvc] =
                         SubSeq(Queues[AskedOf[w].vvc], count + 1, Len(Queues[AskedOf[w].vvc]))]
        /\ taken' = [taken EXCEPT ![AskedOf[w].vvc] =
                         @ \o SubSeq(Queues[AskedOf[w].vvc], 1, count)]
        /\ AskedOf' = [AskedOf EXCEPT ![w] = NoCall]
    BY <1>1, <1>2, <1>3
  <2>3. QED
    BY <2>1, <2>2 DEF Service!Take, Queues, Queue, AskedOf, Asked
<1>5. QED
  BY <1>4 DEF Service!Next

\* get_pkt takes the first packet, or nothing from an empty queue.
LEMMA PacketIsCut ==
    ASSUME NEW pq \in PacketQueue
    PROVE  LET count == IF pq.q = <<>> THEN 0 ELSE 1 IN
           /\ TakenPackets(pq) = SubSeq(pq.q, 1, count)
           /\ RemainingPackets(pq).q = SubSeq(pq.q, count + 1, Len(pq.q))
<1> DEFINE q == pq.q
<1>1. q \in Seq(Packet)
  BY DEF PacketQueue, Packets
<1>2. CASE q = <<>>
  <2>1. SubSeq(<<>>, 1, 0) = <<>> /\ SubSeq(<<>>, 0 + 1, Len(<<>>)) = <<>>
    OBVIOUS
  <2>2. TakenPackets(pq) = <<>> /\ RemainingPackets(pq) = pq
    BY <1>2 DEF TakenPackets, RemainingPackets
  <2> HIDE DEF q
  <2>3. QED
    BY <1>2, <2>1, <2>2 DEF q
<1>3. CASE q # <<>>
  <2>1. TakenPackets(pq) = <<Head(q)>> /\ RemainingPackets(pq).q = Tail(q)
    BY <1>3 DEF TakenPackets, RemainingPackets, PacketQueue
  <2> HIDE DEF q
  <2>2. Tail(q) = SubSeq(q, 2, Len(q))
    BY <1>1, <1>3
  <2>3. <<Head(q)>> = SubSeq(q, 1, 1)
    BY <1>1, <1>3
  <2>4. QED
    BY <1>3, <2>1, <2>2, <2>3 DEF q
<1>4. QED
  BY <1>2, <1>3

\* Worker w begins a request of the service, or its call is answered at once.
LEMMA ServiceBegins ==
    ASSUME Types, Requests, NEW w \in Worker, pc[w] = "idle",
           UNCHANGED <<byteRx, packetRx, taken>>,
           NEW new \in Calls, new.vvc \in Vvcs, new.n \in NumBytes \cup {0},
           call' = [call EXCEPT ![w] = new]
    PROVE  Service!Next
<1> DEFINE r == [new EXCEPT !.n = AsSize(@)]
<1>1. call[w] = NoCall /\ Asked(w) = NoCall
  BY AskedFacts DEF Requests, RequestInv
<1>2. r \in [vvc : Vvcs, n : {AsSize(n) : n \in NumBytes} \cup {0}, exact : BOOLEAN]
  <2>1. new.exact \in BOOLEAN
    BY DEF Calls
  <2>2. AsSize(new.n) \in {AsSize(n) : n \in NumBytes} \cup {0}
    <3>1. AsSize(0) = 0
      BY SizeAssumption DEF AsSize
    <3>2. QED
      BY <3>1
  <2> DEFINE size == AsSize(new.n)  Sizes == {AsSize(n) : n \in NumBytes} \cup {0}
  <2> HIDE DEF size, Sizes
  <2>3. [new EXCEPT !.n = size] \in [vvc : Vvcs, n : Sizes, exact : BOOLEAN]
    BY <2>1, <2>2 DEF Calls, size, Sizes
  <2>4. QED
    BY <2>3 DEF size, Sizes
<1> HIDE DEF r
<1>3. AskedOf' = [AskedOf EXCEPT ![w] = r] /\ AskedOf[w] = NoCall
  <2>1. \A u \in Worker : Asked(u)' = IF u = w THEN r ELSE Asked(u)
    BY DEF Asked, Types, r
  <2>2. QED
    BY <1>1, <2>1 DEF AskedOf
<1>4. Queues' = Queues
  BY DEF Queues, Queue
<1>5. Service!Begin(w, r)
  <2> HIDE DEF Queues, AskedOf
  <2>1. AskedOf[w] = NoCall /\ AskedOf' = [AskedOf EXCEPT ![w] = r] /\ Queues' = Queues
        /\ taken' = taken
    BY <1>3, <1>4
  <2>2. QED
    BY <2>1 DEF Service!Begin, Queues, Queue, AskedOf, Asked
<1>6. QED
  BY <1>2, <1>5 DEF Service!Next

\* Every step of the procedures is a step of the service or a stutter: a request
\* takes effect with the access that takes the bytes or finds too few of them.
LEMMA ServiceStep ==
    Types /\ Requests /\ [Next]_vars => [Service!Next]_(Service!vars)
<1> SUFFICES ASSUME Types, Requests, [Next]_vars
             PROVE  Service!Next \/ UNCHANGED Service!vars
  OBVIOUS
<1>a. PacketVvcs \subseteq Vvcs
  BY VvcsAssumption
<1>b. UNCHANGED <<byteRx, packetRx, taken, call>> => UNCHANGED Service!vars
  BY DEF Service!vars
<1>1. ASSUME NEW v \in Vvcs,
             \/ ReportVvc(v) \/ StartReceive(v)
             \/ \E result \in Result : CompleteReceive(v, result)
      PROVE  UNCHANGED Service!vars
  BY <1>1, <1>b DEF ReportVvc, StartReceive, CompleteReceive, rpc
<1>2. ASSUME NEW t \in Targets, NEW enable \in BOOLEAN, SetVvcListenEnable(t, enable)
      PROVE  UNCHANGED Service!vars
  BY <1>2, <1>b DEF SetVvcListenEnable
<1>3. ASSUME NEW v \in Vvcs, StoreByte(v)
      PROVE  Service!Next
  <2> DEFINE q == byteRx[v]  x == Head(storing[v])
  <2>1. x \in Byte /\ q \in Seq(Byte) /\ v \notin PacketVvcs
    BY <1>3, NextByte DEF StoreByte, Types, Bytes
  <2>2. /\ byteRx' = [byteRx EXCEPT ![v] = q \o <<x>>]
        /\ packetRx' = packetRx /\ taken' = taken /\ call' = call
    BY <1>3 DEF StoreByte, PutBytes, rpc
  <2> HIDE DEF x
  <2>3. /\ Queue(v)' = q \o <<x>> /\ Queue(v) = q
        /\ \A u \in Vvcs : u # v => Queue(u)' = Queue(u)
    BY <2>1, <2>2 DEF Queue, Types
  <2> HIDE DEF q
  <2>4. Len(q \o <<x>>) = Len(q) + 1 /\ SubSeq(q \o <<x>>, 1, Len(q)) = q
    BY <2>1, OneMore
  <2> DEFINE new == q \o <<x>>
  <2>5. Queue(v)' = new /\ Len(new) = Len(Queue(v)) + 1 /\ SubSeq(new, 1, Len(Queue(v))) = Queue(v)
    BY <2>3, <2>4
  <2> HIDE DEF new
  <2>6. QED
    BY <2>2, <2>3, <2>5, ServiceArrives
<1>4. ASSUME NEW v \in Vvcs, StorePacketByte(v)
      PROVE  Service!Next \/ UNCHANGED Service!vars
  <2> DEFINE pq == packetRx[v]  x == Head(storing[v])  last == Len(storing[v]) = 1
             put == PutPacketByte(pq, x, last)  packet == Append(pq.buff, x)
  <2>1. x \in Byte /\ pq \in PacketQueue /\ v \in PacketVvcs /\ last \in BOOLEAN
    BY <1>4, NextByte DEF StorePacketByte, Types, Bytes
  <2>2. /\ packetRx' = [packetRx EXCEPT ![v] = put]
        /\ byteRx' = byteRx /\ taken' = taken /\ call' = call
    BY <1>4 DEF StorePacketByte, rpc
  <2> HIDE DEF last, x
  <2>3. /\ packet \in Packet
        /\ last => put.q = Append(pq.q, packet)
        /\ ~last => put.q = pq.q
    BY <2>1, PutPacketByteFacts
  <2> HIDE DEF put, packet
  <2>4. /\ Queue(v)' = put.q /\ Queue(v) = pq.q
        /\ \A u \in Vvcs : u # v => Queue(u)' = Queue(u)
    BY <2>1, <2>2 DEF Queue, Types
  <2>5. CASE last
    <3> DEFINE q == pq.q  new == q \o <<packet>>
    <3>1. q \in Seq(Packet)
      BY <2>1 DEF PacketQueue, Packets
    <3> HIDE DEF q
    <3>2. Append(q, packet) = new
      BY <2>3, <3>1, AppendIsConcat
    <3>3. Len(new) = Len(q) + 1 /\ SubSeq(new, 1, Len(q)) = q
      BY <2>3, <3>1, OneMore
    <3> HIDE DEF new
    <3>4. Queue(v)' = new /\ Queue(v) = q
      BY <2>3, <2>4, <2>5, <3>2 DEF q
    <3>5. QED
      BY <2>2, <2>4, <3>3, <3>4, ServiceArrives
  <2>6. CASE ~last
    <3>1. \A u \in PacketVvcs : packetRx'[u].q = packetRx[u].q
      BY <1>a, <2>1, <2>3, <2>4, <2>6 DEF Queue
    <3>2. \A w \in Worker : Asked(w)' = Asked(w)
      BY <2>2 DEF Asked
    <3>3. QED
      BY <2>2, <3>1, <3>2, ServiceStutters
  <2>7. QED
    BY <2>5, <2>6
<1>5. ASSUME NEW w \in Worker, pc[w] = "idle", call' = [call EXCEPT ![w] = NoCall],
             UNCHANGED <<byteRx, packetRx, taken>>
      PROVE  UNCHANGED Service!vars
  <2>1. call[w] = NoCall
    BY <1>5 DEF Requests, RequestInv
  <2>2. call' = call
    BY <1>5, <2>1 DEF Types
  <2>3. QED
    BY <1>5, <2>2, <1>b
<1>6. ASSUME NEW w \in Worker, NEW t \in Targets, NEW n \in NumBytes, NEW exact \in ExactLength,
             ReceiveBytes(w, t, n, exact)
      PROVE  Service!Next \/ UNCHANGED Service!vars
  <2> DEFINE k == RxKey(t)  new == [vvc |-> k, n |-> n, exact |-> exact]
  <2>1. /\ pc[w] = "idle" /\ UNCHANGED <<byteRx, packetRx, taken>>
        /\ \/ call' = [call EXCEPT ![w] = NoCall]
           \/ HasByteQueue(k) /\ call' = [call EXCEPT ![w] = new]
    BY <1>6 DEF ReceiveBytes, Return
  <2>2. HasByteQueue(k) => k \in Vvcs
    BY DEF HasByteQueue, Types
  <2> HIDE DEF k
  <2>3. HasByteQueue(k) => new \in Calls /\ new.vvc = k /\ new.n = n
    BY <2>2, RequestAssumption DEF Calls
  <2> HIDE DEF new
  <2>4. QED
    BY <1>5, <2>1, <2>2, <2>3, ServiceBegins
<1>7. ASSUME NEW w \in Worker, NEW t \in Targets, ReceivePacket(w, t)
      PROVE  Service!Next \/ UNCHANGED Service!vars
  <2> DEFINE k == RxKey(t)  new == [NoCall EXCEPT !.vvc = k]
  <2>1. /\ pc[w] = "idle" /\ UNCHANGED <<byteRx, packetRx, taken>>
        /\ \/ call' = [call EXCEPT ![w] = NoCall]
           \/ HasPacketQueue(k) /\ call' = [call EXCEPT ![w] = new]
    BY <1>7 DEF ReceivePacket, Return
  <2>2. HasPacketQueue(k) => k \in Vvcs
    BY DEF HasPacketQueue, Types
  <2> HIDE DEF k
  <2>3. k \in Vvcs => new \in Calls /\ new.vvc = k /\ new.n = 0
    <3>1. ASSUME NEW c \in Calls, NEW v \in Vvcs
          PROVE  LET d == [c EXCEPT !.vvc = v] IN d \in Calls /\ d.vvc = v /\ d.n = c.n
      BY DEF Calls
    <3>2. NoCall \in Calls /\ NoCall.n = 0
      BY DEF NoCall, Calls
    <3>3. QED
      BY <3>1, <3>2
  <2> HIDE DEF new
  <2>4. QED
    BY <1>5, <2>1, <2>2, <2>3, ServiceBegins
<1>8. ASSUME NEW w \in Worker, CheckSize(w)
      PROVE  Service!Next \/ UNCHANGED Service!vars
  <2> DEFINE v == call[w].vvc
  <2>1. /\ pc[w] = "size" /\ UNCHANGED <<byteRx, packetRx, taken>>
        /\ \/ call' = call
           \/ Len(byteRx[v]) < AsSize(call[w].n) /\ call' = [call EXCEPT ![w] = NoCall]
    BY <1>8 DEF CheckSize, Return
  <2>2. v \in Vvcs /\ v \notin PacketVvcs /\ call[w].exact
    BY <2>1 DEF Types, HasByteQueue, Requests, RequestInv
  <2>3. CASE call' = call
    BY <2>1, <2>3, <1>b
  <2>4. CASE Len(byteRx[v]) < AsSize(call[w].n) /\ call' = [call EXCEPT ![w] = NoCall]
    <3>1. /\ AskedOf[w] # NoCall /\ AskedOf[w].vvc = v /\ AskedOf[w].exact
          /\ AskedOf[w].n = AsSize(call[w].n)
      BY <2>2, AskedFacts DEF AskedOf
    <3>2. AskedOf' = [AskedOf EXCEPT ![w] = NoCall]
      <4>1. \A u \in Worker : Asked(u)' = IF u = w THEN NoCall ELSE Asked(u)
        BY <2>4, IdleAsksNothing DEF Asked, Types
      <4>2. QED
        BY <4>1 DEF AskedOf
    <3>3. Queues' = Queues /\ Queues[v] = byteRx[v]
      BY <2>1, <2>2 DEF Queues, Queue
    <3>4. ~Service!Available(AskedOf[w], Queues[v])
      <4> HIDE DEF Queues, AskedOf, v
      <4>1. Len(byteRx[v]) \in Nat /\ AsSize(call[w].n) \in Nat
        <5>1. byteRx[v] \in Seq(Byte) /\ call[w].n \in Int
          BY <2>2 DEF Types, Bytes, Calls
        <5>2. QED
          BY <5>1, LenProperties, SizeIsNat
      <4>2. QED
        BY <2>4, <3>1, <3>3, <4>1 DEF Service!Available
    <3>5. Service!GiveUp(w)
      <4> HIDE DEF Queues, AskedOf, v
      <4>1. /\ AskedOf[w] # NoCall /\ ~Service!Available(AskedOf[w], Queues[AskedOf[w].vvc])
            /\ AskedOf' = [AskedOf EXCEPT ![w] = NoCall] /\ Queues' = Queues /\ taken' = taken
        BY <2>1, <3>1, <3>2, <3>3, <3>4
      <4>2. QED
        BY <4>1 DEF Service!GiveUp, Queues, Queue, AskedOf, Asked
    <3>6. QED
      BY <3>5 DEF Service!Next
  <2>5. QED
    BY <2>1, <2>3, <2>4
<1>9. ASSUME NEW w \in Worker, GetBytes(w)
      PROVE  Service!Next
  <2>1. PICK v \in Vvcs : v = call[w].vvc /\ v \notin PacketVvcs
    BY <1>9 DEF GetBytes, Types, HasByteQueue
  <2> DEFINE q == byteRx[v]  size == AsSize(call[w].n)  count == TakeCount(q, size)
             rest == SubSeq(q, count + 1, Len(q))
  <2>2. /\ byteRx' = [byteRx EXCEPT ![v] = rest] /\ packetRx' = packetRx
        /\ taken' = [taken EXCEPT ![v] = taken[v] \o SubSeq(q, 1, count)]
        /\ call' = [call EXCEPT ![w] = NoCall]
    BY <1>9, <2>1 DEF GetBytes, Return, TakenBytes, RemainingBytes
  <2>3. call[w].exact => Len(q) >= size
    BY <1>9, <2>1 DEF GetBytes, Requests, RequestInv
  <2> HIDE DEF size
  <2>4. Queue(v) = q /\ Queue(v)' = rest /\ \A u \in Vvcs : u # v => Queue(u)' = Queue(u)
    <3> HIDE DEF rest
    <3>1. QED
      BY <2>1, <2>2 DEF Queue, Types
  <2>5. Asked(w).vvc = v /\ Asked(w).n = size /\ Asked(w).exact = call[w].exact
    BY <2>1, AskedFacts DEF size
  <2>6. Service!Available(Asked(w), Queue(v)) /\ count = Service!Wanted(Asked(w), Queue(v))
    BY <2>1, <2>3, <2>4, <2>5 DEF Service!Available, Service!Wanted, Service!TakeCount, TakeCount
  <2>7. rest = SubSeq(Queue(v), count + 1, Len(Queue(v)))
        /\ taken' = [taken EXCEPT ![v] = @ \o SubSeq(Queue(v), 1, count)]
    BY <2>2, <2>4
  <2> HIDE DEF count, rest, q
  <2>8. TakesItems(w, v, count, rest)
    BY <2>1, <2>2, <2>4, <2>6, <2>7 DEF TakesItems
  <2>9. QED
    BY <2>8, ServiceTakes
<1>10. ASSUME NEW w \in Worker, GetPacket(w)
       PROVE  Service!Next
  <2>1. PICK v \in Vvcs : v = call[w].vvc /\ v \in PacketVvcs
    BY <1>10, <1>a DEF GetPacket, Types, HasPacketQueue
  <2> DEFINE pq == packetRx[v]  q == pq.q  count == IF q = <<>> THEN 0 ELSE 1
             left == RemainingPackets(pq)
  <2>2. /\ packetRx' = [packetRx EXCEPT ![v] = left] /\ byteRx' = byteRx
        /\ taken' = [taken EXCEPT ![v] = taken[v] \o TakenPackets(pq)]
        /\ call' = [call EXCEPT ![w] = NoCall] /\ ~call[w].exact
    BY <1>10, <2>1 DEF GetPacket, Return, Requests, RequestInv
  <2> HIDE DEF left
  <2>3. Queue(v) = q /\ Queue(v)' = left.q /\ \A u \in Vvcs : u # v => Queue(u)' = Queue(u)
    BY <2>1, <2>2 DEF Queue, Types
  <2>4. pq \in PacketQueue /\ q \in Seq(Packet)
    BY DEF Types, PacketQueue, Packets
  <2>5. TakenPackets(pq) = SubSeq(q, 1, count) /\ left.q = SubSeq(q, count + 1, Len(q))
    BY <2>4, PacketIsCut DEF left
  <2>6. Service!Available(Asked(w), Queue(v)) /\ count = Service!Wanted(Asked(w), Queue(v))
    <3>1. Asked(w).vvc = v /\ Asked(w).exact = call[w].exact
      BY <2>1, AskedFacts
    <3>2. QED
      BY <2>1, <2>2, <2>3, <3>1 DEF Service!Available, Service!Wanted
  <2> HIDE DEF q, count
  <2>7. /\ left.q = SubSeq(Queue(v), count + 1, Len(Queue(v)))
        /\ taken' = [taken EXCEPT ![v] = @ \o SubSeq(Queue(v), 1, count)]
    BY <2>2, <2>3, <2>5
  <2>8. TakesItems(w, v, count, left.q)
    BY <2>1, <2>2, <2>3, <2>6, <2>7 DEF TakesItems
  <2>9. QED
    BY <2>8, ServiceTakes
<1>11. CASE UNCHANGED vars
  BY <1>11, <1>b DEF vars, rpc
<1>12. QED
  BY <1>1, <1>2, <1>3, <1>4, <1>6, <1>7, <1>8, <1>9, <1>10, <1>11
     DEF Next, Request, WorkerStep, ReceiveProcess

\* A client cannot tell the procedures, made of several accesses each, from ones
\* that take effect at one instant, for any number of clients and requests.
THEOREM ReceivesAreAtomic == AgreedSpec => ReceivesAtomically
<1>1. Init => Service!Init
  <2> SUFFICES ASSUME Init
               PROVE  Service!Init
    OBVIOUS
  <2>1. \A v \in Vvcs : Queue(v) = <<>>
    BY DEF Init, Queue, EmptyPacketQueue
  <2>2. \A w \in Worker : Asked(w) = NoCall
    BY IdleAsksNothing DEF Init, Asked
  <2>3. Queues = [v \in Vvcs |-> <<>>] /\ AskedOf = [w \in Worker |-> NoCall]
        /\ taken = [v \in Vvcs |-> <<>>]
    BY <2>1, <2>2 DEF Queues, AskedOf, Init
  <2>4. QED
    BY <2>3 DEF Service!Init, Queues, Queue, AskedOf, Asked
<1>2. QED
  BY <1>1, ServiceStep, AgreedInvariant, PTL DEF AgreedSpec, ReceivesAtomically, Service!Spec

=============================================================================
