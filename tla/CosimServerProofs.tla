-------------------------- MODULE CosimServerProofs --------------------------
(***************************************************************************)
(* The server in use keeps the lock discipline of shared_map, whose        *)
(* theorems therefore hold of it, and nothing is in the server's data      *)
(* before it is created or after it is deleted.  Between clients, through  *)
(* both directions and the foreign calls, it delivers each stream of bytes *)
(* or packets in order: all that has entered it has left it, has arrived,  *)
(* or is on the way, and the rest of the module is about where that is.    *)
(***************************************************************************)
EXTENDS CosimServer, SharedMapProofs, StreamFacts

\* Every step of the server is a step of shared_map, or leaves it alone.
LEMMA MapStep == [Next]_vars => [MapNext]_mapVars
<1> SUFFICES ASSUME [Next]_vars PROVE [MapNext]_mapVars
  OBVIOUS
<1>1. ASSUME NEW t \in Threads, NEW f, Call(t, f) PROVE MapNext \/ UNCHANGED mapVars
  <2>1. access' = [access EXCEPT ![t] = f]
    BY <1>1 DEF Call
  <2>2. CASE t \in DOMAIN access
    <3>1. f = access'[t]
      BY <2>1, <2>2
    <3> QED BY <1>1, <3>1 DEF MapNext
  <2>3. CASE t \notin DOMAIN access
    <3>1. access' = [access EXCEPT ![t] = access'[t]]
      BY <2>1, <2>3
    <3>2. Call(t, access'[t])
      BY <1>1, <3>1 DEF Call
    <3> QED BY <3>2 DEF MapNext
  <2> QED BY <2>2, <2>3
<1>2. CASE UNCHANGED vars
  BY <1>2 DEF vars
<1>3. CASE StartOfSim \/ EndOfSim \/ DeleteServer \/ Ended \/ BeginCall
  BY <1>3 DEF StartOfSim, EndOfSim, DeleteServer, Ended, BeginCall, vars
<1>4. CASE MakeCall
  BY <1>4, <1>1, SimAssumption DEF MakeCall
<1>5. ASSUME NEW t \in Workers, Request(t) PROVE [MapNext]_mapVars
  BY <1>5, <1>1 DEF Request, Workers
<1>6. ASSUME NEW t \in Threads, Step(t) PROVE [MapNext]_mapVars
  BY <1>6 DEF Step, EndAccess, SimReturn, RequestReturn, MapNext
<1> QED BY <1>2, <1>3, <1>4, <1>5, <1>6 DEF Next

THEOREM ServerUsesSharedMap == Spec => MapSpec
<1>1. Init => MapInit
  BY DEF Init
<1> QED BY <1>1, MapStep, PTL DEF Spec, MapSpec

\* The server's threads exclude each other from the map ...
THEOREM ServerLockHeld == Spec => []LockHeld
BY ServerUsesSharedMap, LockAlwaysHeld, PTL

\* ... so that each foreign call and each access of a request is atomic.
THEOREM ServerAccessesAtomic == Spec => AccessesAtomic
BY ServerUsesSharedMap, SharedMapIsAtomic, PTL

-----------------------------------------------------------------------------
\* While it is null or deleted no thread has called; while it stops, not the
\* simulator, which is in StopListening.
CallsInv ==
    /\ cosim_server \in {"null", "deleted"} => \A t \in Workers : pc[t] = "idle"
    /\ cosim_server # "listening" => pc[Sim] = "idle" /\ call = None
    /\ pc[Sim] # "idle" => call # None

\* A report in progress is one of those left.
ReportInv ==
    call # None /\ call.name = "report_vvc_info" => reported + 1 \in 0..Len(Reports)

ServerInv ==
    /\ TypeOK
    /\ DOMAIN access = Threads
    /\ call # None => "name" \in DOMAIN call
    /\ CallsInv
    /\ ReportInv

LEMMA ServerInvInit == Init => ServerInv
<1> SUFFICES ASSUME Init PROVE ServerInv
  OBVIOUS
<1> USE DEF Init, MapInit
<1>1. TypeOK
  BY ReportsAssumption DEF TypeOK
<1>2. CallsInv
  BY SimAssumption DEF CallsInv, Workers
<1> QED BY <1>1, <1>2 DEF ServerInv, ReportInv

LEMMA ServerInvNext == ServerInv /\ [Next]_vars => ServerInv'
<1> SUFFICES ASSUME ServerInv, [Next]_vars PROVE ServerInv'
  OBVIOUS
<1> USE SimAssumption DEF ServerInv, TypeOK, CallsInv, ReportInv, Workers
<1>1. CASE UNCHANGED vars
  BY <1>1 DEF vars, mapVars, driverVars
<1>2. CASE StartOfSim
  BY <1>2 DEF StartOfSim, mapVars
<1>3. CASE EndOfSim
  BY <1>3 DEF EndOfSim, mapVars
<1>4. CASE DeleteServer
  BY <1>4 DEF DeleteServer, mapVars
<1>5. CASE Ended
  BY <1>5 DEF Ended, vars, mapVars, driverVars
<1>6. CASE BeginCall
  BY <1>6, ReportsAssumption DEF BeginCall, ReportCall, PollCall, mapVars
<1>7. CASE MakeCall
  BY <1>7 DEF MakeCall, Call, driverVars
<1>8. ASSUME NEW t \in Threads \ {Sim}, Request(t) PROVE ServerInv'
  BY <1>8 DEF Request, Call
<1>9. ASSUME NEW t \in Threads, Step(t) PROVE ServerInv'
  <2>1. CASE (Lock(t) \/ Read(t)) /\ UNCHANGED driverVars
    BY <2>1 DEF Lock, Read, driverVars
  <2>2. CASE EndAccess(t)
    BY <2>2 DEF EndAccess, Write
  <2>3. CASE t = Sim /\ SimReturn
    <3>1. call # None
      BY <2>3 DEF SimReturn, Return
    <3>2. call' # None => "name" \in DOMAIN call' /\ call'.name # "report_vvc_info"
      BY <2>3, <3>1 DEF SimReturn, Following
    <3>3. reported' \in 0..Len(Reports)
      BY <2>3, <3>1 DEF SimReturn
    <3> QED BY <2>3, <3>2, <3>3 DEF SimReturn, Return
  <2>4. CASE t # Sim /\ RequestReturn(t)
    BY <2>4 DEF RequestReturn, Return, driverVars
  <2> QED BY <1>9, <2>1, <2>2, <2>3, <2>4 DEF Step
<1> QED BY <1>1, <1>2, <1>3, <1>4, <1>5, <1>6, <1>7, <1>8, <1>9 DEF Next

LEMMA ServerInvariant == Spec => []ServerInv
BY ServerInvInit, ServerInvNext, PTL DEF Spec

THEOREM ServerTypeCorrect == Spec => []TypeOK
<1>1. ServerInv => TypeOK
  BY DEF ServerInv
<1> QED BY <1>1, ServerInvariant, PTL

\* The pointer the foreign calls use unchecked is good whenever one uses it,
\* and so is the data a request is working on.
THEOREM ServerOutlivesItsUse == Spec => []NoUseAfterDelete
<1>1. ServerInv => NoUseAfterDelete
  BY DEF ServerInv, CallsInv, NoUseAfterDelete, Workers
<1> QED BY <1>1, ServerInvariant, PTL
-----------------------------------------------------------------------------
(* Queues in the map                                                        *)

Bytes == Seq(Byte)
Packet == Bytes \ {<<>>}
PacketQueues == [q : Seq(Packet), buff : Bytes]

\* What the map holds for each key: the configuration and the queues of a VVC.
MapOK(m) ==
    \A v \in DOMAIN m :
        /\ DOMAIN m[v] = {"cfg", "byte_queues", "packet_queues"}
        /\ DOMAIN m[v].cfg = {"listen_enable", "cosim_support", "packet_based", "bfm_cfg"}
        /\ m[v].cfg.packet_based \in BOOLEAN
        /\ m[v].byte_queues \in [QueueIds -> Bytes]
        /\ m[v].packet_queues \in [QueueIds -> PacketQueues]

\* The queues under a key; those of a VVC that is still to be reported are empty.
BytesIn(m, qid, v) == IF v \in DOMAIN m THEN m[v].byte_queues[qid] ELSE <<>>
PacketsIn(m, qid, v) == IF v \in DOMAIN m THEN m[v].packet_queues[qid] ELSE EmptyPacketQueue

LEMMA QueuesTyped ==
    ASSUME NEW m, MapOK(m), NEW qid \in QueueIds, NEW v
    PROVE  BytesIn(m, qid, v) \in Bytes /\ PacketsIn(m, qid, v) \in PacketQueues
<1>1. <<>> \in Bytes /\ <<>> \in Seq(Packet)
  BY EmptySeq DEF Bytes
<1> QED BY <1>1 DEF MapOK, BytesIn, PacketsIn, PacketQueues, EmptyPacketQueue

\* The same VVCs, in the same modes
SameVvcs(m, n) ==
    /\ MapOK(n)
    /\ DOMAIN n = DOMAIN m
    /\ \A v \in DOMAIN m : n[v].cfg.packet_based = m[v].cfg.packet_based

SameBytes(m, n) == \A qid \in QueueIds : \A v : BytesIn(n, qid, v) = BytesIn(m, qid, v)
SamePackets(m, n) == \A qid \in QueueIds : \A v : PacketsIn(n, qid, v) = PacketsIn(m, qid, v)

\* Queue qid of v has become b, or p, and no other has changed.
BytesSet(m, n, qid, v, b) ==
    \A i \in QueueIds : \A u : BytesIn(n, i, u) = IF i = qid /\ u = v THEN b ELSE BytesIn(m, i, u)
PacketsSet(m, n, qid, v, p) ==
    \A i \in QueueIds : \A u : PacketsIn(n, i, u) = IF i = qid /\ u = v THEN p ELSE PacketsIn(m, i, u)

LEMMA SetBytes ==
    ASSUME NEW m, MapOK(m), NEW v \in DOMAIN m, NEW qid \in QueueIds, NEW b \in Bytes
    PROVE  LET n == [m EXCEPT ![v].byte_queues[qid] = b]
           IN  SameVvcs(m, n) /\ BytesSet(m, n, qid, v, b) /\ SamePackets(m, n)
<1> DEFINE n == [m EXCEPT ![v].byte_queues[qid] = b]
<1>1. DOMAIN n = DOMAIN m /\ \A u \in DOMAIN m : u # v => n[u] = m[u]
  OBVIOUS
<1>2. n[v] = [m[v] EXCEPT !.byte_queues = [m[v].byte_queues EXCEPT ![qid] = b]]
  OBVIOUS
<1> HIDE DEF n
<1>3. /\ DOMAIN n[v] = DOMAIN m[v] /\ n[v].cfg = m[v].cfg
      /\ n[v].packet_queues = m[v].packet_queues
      /\ n[v].byte_queues = [m[v].byte_queues EXCEPT ![qid] = b]
  BY <1>2 DEF MapOK
<1>4. /\ n[v].byte_queues \in [QueueIds -> Bytes]
      /\ \A i \in QueueIds : n[v].byte_queues[i] = IF i = qid THEN b ELSE m[v].byte_queues[i]
  BY <1>3 DEF MapOK
<1>5. SameVvcs(m, n)
  BY <1>1, <1>3, <1>4 DEF SameVvcs, MapOK
<1>6. BytesSet(m, n, qid, v, b)
  BY <1>1, <1>4 DEF BytesSet, BytesIn
<1>7. SamePackets(m, n)
  BY <1>1, <1>3 DEF SamePackets, PacketsIn
<1> QED BY <1>5, <1>6, <1>7 DEF n

LEMMA SetPackets ==
    ASSUME NEW m, MapOK(m), NEW v \in DOMAIN m, NEW qid \in QueueIds, NEW p \in PacketQueues
    PROVE  LET n == [m EXCEPT ![v].packet_queues[qid] = p]
           IN  SameVvcs(m, n) /\ PacketsSet(m, n, qid, v, p) /\ SameBytes(m, n)
<1> DEFINE n == [m EXCEPT ![v].packet_queues[qid] = p]
<1>1. DOMAIN n = DOMAIN m /\ \A u \in DOMAIN m : u # v => n[u] = m[u]
  OBVIOUS
<1>2. n[v] = [m[v] EXCEPT !.packet_queues = [m[v].packet_queues EXCEPT ![qid] = p]]
  OBVIOUS
<1> HIDE DEF n
<1>3. /\ DOMAIN n[v] = DOMAIN m[v] /\ n[v].cfg = m[v].cfg
      /\ n[v].byte_queues = m[v].byte_queues
      /\ n[v].packet_queues = [m[v].packet_queues EXCEPT ![qid] = p]
  BY <1>2 DEF MapOK
<1>4. /\ n[v].packet_queues \in [QueueIds -> PacketQueues]
      /\ \A i \in QueueIds : n[v].packet_queues[i] = IF i = qid THEN p ELSE m[v].packet_queues[i]
  BY <1>3 DEF MapOK
<1>5. SameVvcs(m, n)
  BY <1>1, <1>3, <1>4 DEF SameVvcs, MapOK
<1>6. PacketsSet(m, n, qid, v, p)
  BY <1>1, <1>4 DEF PacketsSet, PacketsIn
<1>7. SameBytes(m, n)
  BY <1>1, <1>3 DEF SameBytes, BytesIn
<1> QED BY <1>5, <1>6, <1>7 DEF n

LEMMA SetListen ==
    ASSUME NEW m, MapOK(m), NEW v \in DOMAIN m, NEW enable
    PROVE  LET n == [m EXCEPT ![v].cfg.listen_enable = enable]
           IN  SameVvcs(m, n) /\ SameBytes(m, n) /\ SamePackets(m, n)
<1> DEFINE n == [m EXCEPT ![v].cfg.listen_enable = enable]
<1>1. DOMAIN n = DOMAIN m /\ \A u \in DOMAIN m : u # v => n[u] = m[u]
  OBVIOUS
<1>2. n[v] = [m[v] EXCEPT !.cfg = [m[v].cfg EXCEPT !.listen_enable = enable]]
  OBVIOUS
<1> HIDE DEF n
<1>3. /\ DOMAIN n[v] = DOMAIN m[v]
      /\ n[v].byte_queues = m[v].byte_queues /\ n[v].packet_queues = m[v].packet_queues
      /\ n[v].cfg = [m[v].cfg EXCEPT !.listen_enable = enable]
  BY <1>2 DEF MapOK
<1>4. DOMAIN n[v].cfg = DOMAIN m[v].cfg /\ n[v].cfg.packet_based = m[v].cfg.packet_based
  BY <1>3 DEF MapOK
<1>5. SameVvcs(m, n)
  BY <1>1, <1>3, <1>4 DEF SameVvcs, MapOK
<1>6. SameBytes(m, n) /\ SamePackets(m, n)
  BY <1>1, <1>3 DEF SameBytes, SamePackets, BytesIn, PacketsIn
<1> QED BY <1>5, <1>6 DEF n

\* A VVC is added with empty queues.
LEMMA AddOne ==
    ASSUME NEW m, MapOK(m), NEW v, v \notin DOMAIN m, NEW bfm_cfg
    PROVE  LET n == AddVvc(m, v, bfm_cfg).map
           IN  /\ MapOK(n) /\ SameBytes(m, n) /\ SamePackets(m, n)
               /\ DOMAIN n = DOMAIN m \cup {v}
               /\ \A u \in DOMAIN m : n[u].cfg.packet_based = m[u].cfg.packet_based
               /\ n[v].cfg.packet_based = VvcConfig(bfm_cfg).packet_based
<1> DEFINE cfg == VvcConfig(bfm_cfg)  new == NewInstance(cfg)
           n == [k \in DOMAIN m \cup {v} |-> IF k = v THEN new ELSE m[k]]
<1>1. AddVvc(m, v, bfm_cfg).map = n
  BY DEF AddVvc, Returns
<1>2. /\ DOMAIN cfg = {"listen_enable", "cosim_support", "packet_based", "bfm_cfg"}
      /\ cfg.packet_based \in BOOLEAN
  <2>1. DOMAIN cfg = {"listen_enable", "cosim_support", "packet_based", "bfm_cfg"}
    BY DEF VvcConfig
  <2>2. cfg.packet_based = IsSet(bfm_cfg, "packet_based")
    BY DEF VvcConfig
  <2>3. IsSet(bfm_cfg, "packet_based") \in BOOLEAN
    BY Zenon DEF IsSet
  <2> HIDE DEF cfg
  <2> QED BY <2>1, <2>2, <2>3
<1> HIDE DEF cfg
<1>3. /\ DOMAIN new = {"cfg", "byte_queues", "packet_queues"}
      /\ new.cfg = cfg
      /\ new.byte_queues = [qid \in QueueIds |-> <<>>]
      /\ new.packet_queues = [qid \in QueueIds |-> EmptyPacketQueue]
  BY DEF NewInstance
<1>4. <<>> \in Bytes /\ EmptyPacketQueue \in PacketQueues
  <2>1. <<>> \in Bytes /\ <<>> \in Seq(Packet)
    BY EmptySeq DEF Bytes
  <2> QED BY <2>1 DEF EmptyPacketQueue, PacketQueues
<1> HIDE DEF new
<1>5. DOMAIN n = DOMAIN m \cup {v} /\ n[v] = new /\ \A u \in DOMAIN m : n[u] = m[u]
  OBVIOUS
<1> HIDE DEF n
<1>6. MapOK(n)
  BY <1>2, <1>3, <1>4, <1>5 DEF MapOK
<1>7. SameBytes(m, n) /\ SamePackets(m, n)
  BY <1>3, <1>5 DEF SameBytes, SamePackets, BytesIn, PacketsIn
<1> QED BY <1>1, <1>3, <1>5, <1>6, <1>7 DEF cfg

-----------------------------------------------------------------------------
(* Packets on the way                                                       *)

PacketLists == Seq(Bytes)

\* What is on the way of a packet stream: the bytes gone ahead, pre, which are a
\* whole packet if they end with an end flag, and the queue they were taken from.
Unsent(pre, ends, q) ==
    IF ends THEN <<pre>> \o q
    ELSE IF pre = <<>> THEN q
    ELSE <<pre \o Head(q)>> \o Tail(q)

\* The rest of a packet that was begun is there.
Begun(pre, ends, q) == pre # <<>> /\ ~ends => q # <<>>

LEMMA PacketsAreLists == Seq(Packet) \subseteq PacketLists
<1> SUFFICES ASSUME NEW q \in Seq(Packet) PROVE q \in Seq(Bytes)
  BY DEF PacketLists
<1>1. Len(q) \in Nat /\ DOMAIN q = 1..Len(q) /\ \A i \in 1..Len(q) : q[i] \in Bytes
  BY LenProperties, ElementOfSeq DEF Packet
<1>2. q = [i \in 1..Len(q) |-> q[i]]
  BY <1>1, SeqDef
<1> QED BY <1>1, <1>2, SeqDef

LEMMA BytesJoin == \A x, y \in Bytes : x \o y \in Bytes
BY ConcatProperties DEF Bytes

LEMMA ListsJoin == \A x, y \in PacketLists : x \o y \in PacketLists
BY ConcatProperties DEF PacketLists

LEMMA BytesRegroup ==
    ASSUME NEW x \in Bytes, NEW y \in Bytes, NEW z \in Bytes
    PROVE  (x \o y) \o z = x \o (y \o z)
BY ConcatAssociative DEF Bytes

LEMMA ListsRegroup ==
    ASSUME NEW x \in PacketLists, NEW y \in PacketLists, NEW z \in PacketLists
    PROVE  (x \o y) \o z = x \o (y \o z)
<1> DEFINE S == Bytes
<1>1. x \in Seq(S) /\ y \in Seq(S) /\ z \in Seq(S)
  BY DEF PacketLists
<1> HIDE DEF S
<1> QED BY <1>1, ConcatAssociative

LEMMA OneIsList == \A x \in Bytes : <<x>> \in PacketLists
BY DEF PacketLists

\* The first packet of a queue and the others
LEMMA FirstPacket ==
    ASSUME NEW q \in Seq(Packet), q # <<>>
    PROVE  /\ Head(q) \in Packet /\ Head(q) \in Bytes
           /\ Tail(q) \in Seq(Packet) /\ Tail(q) \in PacketLists
           /\ q = <<Head(q)>> \o Tail(q)
<1>1. Head(q) \in Packet /\ Tail(q) \in Seq(Packet) /\ q = <<Head(q)>> \o Tail(q)
  BY HeadThenTail
<1>2. Head(q) \in Bytes
  BY <1>1 DEF Packet
<1> QED BY <1>1, <1>2, PacketsAreLists

LEMMA UnsentIsList ==
    ASSUME NEW pre \in Bytes, NEW ends \in BOOLEAN, NEW q \in Seq(Packet), Begun(pre, ends, q)
    PROVE  Unsent(pre, ends, q) \in PacketLists
<1>1. q \in PacketLists /\ <<pre>> \in PacketLists
  BY PacketsAreLists, OneIsList
<1>2. CASE ends \/ pre = <<>>
  BY <1>1, <1>2, ListsJoin DEF Unsent
<1>3. CASE ~ends /\ pre # <<>>
  <2>1. Head(q) \in Bytes /\ Tail(q) \in PacketLists
    BY <1>3, FirstPacket DEF Begun
  <2>2. <<pre \o Head(q)>> \in PacketLists
    BY <2>1, BytesJoin, OneIsList
  <2> QED BY <1>3, <2>1, <2>2, ListsJoin DEF Unsent
<1> QED BY <1>2, <1>3

\* A packet that is queued is behind all that is on the way.
LEMMA QueuedBehind ==
    ASSUME NEW pre \in Bytes, NEW ends \in BOOLEAN, NEW q \in Seq(Packet), Begun(pre, ends, q),
           NEW pkt \in Packet
    PROVE  /\ Unsent(pre, ends, Append(q, pkt)) = Unsent(pre, ends, q) \o <<pkt>>
           /\ Append(q, pkt) \in Seq(Packet) /\ Append(q, pkt) # <<>>
<1> DEFINE more == Append(q, pkt)  one == <<pkt>>
<1>1. more \in Seq(Packet) /\ more = q \o one /\ more # <<>>
  BY AppendProperties, AppendIsConcat
<1>2. q \in PacketLists /\ one \in PacketLists /\ <<pre>> \in PacketLists
  BY PacketsAreLists, OneIsList DEF Packet
<1>3. q # <<>> => Head(more) = Head(q) /\ Tail(more) = Tail(q) \o one
  <2> SUFFICES ASSUME q # <<>>
               PROVE  Head(more) = Head(q) /\ Tail(more) = Tail(q) \o one
    OBVIOUS
  <2>1. Head(more) = Head(q) /\ Tail(more) = Append(Tail(q), pkt)
    BY HeadTailAppend
  <2>2. Append(Tail(q), pkt) = Tail(q) \o one
    BY FirstPacket, AppendIsConcat
  <2> QED BY <2>1, <2>2
<1> SUFFICES Unsent(pre, ends, more) = Unsent(pre, ends, q) \o one
  BY <1>1
<1> HIDE DEF more, one
<1>4. CASE ends
  BY <1>1, <1>2, <1>4, ListsRegroup DEF Unsent
<1>5. CASE ~ends /\ pre = <<>>
  BY <1>1, <1>5 DEF Unsent
<1>6. CASE ~ends /\ pre # <<>>
  <2> DEFINE first == <<pre \o Head(q)>>  rest == Tail(q)
  <2>1. q # <<>>
    BY <1>6 DEF Begun
  <2>2. first \in PacketLists /\ rest \in PacketLists
    BY <2>1, FirstPacket, BytesJoin, OneIsList
  <2>3. Unsent(pre, ends, more) = first \o (rest \o one)
    BY <1>3, <1>6, <2>1 DEF Unsent
  <2>4. Unsent(pre, ends, q) = first \o rest
    BY <1>6 DEF Unsent
  <2> HIDE DEF first, rest
  <2>5. (first \o rest) \o one = first \o (rest \o one)
    BY <1>2, <2>2, ListsRegroup
  <2> QED BY <2>3, <2>4, <2>5
<1> QED BY <1>4, <1>5, <1>6

\* A byte that is taken moves from the first packet of the queue to those ahead.
LEMMA ByteTaken ==
    ASSUME NEW pq \in PacketQueues, pq.q # <<>>, NEW pre \in Bytes
    PROVE  LET r == GetPacketByte(pq)
           IN  /\ r.got /\ ~r.throws /\ r.byte \in Byte /\ r.eop \in BOOLEAN
               /\ r.rest \in PacketQueues
               /\ Unsent(pre \o <<r.byte>>, r.eop, r.rest.q) = Unsent(pre, FALSE, pq.q)
               /\ Begun(pre \o <<r.byte>>, r.eop, r.rest.q)
<1> DEFINE q == pq.q  first == Head(q)  others == Tail(q)  b == Head(first)  tail == Tail(first)
           eop == tail = <<>>
           rest == IF eop THEN others ELSE <<tail>> \o others
           r == GetPacketByte(pq)
<1>1. q \in Seq(Packet) /\ pq.buff \in Bytes
  BY DEF PacketQueues
<1>2. /\ first \in Packet /\ first \in Bytes /\ others \in Seq(Packet) /\ others \in PacketLists
      /\ q = <<first>> \o others
  BY <1>1, FirstPacket
<1>3. b \in Byte /\ tail \in Bytes /\ first = <<b>> \o tail
  <2>1. first \in Seq(Byte) /\ first # <<>>
    BY <1>2 DEF Packet, Bytes
  <2> HIDE DEF first
  <2> QED BY <2>1, HeadThenTail DEF Bytes
<1>4. r = [got |-> TRUE, throws |-> FALSE, byte |-> b, eop |-> eop, rest |-> [pq EXCEPT !.q = rest]]
  <2>1. Head(pq.q) # <<>>
    BY <1>2 DEF Packet
  <2> QED BY <2>1 DEF GetPacketByte
<1>5. /\ r.got /\ ~r.throws /\ r.byte = b /\ (r.eop <=> eop) /\ r.eop \in BOOLEAN
      /\ r.rest = [pq EXCEPT !.q = rest]
  <2> HIDE DEF q, first, others, b, tail, rest, r
  <2> DEFINE e == eop
  <2>1. e \in BOOLEAN
    OBVIOUS
  <2>2. r = [got |-> TRUE, throws |-> FALSE, byte |-> b, eop |-> e, rest |-> [pq EXCEPT !.q = rest]]
    BY <1>4
  <2> HIDE DEF e
  <2>3. r.got /\ ~r.throws /\ r.byte = b /\ r.eop = e /\ r.rest = [pq EXCEPT !.q = rest]
    BY <2>2
  <2> QED BY <2>1, <2>3 DEF e
<1>6. rest \in Seq(Packet)
  <2>1. CASE eop
    BY <1>2, <2>1
  <2>2. CASE ~eop
    <3>1. <<tail>> \in Seq(Packet)
      BY <1>3, <2>2 DEF Packet
    <3> QED BY <1>2, <2>2, <3>1, ConcatProperties
  <2> QED BY <2>1, <2>2
<1>7. r.rest \in PacketQueues /\ r.rest.q = rest
  <2> HIDE DEF rest, r
  <2> QED BY <1>5, <1>6 DEF PacketQueues
<1> DEFINE ahead == pre \o <<b>>
<1>8. ahead \in Bytes /\ ahead # <<>> /\ <<b>> \in Bytes /\ pre \o first \in Bytes
  <2>1. <<b>> \in Bytes /\ Len(<<b>>) = 1
    BY <1>3 DEF Bytes
  <2>2. Len(ahead) = Len(pre) + 1 /\ Len(pre) \in Nat
    BY <2>1, ConcatProperties, LenProperties DEF Bytes
  <2>3. ahead \in Bytes /\ pre \o first \in Bytes
    BY <1>2, <2>1, BytesJoin
  <2> QED BY <2>1, <2>2, <2>3
<1>9. pre \o first = ahead \o tail
  <2> DEFINE one == <<b>>
  <2>1. one \in Bytes /\ first = one \o tail
    BY <1>3, <1>8
  <2> HIDE DEF one, first, tail
  <2>2. pre \o (one \o tail) = (pre \o one) \o tail
    BY <1>3, <2>1, BytesRegroup
  <2> QED BY <2>1, <2>2 DEF one
<1>10. Unsent(pre, FALSE, q) = <<ahead \o tail>> \o others
  <2>1. CASE pre = <<>>
    <3>1. pre \o first = first
      BY <1>2, <2>1, ConcatEmptySeq DEF Bytes
    <3> HIDE DEF q, first, others, ahead, tail
    <3> QED BY <1>2, <1>9, <2>1, <3>1 DEF Unsent
  <2>2. CASE pre # <<>>
    BY <1>9, <2>2 DEF Unsent
  <2> QED BY <2>1, <2>2
<1>11. Unsent(ahead, eop, rest) = <<ahead \o tail>> \o others /\ Begun(ahead, eop, rest)
  <2>1. CASE eop
    <3>1. ahead \o tail = ahead
      BY <1>8, <2>1, ConcatEmptySeq DEF Bytes
    <3> HIDE DEF ahead, others
    <3> QED BY <2>1, <3>1 DEF Unsent, Begun
  <2>2. CASE ~eop
    <3>1. /\ Head(<<tail>> \o others) = tail /\ Tail(<<tail>> \o others) = others
          /\ <<tail>> \o others # <<>>
      <4> HIDE DEF tail, others
      <4>1. others \in Seq(Bytes) /\ tail \in Bytes
        BY <1>2, <1>3 DEF PacketLists
      <4> QED BY <4>1, InFront
    <3> HIDE DEF ahead, tail, others
    <3> QED BY <1>8, <2>2, <3>1 DEF Unsent, Begun
  <2> QED BY <2>1, <2>2
<1>12. Unsent(pre \o <<r.byte>>, r.eop, r.rest.q) = Unsent(ahead, eop, rest)
       /\ Begun(pre \o <<r.byte>>, r.eop, r.rest.q) = Begun(ahead, eop, rest)
  <2> DEFINE e == eop
  <2>1. r.eop = e /\ r.byte = b /\ r.rest.q = rest
    BY <1>5, <1>7
  <2> HIDE DEF e, r, b, rest
  <2> QED BY <2>1 DEF e, ahead
<1> HIDE DEF r, q, ahead, rest, others, tail, b, first
<1>13. Begun(pre \o <<r.byte>>, r.eop, r.rest.q)
  BY <1>11, <1>12
<1> QED BY <1>3, <1>5, <1>7, <1>10, <1>11, <1>12, <1>13 DEF q, r

-----------------------------------------------------------------------------
(* The simulator's calls                                                    *)

PollAccess(s) ==
    [op |-> IF s.packet_based THEN "packet_queue_empty" ELSE "byte_queue_empty",
     qid |-> "TRANSMIT", vvc |-> Sender(s)]
GetAccess(s) ==
    [op |-> IF s.packet_based THEN "packet_queue_get_byte" ELSE "byte_queue_get",
     qid |-> "TRANSMIT", vvc |-> Sender(s)]
PutAccess(s, b, e) ==
    IF s.packet_based
    THEN [op |-> "packet_queue_put_byte", qid |-> "RECEIVE", vvc |-> Receiver(Loop[s]),
          byte |-> b, eop |-> e]
    ELSE [op |-> "byte_queue_put", qid |-> "RECEIVE", vvc |-> Receiver(Loop[s]), data |-> <<b>>]

\* A string without a NUL crosses as it is.
LEMMA NoNul ==
    ASSUME NEW s \in Seq(STRING), \A i \in DOMAIN s : s[i] # Nul
    PROVE  get_string(s) = s
<1> DEFINE ends == {i \in 1..Len(s) + 1 : i = Len(s) + 1 \/ s[i] = Nul}
           m == CHOOSE x \in ends : \A y \in ends : x <= y
<1>1. Len(s) \in Nat /\ DOMAIN s = 1..Len(s)
  BY LenProperties
<1>2. ends = {Len(s) + 1}
  BY <1>1
<1> HIDE DEF ends
<1>3. m = Len(s) + 1
  <2>1. \E x \in ends : \A y \in ends : x <= y
    BY <1>1, <1>2
  <2>2. m \in ends
    BY <2>1
  <2> QED BY <1>2, <2>2
<1>4. get_string(s) = SubSeq(s, 1, m - 1)
  BY DEF get_string, Min, ends
<1> HIDE DEF m
<1>5. m - 1 = Len(s) /\ SubSeq(s, 1, Len(s)) = s
  BY <1>1, <1>3, SubSeqFull
<1> QED BY <1>4, <1>5

\* Arguments in front of others
LEMMA ArgsInFront ==
    ASSUME NEW a, NEW b, NEW c, NEW d
    PROVE  <<a, b>> \o <<c>> = <<a, b, c>> /\ <<a, b>> \o <<c, d>> = <<a, b, c, d>>
<1> DEFINE S == {a, b, c, d}
<1>1. <<a, b>> \in Seq(S) /\ <<c>> \in Seq(S) /\ <<c, d>> \in Seq(S)
      /\ <<a, b, c>> \in Seq(S) /\ <<a, b, c, d>> \in Seq(S)
  OBVIOUS
<1>2. <<a, b>> \o <<c>> = <<a, b, c>>
  <2> DEFINE t == <<a, b>> \o <<c>>
  <2>1. t \in Seq(S) /\ Len(t) = 3 /\ t[1] = a /\ t[2] = b /\ t[3] = c
    BY <1>1, ConcatProperties
  <2> HIDE DEF t, S
  <2>2. t = <<a, b, c>>
    BY <1>1, <2>1, SeqEqual
  <2> QED BY <2>2 DEF t
<1>3. <<a, b>> \o <<c, d>> = <<a, b, c, d>>
  <2> DEFINE t == <<a, b>> \o <<c, d>>
  <2>1. t \in Seq(S) /\ Len(t) = 4 /\ t[1] = a /\ t[2] = b /\ t[3] = c /\ t[4] = d
    BY <1>1, ConcatProperties
  <2> HIDE DEF t, S
  <2>2. t = <<a, b, c, d>>
    BY <1>1, <2>1, SeqEqual
  <2> QED BY <2>2 DEF t
<1> QED BY <1>2, <1>3

LEMMA TargetFacts ==
    ASSUME NEW s \in DOMAIN Loop
    PROVE  /\ s \in Target /\ Loop[s] \in Target /\ Loop[s].packet_based = s.packet_based
           /\ s.packet_based \in BOOLEAN
           /\ get_string(s.vvc_type) = s.vvc_type
           /\ get_string(Loop[s].vvc_type) = Loop[s].vvc_type
<1>1. s \in Target /\ Loop[s] \in Target /\ Loop[s].packet_based = s.packet_based
  BY LoopAssumption
<1>2. s.vvc_type \in Seq(STRING) /\ Loop[s].vvc_type \in Seq(STRING) /\ s.packet_based \in BOOLEAN
  BY <1>1 DEF Target
<1>3. get_string(s.vvc_type) = s.vvc_type
  BY <1>2, NoNul, LoopAssumption
<1>4. get_string(Loop[s].vvc_type) = Loop[s].vvc_type
  BY <1>2, NoNul, LoopAssumption
<1> QED BY <1>1, <1>2, <1>3, <1>4

\* Whatever the interface, a call is the access of the queue it is for.
LEMMA CallAccess ==
    ASSUME NEW s \in DOMAIN Loop
    PROVE  /\ ServerAccess(PollCall(s).name, Arguments(PollCall(s))) = PollAccess(s)
           /\ ServerAccess(GetCall(s).name, Arguments(GetCall(s))) = GetAccess(s)
           /\ \A b \in Byte, e \in BOOLEAN :
                 ServerAccess(PutCall(s, b, e).name, Arguments(PutCall(s, b, e)))
                     = PutAccess(s, b, e)
<1> DEFINE t == Loop[s]
<1>1. /\ s \in Target /\ t \in Target /\ t.packet_based = s.packet_based
      /\ s.packet_based \in BOOLEAN
      /\ get_string(s.vvc_type) = s.vvc_type /\ get_string(t.vvc_type) = t.vvc_type
  BY TargetFacts
<1> DEFINE P == PollCall(s)  G == GetCall(s)
<1>2. /\ P.name = IF s.packet_based THEN "transmit_packet_queue_empty" ELSE "transmit_byte_queue_empty"
      /\ P.args = <<s.vvc_type, s.vvc_instance_id>>
      /\ G.name = IF s.packet_based THEN "transmit_packet_queue_get" ELSE "transmit_byte_queue_get"
      /\ G.args = <<s.vvc_type, s.vvc_instance_id>>
  BY DEF PollCall, GetCall, TargetArgs
<1> HIDE DEF P, G
<1>3. Arguments(P).vvc_type = s.vvc_type /\ Arguments(P).vvc_instance_id = s.vvc_instance_id
  <2>1. VhpiArguments(P.name, P.args).vvc_type = s.vvc_type
        /\ VhpiArguments(P.name, P.args).vvc_instance_id = s.vvc_instance_id
    BY <1>1, <1>2 DEF VhpiArguments
  <2>2. FliArguments(P.name, P.args).vvc_type = s.vvc_type
        /\ FliArguments(P.name, P.args).vvc_instance_id = s.vvc_instance_id
    BY <1>1, <1>2 DEF FliArguments
  <2> QED BY <2>1, <2>2 DEF Arguments
<1>4. Arguments(G).vvc_type = s.vvc_type /\ Arguments(G).vvc_instance_id = s.vvc_instance_id
  <2>1. VhpiArguments(G.name, G.args).vvc_type = s.vvc_type
        /\ VhpiArguments(G.name, G.args).vvc_instance_id = s.vvc_instance_id
    BY <1>1, <1>2 DEF VhpiArguments
  <2>2. FliArguments(G.name, G.args).vvc_type = s.vvc_type
        /\ FliArguments(G.name, G.args).vvc_instance_id = s.vvc_instance_id
    BY <1>1, <1>2 DEF FliArguments
  <2> QED BY <2>1, <2>2 DEF Arguments
<1>5. ServerAccess(P.name, Arguments(P)) = PollAccess(s)
  BY <1>1, <1>2, <1>3 DEF ServerAccess, PollAccess, Sender, TxKey, PacketKey
<1>6. ServerAccess(G.name, Arguments(G)) = GetAccess(s)
  BY <1>1, <1>2, <1>4 DEF ServerAccess, GetAccess, Sender, TxKey, PacketKey
<1>7. ASSUME NEW b \in Byte, NEW e \in BOOLEAN
      PROVE  ServerAccess(PutCall(s, b, e).name, Arguments(PutCall(s, b, e))) = PutAccess(s, b, e)
  <2> DEFINE c == PutCall(s, b, e)
  <2>1. b % 256 = b
    BY OctetAssumption
  <2>2. CASE s.packet_based
    <3>1. /\ c.name = "receive_packet_queue_put"
          /\ c.args = <<t.vvc_type, t.vvc_instance_id, b, AsInt(e)>>
      BY <2>2, ArgsInFront DEF PutCall, TargetArgs
    <3>2. AsInt(e) = 1 <=> e
      BY DEF AsInt
    <3> DEFINE x == Arguments(c)
    <3> HIDE DEF c
    <3>3. /\ x.vvc_type = t.vvc_type /\ x.vvc_instance_id = t.vvc_instance_id
          /\ x.byte = b /\ x.eop = e
      <4> DEFINE one == c.args[4] = 1
      <4>1. one = e
        BY <3>1, <3>2
      <4>2. Len(c.args) >= 3 /\ Len(c.args) >= 4
        BY <3>1
      <4>3. VhpiArguments(c.name, c.args) =
                [vvc_type |-> t.vvc_type, vvc_instance_id |-> t.vvc_instance_id,
                 byte |-> b, eop |-> one]
        BY <1>1, <2>1, <3>1, <4>2 DEF VhpiArguments
      <4>4. FliArguments(c.name, c.args) =
                [vvc_type |-> t.vvc_type, vvc_instance_id |-> t.vvc_instance_id,
                 byte |-> b, eop |-> one]
        BY <1>1, <2>1, <3>1 DEF FliArguments
      <4> HIDE DEF one
      <4>5. x = [vvc_type |-> t.vvc_type, vvc_instance_id |-> t.vvc_instance_id,
                 byte |-> b, eop |-> one]
        BY <4>3, <4>4 DEF Arguments
      <4> QED BY <4>1, <4>5
    <3> HIDE DEF x
    <3>4. ServerAccess(c.name, x) = PutAccess(s, b, e)
      BY <1>1, <2>2, <3>1, <3>3 DEF ServerAccess, PutAccess, Receiver, PacketKey
    <3> QED BY <3>4 DEF x, c
  <2>3. CASE ~s.packet_based
    <3>1. c.name = "receive_byte_queue_put" /\ c.args = <<t.vvc_type, t.vvc_instance_id, b>>
      BY <2>3, ArgsInFront DEF PutCall, TargetArgs
    <3> DEFINE x == Arguments(c)
    <3> HIDE DEF c
    <3>2. x.vvc_type = t.vvc_type /\ x.vvc_instance_id = t.vvc_instance_id /\ x.byte = b
      <4>1. LET y == VhpiArguments(c.name, c.args)
            IN  y.vvc_type = t.vvc_type /\ y.vvc_instance_id = t.vvc_instance_id /\ y.byte = b
        BY <1>1, <2>1, <3>1 DEF VhpiArguments
      <4>2. LET y == FliArguments(c.name, c.args)
            IN  y.vvc_type = t.vvc_type /\ y.vvc_instance_id = t.vvc_instance_id /\ y.byte = b
        BY <1>1, <2>1, <3>1 DEF FliArguments
      <4> QED BY <4>1, <4>2 DEF Arguments
    <3> HIDE DEF x
    <3>3. ServerAccess(c.name, x) = PutAccess(s, b, e)
      BY <1>1, <2>3, <3>1, <3>2 DEF ServerAccess, PutAccess, Receiver, RxKey
    <3> QED BY <3>3 DEF x, c
  <2> QED BY <1>1, <2>2, <2>3
<1> QED BY <1>5, <1>6, <1>7 DEF P, G

LEMMA ReportAccess ==
    ASSUME NEW i
    PROVE  ServerAccess("report_vvc_info", Arguments(ReportCall(i))) = Reported(i)
<1>1. ReportCall(i).name = "report_vvc_info" /\ ReportCall(i).args = Reports[i]
  BY DEF ReportCall
<1>2. FliArguments("report_vvc_info", Reports[i]) = VhpiArguments("report_vvc_info", Reports[i])
  BY DEF FliArguments, VhpiArguments
<1> QED BY <1>1, <1>2 DEF Arguments, Reported

-----------------------------------------------------------------------------
(* A stream in the map                                                      *)

Items(s) == IF s.packet_based THEN PacketLists ELSE Bytes

\* What waits at its sender, what has arrived at its receiver, and the bytes of
\* the packet that is arriving
Waiting(m, s) == IF s.packet_based THEN PacketsIn(m, "TRANSMIT", Sender(s)).q
                                   ELSE BytesIn(m, "TRANSMIT", Sender(s))
Arrived(m, s) == IF s.packet_based THEN PacketsIn(m, "RECEIVE", Receiver(Loop[s])).q
                                   ELSE BytesIn(m, "RECEIVE", Receiver(Loop[s]))
Gathered(m, s) == PacketsIn(m, "RECEIVE", Receiver(Loop[s])).buff

SameStream(m, n, s) ==
    Waiting(n, s) = Waiting(m, s) /\ Arrived(n, s) = Arrived(m, s) /\ Gathered(n, s) = Gathered(m, s)

\* The VVCs at the ends of the streams are in the modes of the streams.
Modes(m) ==
    \A s \in DOMAIN Loop : \A v \in {Sender(s), Receiver(Loop[s])} :
        v \in DOMAIN m => m[v].cfg.packet_based = s.packet_based

LEMMA StreamTyped ==
    ASSUME NEW m, MapOK(m), NEW s \in DOMAIN Loop
    PROVE  /\ Gathered(m, s) \in Bytes
           /\ s.packet_based => Waiting(m, s) \in Seq(Packet) /\ Arrived(m, s) \in Seq(Packet)
           /\ Waiting(m, s) \in Items(s) /\ Arrived(m, s) \in Items(s)
<1> DEFINE t == PacketsIn(m, "TRANSMIT", Sender(s))  r == PacketsIn(m, "RECEIVE", Receiver(Loop[s]))
<1>1. t \in PacketQueues /\ r \in PacketQueues
      /\ BytesIn(m, "TRANSMIT", Sender(s)) \in Bytes
      /\ BytesIn(m, "RECEIVE", Receiver(Loop[s])) \in Bytes
  BY QueuesTyped DEF QueueIds
<1>2. t.q \in Seq(Packet) /\ r.q \in Seq(Packet) /\ r.buff \in Bytes
  BY <1>1 DEF PacketQueues
<1>3. t.q \in PacketLists /\ r.q \in PacketLists
  BY <1>2, PacketsAreLists
<1> HIDE DEF t, r
<1> QED BY <1>1, <1>2, <1>3 DEF Waiting, Arrived, Gathered, Items, t, r

\* The ends of a stream tell which one it is.
LEMMA OneStream ==
    ASSUME NEW s \in DOMAIN Loop, NEW u \in DOMAIN Loop
    PROVE  /\ Sender(s) = Sender(u) => s = u
           /\ Receiver(Loop[s]) = Receiver(Loop[u]) => s = u
<1>1. /\ Sender(s) = Sender(u) => s.packet_based = u.packet_based
      /\ Receiver(Loop[s]) = Receiver(Loop[u]) => s.packet_based = u.packet_based
  BY LoopReported
<1>2. /\ s \in Target /\ Loop[s] \in Target /\ Loop[s].packet_based = s.packet_based
      /\ u \in Target /\ Loop[u] \in Target /\ Loop[u].packet_based = u.packet_based
  BY TargetFacts
<1>3. ASSUME NEW a \in Target, NEW b \in Target, a.packet_based = b.packet_based,
             a.vvc_type = b.vvc_type, a.vvc_instance_id = b.vvc_instance_id
      PROVE  a = b
  BY <1>3 DEF Target
<1>4. Sender(s) = Sender(u) => s.vvc_type = u.vvc_type /\ s.vvc_instance_id = u.vvc_instance_id
  BY DEF Sender, PacketKey, TxKey, VvcKey
<1>5. Receiver(Loop[s]) = Receiver(Loop[u]) =>
        Loop[s].vvc_type = Loop[u].vvc_type /\ Loop[s].vvc_instance_id = Loop[u].vvc_instance_id
  BY DEF Receiver, PacketKey, RxKey, VvcKey
<1>6. Loop[s] = Loop[u] => s = u
  BY LoopAssumption
<1> QED BY <1>1, <1>2, <1>3, <1>4, <1>5, <1>6

LEMMA SameQueuesSameStream ==
    ASSUME NEW m, NEW n, SameBytes(m, n), SamePackets(m, n), NEW s \in DOMAIN Loop
    PROVE  SameStream(m, n, s)
BY DEF SameBytes, SamePackets, SameStream, Waiting, Arrived, Gathered, QueueIds

LEMMA SameModes ==
    ASSUME NEW m, NEW n, Modes(m), SameVvcs(m, n)
    PROVE  Modes(n) /\ MapOK(n) /\ DOMAIN n = DOMAIN m
BY DEF Modes, SameVvcs

-----------------------------------------------------------------------------
(* Accesses to the queues                                                   *)

\* An access to a byte queue changes that queue, or throws.
LEMMA AccessesBytes ==
    ASSUME NEW m, MapOK(m), NEW qid \in QueueIds, NEW v, NEW value, NEW q,
           HasByteQueue(m, v) => q \in Bytes
    PROVE  LET r == AccessBytes(m, qid, v, value, q)
           IN  /\ (r.throws <=> ~HasByteQueue(m, v))
               /\ HasByteQueue(m, v) => /\ r.value = value
                                        /\ SameVvcs(m, r.map)
                                        /\ BytesSet(m, r.map, qid, v, q) /\ SamePackets(m, r.map)
               /\ ~HasByteQueue(m, v) => r.map = m
<1>1. CASE HasByteQueue(m, v)
  <2> DEFINE n == [m EXCEPT ![v].byte_queues[qid] = q]
  <2>1. SameVvcs(m, n) /\ BytesSet(m, n, qid, v, q) /\ SamePackets(m, n)
    BY <1>1, SetBytes DEF HasByteQueue
  <2>2. AccessBytes(m, qid, v, value, q) = [throws |-> FALSE, value |-> value, map |-> n]
    BY <1>1 DEF AccessBytes, Returns
  <2> DEFINE r == AccessBytes(m, qid, v, value, q)
  <2>3. ~r.throws /\ r.value = value /\ r.map = n
    BY <2>2
  <2> HIDE DEF n, r
  <2> QED BY <1>1, <2>1, <2>3 DEF r
<1>2. CASE ~HasByteQueue(m, v)
  BY <1>2 DEF AccessBytes, Throws
<1> QED BY <1>1, <1>2

LEMMA AccessesPackets ==
    ASSUME NEW m, MapOK(m), NEW qid \in QueueIds, NEW v, NEW value, NEW q,
           HasPacketQueue(m, v) => q \in PacketQueues
    PROVE  LET r == AccessPackets(m, qid, v, value, q)
           IN  /\ (r.throws <=> ~HasPacketQueue(m, v))
               /\ HasPacketQueue(m, v) => /\ r.value = value
                                          /\ SameVvcs(m, r.map)
                                          /\ PacketsSet(m, r.map, qid, v, q) /\ SameBytes(m, r.map)
               /\ ~HasPacketQueue(m, v) => r.map = m
<1>1. CASE HasPacketQueue(m, v)
  <2> DEFINE n == [m EXCEPT ![v].packet_queues[qid] = q]
  <2>1. SameVvcs(m, n) /\ PacketsSet(m, n, qid, v, q) /\ SameBytes(m, n)
    BY <1>1, SetPackets DEF HasPacketQueue
  <2>2. AccessPackets(m, qid, v, value, q) = [throws |-> FALSE, value |-> value, map |-> n]
    BY <1>1 DEF AccessPackets, Returns
  <2> DEFINE r == AccessPackets(m, qid, v, value, q)
  <2>3. ~r.throws /\ r.value = value /\ r.map = n
    BY <2>2
  <2> HIDE DEF n, r
  <2> QED BY <1>1, <2>1, <2>3 DEF r
<1>2. CASE ~HasPacketQueue(m, v)
  BY <1>2 DEF AccessPackets, Throws
<1> QED BY <1>1, <1>2

\* What a change to one queue is to the streams that end there, and to others
LEMMA SenderBytes ==
    ASSUME NEW m, NEW n, NEW v, NEW b, SamePackets(m, n), BytesSet(m, n, "TRANSMIT", v, b),
           NEW s \in DOMAIN Loop
    PROVE  IF Sender(s) = v /\ ~s.packet_based
           THEN Waiting(n, s) = b /\ Arrived(n, s) = Arrived(m, s) /\ Gathered(n, s) = Gathered(m, s)
           ELSE SameStream(m, n, s)
BY DEF SamePackets, BytesSet, SameStream, Waiting, Arrived, Gathered, QueueIds

LEMMA ReceiverBytes ==
    ASSUME NEW m, NEW n, NEW v, NEW b, SamePackets(m, n), BytesSet(m, n, "RECEIVE", v, b),
           NEW s \in DOMAIN Loop
    PROVE  IF Receiver(Loop[s]) = v /\ ~s.packet_based
           THEN Arrived(n, s) = b /\ Waiting(n, s) = Waiting(m, s) /\ Gathered(n, s) = Gathered(m, s)
           ELSE SameStream(m, n, s)
BY DEF SamePackets, BytesSet, SameStream, Waiting, Arrived, Gathered, QueueIds

LEMMA SenderPackets ==
    ASSUME NEW m, NEW n, NEW v, NEW p, SameBytes(m, n), PacketsSet(m, n, "TRANSMIT", v, p),
           NEW s \in DOMAIN Loop
    PROVE  IF Sender(s) = v /\ s.packet_based
           THEN Waiting(n, s) = p.q /\ Arrived(n, s) = Arrived(m, s) /\ Gathered(n, s) = Gathered(m, s)
           ELSE SameStream(m, n, s)
BY DEF SameBytes, PacketsSet, SameStream, Waiting, Arrived, Gathered, QueueIds

LEMMA ReceiverPackets ==
    ASSUME NEW m, NEW n, NEW v, NEW p, SameBytes(m, n), PacketsSet(m, n, "RECEIVE", v, p),
           NEW s \in DOMAIN Loop, Receiver(Loop[s]) = v => s.packet_based
    PROVE  IF Receiver(Loop[s]) = v
           THEN Arrived(n, s) = p.q /\ Gathered(n, s) = p.buff /\ Waiting(n, s) = Waiting(m, s)
           ELSE SameStream(m, n, s)
BY DEF SameBytes, PacketsSet, SameStream, Waiting, Arrived, Gathered, QueueIds

\* A VVC at the end of a stream has the queues of its mode.
LEMMA QueuesOfMode ==
    ASSUME NEW m, MapOK(m), Modes(m), NEW s \in DOMAIN Loop, NEW v \in {Sender(s), Receiver(Loop[s])}
    PROVE  /\ HasByteQueue(m, v) <=> v \in DOMAIN m /\ ~s.packet_based
           /\ HasPacketQueue(m, v) <=> v \in DOMAIN m /\ s.packet_based
BY DEF Modes, HasByteQueue, HasPacketQueue

-----------------------------------------------------------------------------
(* What the requests do to a stream                                         *)

\* Items x are put behind what waits; items x are taken from what has arrived.
PutBehind(m, n, s, x) ==
    /\ x \in Items(s)
    /\ s.packet_based => x = <<>> \/ \E pkt \in Packet : x = <<pkt>>
    /\ Waiting(n, s) = Waiting(m, s) \o x
    /\ Arrived(n, s) = Arrived(m, s) /\ Gathered(n, s) = Gathered(m, s)
TakenAway(m, n, s, x) ==
    /\ x \in Items(s)
    /\ Arrived(m, s) = x \o Arrived(n, s)
    /\ Waiting(n, s) = Waiting(m, s) /\ Gathered(n, s) = Gathered(m, s)

LEMMA EmptyItem ==
    ASSUME NEW s
    PROVE  <<>> \in Items(s) /\ \A x \in Items(s) : x \o <<>> = x /\ <<>> \o x = x
<1>1. <<>> \in Bytes /\ \A x \in Bytes : x \o <<>> = x /\ <<>> \o x = x
  BY EmptySeq, ConcatEmptySeq DEF Bytes
<1>2. <<>> \in PacketLists /\ \A x \in PacketLists : x \o <<>> = x /\ <<>> \o x = x
  <2> DEFINE S == Bytes
  <2>1. PacketLists = Seq(S)
    BY DEF PacketLists
  <2> HIDE DEF S
  <2> QED BY <2>1, EmptySeq, ConcatEmptySeq
<1> QED BY <1>1, <1>2 DEF Items

LEMMA BytesPut ==
    ASSUME NEW m, MapOK(m), Modes(m), NEW v, NEW data \in Bytes
    PROVE  LET r == byte_queue_put(m, "TRANSMIT", v, data)
           IN  /\ SameVvcs(m, r.map)
               /\ \A s \in DOMAIN Loop :
                     IF ~r.throws /\ Sender(s) = v
                     THEN ~s.packet_based /\ PutBehind(m, r.map, s, data)
                     ELSE SameStream(m, r.map, s)
<1> DEFINE q == ByteQueue(m, "TRANSMIT", v) \o data
           r == byte_queue_put(m, "TRANSMIT", v, data)
<1>1. HasByteQueue(m, v) => q \in Bytes /\ ByteQueue(m, "TRANSMIT", v) = BytesIn(m, "TRANSMIT", v)
  BY QueuesTyped, BytesJoin DEF HasByteQueue, ByteQueue, BytesIn, QueueIds
<1>2. r = AccessBytes(m, "TRANSMIT", v, "none", q)
  BY DEF byte_queue_put, PutBytes
<1> HIDE DEF q, r
<1>3. CASE HasByteQueue(m, v)
  <2>1. ~r.throws /\ SameVvcs(m, r.map) /\ BytesSet(m, r.map, "TRANSMIT", v, q) /\ SamePackets(m, r.map)
    BY <1>1, <1>2, <1>3, AccessesBytes DEF QueueIds
  <2>2. ASSUME NEW s \in DOMAIN Loop, Sender(s) = v
        PROVE  ~s.packet_based /\ PutBehind(m, r.map, s, data)
    <3>1. ~s.packet_based
      BY <1>3, <2>2, QueuesOfMode
    <3>2. Waiting(m, s) = ByteQueue(m, "TRANSMIT", v)
      BY <1>1, <1>3, <2>2, <3>1 DEF Waiting
    <3>3. Waiting(r.map, s) = Waiting(m, s) \o data
          /\ Arrived(r.map, s) = Arrived(m, s) /\ Gathered(r.map, s) = Gathered(m, s)
      BY <2>1, <2>2, <3>1, <3>2, SenderBytes DEF q
    <3> QED BY <3>1, <3>3 DEF PutBehind, Items
  <2>3. ASSUME NEW s \in DOMAIN Loop, Sender(s) # v PROVE SameStream(m, r.map, s)
    BY <2>1, <2>3, SenderBytes
  <2> QED BY <2>1, <2>2, <2>3 DEF r
<1>4. CASE ~HasByteQueue(m, v)
  <2>1. r.throws /\ r.map = m
    BY <1>1, <1>2, <1>4, AccessesBytes DEF QueueIds
  <2> QED BY <2>1 DEF SameVvcs, SameStream, r
<1> QED BY <1>3, <1>4

LEMMA PacketPut ==
    ASSUME NEW m, MapOK(m), Modes(m), NEW v, NEW data \in Bytes
    PROVE  LET r == packet_queue_put_pkt(m, "TRANSMIT", v, data)
           IN  /\ SameVvcs(m, r.map)
               /\ \A s \in DOMAIN Loop :
                     IF ~r.throws /\ Sender(s) = v
                     THEN s.packet_based
                          /\ PutBehind(m, r.map, s, IF data = <<>> THEN <<>> ELSE <<data>>)
                     ELSE SameStream(m, r.map, s)
<1> DEFINE pq == PacketQueue(m, "TRANSMIT", v)  p == PutPacket(pq, data)
           r == packet_queue_put_pkt(m, "TRANSMIT", v, data)
           x == IF data = <<>> THEN <<>> ELSE <<data>>
<1>1. HasPacketQueue(m, v) => pq = PacketsIn(m, "TRANSMIT", v) /\ pq \in PacketQueues
  BY QueuesTyped DEF HasPacketQueue, PacketQueue, PacketsIn, QueueIds
<1>2. HasPacketQueue(m, v) => p \in PacketQueues /\ p.q = pq.q \o x
  <2> HIDE DEF pq
  <2> SUFFICES ASSUME HasPacketQueue(m, v) PROVE p \in PacketQueues /\ p.q = pq.q \o x
    OBVIOUS
  <2>1. pq.q \in Seq(Packet) /\ pq.buff \in Bytes
    BY <1>1 DEF PacketQueues
  <2>2. CASE data = <<>>
    BY <1>1, <2>1, <2>2, ConcatEmptySeq DEF PutPacket
  <2>3. CASE data # <<>>
    <3>1. Append(pq.q, data) \in Seq(Packet) /\ Append(pq.q, data) = pq.q \o <<data>>
      BY <2>1, <2>3, AppendProperties, AppendIsConcat DEF Packet
    <3>2. p = [pq EXCEPT !.q = Append(pq.q, data)]
      BY <2>3 DEF PutPacket
    <3>3. p \in PacketQueues /\ p.q = Append(pq.q, data)
      BY <1>1, <3>1, <3>2 DEF PacketQueues
    <3> QED BY <2>3, <3>1, <3>3
  <2> QED BY <2>2, <2>3
<1>3. r = AccessPackets(m, "TRANSMIT", v, "none", p)
  BY DEF packet_queue_put_pkt
<1>4. \A s \in DOMAIN Loop : s.packet_based =>
          x \in Items(s) /\ (x = <<>> \/ \E pkt \in Packet : x = <<pkt>>)
  BY EmptyItem, OneIsList DEF Items, Packet
<1> HIDE DEF p, r, x
<1>5. CASE HasPacketQueue(m, v)
  <2>1. ~r.throws /\ SameVvcs(m, r.map) /\ PacketsSet(m, r.map, "TRANSMIT", v, p) /\ SameBytes(m, r.map)
    BY <1>2, <1>3, <1>5, AccessesPackets DEF QueueIds
  <2>2. ASSUME NEW s \in DOMAIN Loop, Sender(s) = v
        PROVE  s.packet_based /\ PutBehind(m, r.map, s, x)
    <3>1. s.packet_based
      BY <1>5, <2>2, QueuesOfMode
    <3>2. Waiting(m, s) = pq.q
      BY <1>1, <1>5, <2>2, <3>1 DEF Waiting
    <3> HIDE DEF pq
    <3>3. Waiting(r.map, s) = Waiting(m, s) \o x
          /\ Arrived(r.map, s) = Arrived(m, s) /\ Gathered(r.map, s) = Gathered(m, s)
      BY <1>2, <1>5, <2>1, <2>2, <3>1, <3>2, SenderPackets
    <3> QED BY <1>4, <3>1, <3>3 DEF PutBehind
  <2>3. ASSUME NEW s \in DOMAIN Loop, Sender(s) # v PROVE SameStream(m, r.map, s)
    BY <2>1, <2>3, SenderPackets
  <2> QED BY <2>1, <2>2, <2>3 DEF r, x
<1>6. CASE ~HasPacketQueue(m, v)
  <2>1. r.throws /\ r.map = m
    BY <1>2, <1>3, <1>6, AccessesPackets DEF QueueIds
  <2> QED BY <2>1 DEF SameVvcs, SameStream, r
<1> QED BY <1>5, <1>6

LEMMA BytesTaken ==
    ASSUME NEW m, MapOK(m), Modes(m), NEW v, NEW n \in Nat
    PROVE  LET r == byte_queue_get_n(m, "RECEIVE", v, n)
           IN  /\ SameVvcs(m, r.map)
               /\ \A s \in DOMAIN Loop :
                     IF ~r.throws /\ Receiver(Loop[s]) = v
                     THEN TakenAway(m, r.map, s, r.value)
                     ELSE SameStream(m, r.map, s)
<1> DEFINE q == ByteQueue(m, "RECEIVE", v)  taken == TakenBytes(q, n)  left == RemainingBytes(q, n)
           r == byte_queue_get_n(m, "RECEIVE", v, n)
<1>1. HasByteQueue(m, v) => q = BytesIn(m, "RECEIVE", v) /\ q \in Bytes
  BY QueuesTyped DEF HasByteQueue, ByteQueue, BytesIn, QueueIds
<1>2. HasByteQueue(m, v) => taken \in Bytes /\ left \in Bytes /\ q = taken \o left
  <2> SUFFICES ASSUME q \in Bytes PROVE taken \in Bytes /\ left \in Bytes /\ q = taken \o left
    BY <1>1
  <2> HIDE DEF q
  <2> DEFINE k == TakeCount(q, n)
  <2>1. k \in 0..Len(q)
    BY LenProperties DEF TakeCount, Bytes
  <2> HIDE DEF k
  <2>2. taken = SubSeq(q, 1, k) /\ left = SubSeq(q, k + 1, Len(q))
    BY DEF TakenBytes, RemainingBytes, k
  <2> HIDE DEF taken, left
  <2> QED BY <2>1, <2>2, CutInTwo DEF Bytes
<1>3. r = AccessBytes(m, "RECEIVE", v, taken, left)
  BY DEF byte_queue_get_n
<1> HIDE DEF taken, left, r
<1>4. CASE HasByteQueue(m, v)
  <2>1. ~r.throws /\ r.value = taken
        /\ SameVvcs(m, r.map) /\ BytesSet(m, r.map, "RECEIVE", v, left) /\ SamePackets(m, r.map)
    BY <1>2, <1>3, <1>4, AccessesBytes DEF QueueIds
  <2>2. ASSUME NEW s \in DOMAIN Loop, Receiver(Loop[s]) = v
        PROVE  TakenAway(m, r.map, s, r.value)
    <3>1. ~s.packet_based
      BY <1>4, <2>2, QueuesOfMode
    <3>2. Arrived(m, s) = q
      BY <1>1, <1>4, <2>2, <3>1 DEF Arrived
    <3>3. Arrived(r.map, s) = left
          /\ Waiting(r.map, s) = Waiting(m, s) /\ Gathered(r.map, s) = Gathered(m, s)
      BY <2>1, <2>2, <3>1, ReceiverBytes
    <3> HIDE DEF q
    <3> QED BY <1>2, <1>4, <2>1, <3>1, <3>2, <3>3 DEF TakenAway, Items
  <2>3. ASSUME NEW s \in DOMAIN Loop, Receiver(Loop[s]) # v PROVE SameStream(m, r.map, s)
    BY <2>1, <2>3, ReceiverBytes
  <2> QED BY <2>1, <2>2, <2>3 DEF r
<1>5. CASE ~HasByteQueue(m, v)
  <2>1. r.throws /\ r.map = m
    BY <1>2, <1>3, <1>5, AccessesBytes DEF QueueIds
  <2> QED BY <2>1 DEF SameVvcs, SameStream, r
<1> QED BY <1>4, <1>5

LEMMA PacketTaken ==
    ASSUME NEW m, MapOK(m), Modes(m), NEW v
    PROVE  LET r == packet_queue_get_pkt(m, "RECEIVE", v)
           IN  /\ SameVvcs(m, r.map)
               /\ \A s \in DOMAIN Loop :
                     IF ~r.throws /\ Receiver(Loop[s]) = v
                     THEN TakenAway(m, r.map, s, r.value)
                     ELSE SameStream(m, r.map, s)
<1> DEFINE pq == PacketQueue(m, "RECEIVE", v)
           taken == TakenPackets(pq)  left == RemainingPackets(pq)
           r == packet_queue_get_pkt(m, "RECEIVE", v)
<1>1. HasPacketQueue(m, v) => pq = PacketsIn(m, "RECEIVE", v) /\ pq \in PacketQueues
  BY QueuesTyped DEF HasPacketQueue, PacketQueue, PacketsIn, QueueIds
<1>2. HasPacketQueue(m, v) => /\ taken \in PacketLists /\ left \in PacketQueues
                              /\ pq.q = taken \o left.q /\ left.buff = pq.buff
  <2> SUFFICES ASSUME pq \in PacketQueues
               PROVE  /\ taken \in PacketLists /\ left \in PacketQueues
                      /\ pq.q = taken \o left.q /\ left.buff = pq.buff
    BY <1>1
  <2> HIDE DEF pq
  <2>1. pq.q \in Seq(Packet) /\ pq.buff \in Bytes
    BY DEF PacketQueues
  <2>2. CASE pq.q = <<>>
    <3>1. taken = <<>> /\ left = pq
      BY <2>2 DEF TakenPackets, RemainingPackets
    <3>2. <<>> \in Seq(Packet) /\ <<>> \o <<>> = <<>>
      BY EmptySeq, ConcatEmptySeq
    <3> HIDE DEF taken, left
    <3> QED BY <2>2, <3>1, <3>2, PacketsAreLists
  <2>3. CASE pq.q # <<>>
    <3>1. /\ Head(pq.q) \in Bytes /\ Tail(pq.q) \in Seq(Packet)
          /\ pq.q = <<Head(pq.q)>> \o Tail(pq.q)
      BY <2>1, <2>3, FirstPacket
    <3>2. taken = <<Head(pq.q)>> /\ left = [pq EXCEPT !.q = Tail(pq.q)]
      BY <2>3 DEF TakenPackets, RemainingPackets
    <3>3. left \in PacketQueues /\ left.q = Tail(pq.q) /\ left.buff = pq.buff
      BY <3>1, <3>2 DEF PacketQueues
    <3>4. taken \in PacketLists
      BY <3>1, <3>2, OneIsList
    <3> HIDE DEF taken, left
    <3> QED BY <3>1, <3>2, <3>3, <3>4
  <2> QED BY <2>2, <2>3
<1>3. r = AccessPackets(m, "RECEIVE", v, taken, left)
  BY DEF packet_queue_get_pkt
<1> HIDE DEF taken, left, r, pq
<1>4. CASE HasPacketQueue(m, v)
  <2>1. ~r.throws /\ r.value = taken
        /\ SameVvcs(m, r.map) /\ PacketsSet(m, r.map, "RECEIVE", v, left) /\ SameBytes(m, r.map)
    BY <1>2, <1>3, <1>4, AccessesPackets DEF QueueIds
  <2>2. \A s \in DOMAIN Loop : Receiver(Loop[s]) = v => s.packet_based
    BY <1>4, QueuesOfMode
  <2>3. ASSUME NEW s \in DOMAIN Loop, Receiver(Loop[s]) = v
        PROVE  TakenAway(m, r.map, s, r.value)
    <3>1. s.packet_based
      BY <2>2, <2>3
    <3>2. Arrived(m, s) = pq.q /\ Gathered(m, s) = pq.buff
      BY <1>1, <1>4, <2>3, <3>1 DEF Arrived, Gathered
    <3>3. Arrived(r.map, s) = left.q /\ Gathered(r.map, s) = left.buff
          /\ Waiting(r.map, s) = Waiting(m, s)
      BY <2>1, <2>2, <2>3, <3>1, ReceiverPackets
    <3> QED BY <1>2, <1>4, <2>1, <3>1, <3>2, <3>3 DEF TakenAway, Items
  <2>4. ASSUME NEW s \in DOMAIN Loop, Receiver(Loop[s]) # v PROVE SameStream(m, r.map, s)
    BY <2>1, <2>4, ReceiverPackets
  <2> QED BY <2>1, <2>3, <2>4 DEF r
<1>5. CASE ~HasPacketQueue(m, v)
  <2>1. r.throws /\ r.map = m
    BY <1>2, <1>3, <1>5, AccessesPackets DEF QueueIds
  <2> QED BY <2>1 DEF SameVvcs, SameStream, r
<1> QED BY <1>4, <1>5

\* An access that leaves the queue as it was leaves all as it was.
LEMMA BytesLooked ==
    ASSUME NEW m, MapOK(m), NEW qid \in QueueIds, NEW v, NEW value
    PROVE  LET r == AccessBytes(m, qid, v, value, ByteQueue(m, qid, v))
           IN  /\ SameVvcs(m, r.map) /\ SameBytes(m, r.map) /\ SamePackets(m, r.map)
               /\ HasByteQueue(m, v) => r.value = value
<1> DEFINE q == ByteQueue(m, qid, v)  r == AccessBytes(m, qid, v, value, q)
<1>1. HasByteQueue(m, v) => q = BytesIn(m, qid, v) /\ q \in Bytes
  BY QueuesTyped DEF HasByteQueue, ByteQueue, BytesIn
<1> HIDE DEF q
<1>2. CASE HasByteQueue(m, v)
  <2>1. r.value = value /\ SameVvcs(m, r.map) /\ BytesSet(m, r.map, qid, v, q) /\ SamePackets(m, r.map)
    BY <1>1, <1>2, AccessesBytes
  <2> HIDE DEF r
  <2>2. SameBytes(m, r.map)
    BY <1>1, <1>2, <2>1 DEF BytesSet, SameBytes
  <2> QED BY <2>1, <2>2 DEF r, q
<1>3. CASE ~HasByteQueue(m, v)
  <2>1. r.map = m
    BY <1>1, <1>3, AccessesBytes
  <2> HIDE DEF r
  <2> QED BY <1>3, <2>1 DEF SameVvcs, SameBytes, SamePackets, r, q
<1> QED BY <1>2, <1>3

LEMMA PacketsLooked ==
    ASSUME NEW m, MapOK(m), NEW qid \in QueueIds, NEW v, NEW value
    PROVE  LET r == AccessPackets(m, qid, v, value, PacketQueue(m, qid, v))
           IN  /\ SameVvcs(m, r.map) /\ SameBytes(m, r.map) /\ SamePackets(m, r.map)
               /\ HasPacketQueue(m, v) => r.value = value
<1> DEFINE q == PacketQueue(m, qid, v)  r == AccessPackets(m, qid, v, value, q)
<1>1. HasPacketQueue(m, v) => q = PacketsIn(m, qid, v) /\ q \in PacketQueues
  BY QueuesTyped DEF HasPacketQueue, PacketQueue, PacketsIn
<1> HIDE DEF q
<1>2. CASE HasPacketQueue(m, v)
  <2>1. r.value = value /\ SameVvcs(m, r.map) /\ PacketsSet(m, r.map, qid, v, q) /\ SameBytes(m, r.map)
    BY <1>1, <1>2, AccessesPackets
  <2> HIDE DEF r
  <2>2. SamePackets(m, r.map)
    BY <1>1, <1>2, <2>1 DEF PacketsSet, SamePackets
  <2> QED BY <2>1, <2>2 DEF r, q
<1>3. CASE ~HasPacketQueue(m, v)
  <2>1. r.map = m
    BY <1>1, <1>3, AccessesPackets
  <2> HIDE DEF r
  <2> QED BY <1>3, <2>1 DEF SameVvcs, SameBytes, SamePackets, r, q
<1> QED BY <1>2, <1>3

Puts == {"byte_queue_put", "packet_queue_put_pkt"}
Gets == {"byte_queue_get_n", "packet_queue_get_pkt"}

\* A request puts behind what waits at a sender, takes from what has arrived at
\* a receiver, or changes no queue.
LEMMA ClientAccesses ==
    ASSUME NEW m, MapOK(m), Modes(m), NEW a, ClientAccess(a)
    PROVE  LET r == Perform(m, a)
           IN  /\ SameVvcs(m, r.map)
               /\ a.op \in Puts => a.qid = "TRANSMIT"
               /\ \A s \in DOMAIN Loop :
                     IF ~r.throws /\ a.op \in Puts /\ Sender(s) = a.vvc
                     THEN PutBehind(m, r.map, s, Entered(a))
                     ELSE IF ~r.throws /\ a.op \in Gets /\ Receiver(Loop[s]) = a.vvc
                     THEN TakenAway(m, r.map, s, r.value)
                     ELSE SameStream(m, r.map, s)
<1> DEFINE r == Perform(m, a)
<1>1. CASE a.op = "byte_queue_put"
  <2>1. r = byte_queue_put(m, "TRANSMIT", a.vvc, a.data) /\ a.data \in Bytes /\ a.qid = "TRANSMIT"
    BY <1>1 DEF Perform, ClientAccess, Bytes
  <2>2. Entered(a) = a.data /\ a.op \notin Gets /\ a.op \in Puts
    BY <1>1 DEF Entered, Gets, Puts
  <2> HIDE DEF r
  <2> QED BY <2>1, <2>2, BytesPut DEF r
<1>2. CASE a.op = "packet_queue_put_pkt"
  <2>1. r = packet_queue_put_pkt(m, "TRANSMIT", a.vvc, a.data) /\ a.data \in Bytes /\ a.qid = "TRANSMIT"
    BY <1>2 DEF Perform, ClientAccess, Bytes
  <2>2. /\ Entered(a) = (IF a.data = <<>> THEN <<>> ELSE <<a.data>>)
        /\ a.op \notin Gets /\ a.op \in Puts
    BY <1>2 DEF Entered, Gets, Puts
  <2> HIDE DEF r
  <2> QED BY <2>1, <2>2, PacketPut DEF r
<1>3. CASE a.op = "byte_queue_get_n"
  <2>1. r = byte_queue_get_n(m, "RECEIVE", a.vvc, a.n) /\ a.n \in Nat
    BY <1>3 DEF Perform, ClientAccess, Bytes
  <2>2. a.op \in Gets /\ a.op \notin Puts
    BY <1>3 DEF Gets, Puts
  <2> HIDE DEF r
  <2> QED BY <2>1, <2>2, BytesTaken DEF r
<1>4. CASE a.op = "packet_queue_get_pkt"
  <2>1. r = packet_queue_get_pkt(m, "RECEIVE", a.vvc)
    BY <1>4 DEF Perform, ClientAccess, Bytes
  <2>2. a.op \in Gets /\ a.op \notin Puts
    BY <1>4 DEF Gets, Puts
  <2> HIDE DEF r
  <2> QED BY <2>1, <2>2, PacketTaken DEF r
<1>5. CASE a.op \in {"byte_queue_empty", "byte_queue_size", "packet_queue_empty", "GetVvcList", "SetVvcListenEnable"}
  <2>1. SameVvcs(m, r.map) /\ SameBytes(m, r.map) /\ SamePackets(m, r.map)
    <3>0. CASE a.op = "byte_queue_empty"
      <4> DEFINE value == ByteQueue(m, "RECEIVE", a.vvc) = <<>>
      <4>1. r = AccessBytes(m, "RECEIVE", a.vvc, value, ByteQueue(m, "RECEIVE", a.vvc))
        BY <3>0 DEF Perform, ClientAccess, byte_queue_empty
      <4> HIDE DEF r, value
      <4> QED BY <4>1, BytesLooked DEF QueueIds
    <3>1. CASE a.op = "byte_queue_size"
      <4> DEFINE value == Len(ByteQueue(m, "RECEIVE", a.vvc))
      <4>1. r = AccessBytes(m, "RECEIVE", a.vvc, value, ByteQueue(m, "RECEIVE", a.vvc))
        BY <3>1 DEF Perform, ClientAccess, byte_queue_size
      <4> HIDE DEF r, value
      <4> QED BY <4>1, BytesLooked DEF QueueIds
    <3>2. CASE a.op = "packet_queue_empty"
      <4> DEFINE value == PacketQueue(m, "RECEIVE", a.vvc).q = <<>>
      <4>1. r = AccessPackets(m, "RECEIVE", a.vvc, value, PacketQueue(m, "RECEIVE", a.vvc))
        BY <3>2 DEF Perform, ClientAccess, packet_queue_empty
      <4> HIDE DEF r, value
      <4> QED BY <4>1, PacketsLooked DEF QueueIds
    <3>3. CASE a.op = "GetVvcList"
      <4>1. r = GetVvcList(m)
        BY <3>3 DEF Perform
      <4>2. r.map = m
        BY <4>1 DEF GetVvcList, Returns
      <4> HIDE DEF r
      <4> QED BY <4>2 DEF SameVvcs, SameBytes, SamePackets
    <3>4. CASE a.op = "SetVvcListenEnable"
      <4>1. r = SetVvcListenEnable(m, a.vvc, a.enable)
        BY <3>4 DEF Perform
      <4>2. CASE a.vvc \in DOMAIN m
        <5>1. r.map = [m EXCEPT ![a.vvc].cfg.listen_enable = a.enable]
          BY <4>1, <4>2 DEF SetVvcListenEnable, Returns
        <5> HIDE DEF r
        <5> QED BY <4>2, <5>1, SetListen
      <4>3. CASE a.vvc \notin DOMAIN m
        <5>1. r.map = m
          BY <4>1, <4>3 DEF SetVvcListenEnable, Throws
        <5> HIDE DEF r
        <5> QED BY <5>1 DEF SameVvcs, SameBytes, SamePackets
      <4> QED BY <4>2, <4>3
    <3> QED BY <1>5, <3>0, <3>1, <3>2, <3>3, <3>4
  <2>2. a.op \notin Puts /\ a.op \notin Gets
    BY <1>5 DEF Puts, Gets
  <2> HIDE DEF r
  <2>3. \A s \in DOMAIN Loop : SameStream(m, r.map, s)
    BY <2>1, SameQueuesSameStream
  <2> QED BY <2>1, <2>2, <2>3 DEF r
<1> QED BY <1>1, <1>2, <1>3, <1>4, <1>5 DEF ClientAccess

-----------------------------------------------------------------------------
(* What the simulator's calls do to a stream                                *)

\* What has left the sender's client and not arrived: fl is what the simulator
\* holds, the last byte of a packet if ends.
RestOf(m, s, fl, ends) ==
    IF s.packet_based THEN Unsent(Gathered(m, s) \o fl, ends, Waiting(m, s))
                      ELSE fl \o Waiting(m, s)
BegunIn(m, s, fl, ends) ==
    s.packet_based => Begun(Gathered(m, s) \o fl, ends, Waiting(m, s))

LEMMA NothingHeld ==
    ASSUME NEW m, MapOK(m), NEW s \in DOMAIN Loop
    PROVE  Gathered(m, s) \o <<>> = Gathered(m, s)
BY StreamTyped, ConcatEmptySeq DEF Bytes

LEMMA Polled ==
    ASSUME NEW m, MapOK(m), Modes(m), NEW s \in DOMAIN Loop, Sender(s) \in DOMAIN m
    PROVE  LET r == Perform(m, PollAccess(s))
           IN  /\ SameVvcs(m, r.map) /\ \A u \in DOMAIN Loop : SameStream(m, r.map, u)
               /\ r.value \in BOOLEAN /\ (~r.value => Waiting(r.map, s) # <<>>)
<1> DEFINE a == PollAccess(s)  v == Sender(s)  r == Perform(m, a)  value == Waiting(m, s) = <<>>
<1>1. value \in BOOLEAN
  OBVIOUS
<1>2. /\ HasByteQueue(m, v) <=> ~s.packet_based
      /\ HasPacketQueue(m, v) <=> s.packet_based
  BY QueuesOfMode
<1>3. a.op = (IF s.packet_based THEN "packet_queue_empty" ELSE "byte_queue_empty")
      /\ a.qid = "TRANSMIT" /\ a.vvc = v
  BY DEF PollAccess
<1> HIDE DEF a, v
<1>4. SameVvcs(m, r.map) /\ SameBytes(m, r.map) /\ SamePackets(m, r.map) /\ r.value = value
  <2>1. CASE s.packet_based
    <3> DEFINE empty == PacketQueue(m, "TRANSMIT", v).q = <<>>
    <3>1. r = AccessPackets(m, "TRANSMIT", v, empty, PacketQueue(m, "TRANSMIT", v))
      BY <1>3, <2>1 DEF Perform, packet_queue_empty
    <3>2. empty = value
      BY <1>2, <2>1 DEF Waiting, PacketQueue, PacketsIn, HasPacketQueue, v
    <3> HIDE DEF r, empty, value
    <3> QED BY <1>2, <2>1, <3>1, <3>2, PacketsLooked DEF QueueIds
  <2>2. CASE ~s.packet_based
    <3> DEFINE empty == ByteQueue(m, "TRANSMIT", v) = <<>>
    <3>1. r = AccessBytes(m, "TRANSMIT", v, empty, ByteQueue(m, "TRANSMIT", v))
      BY <1>3, <2>2 DEF Perform, byte_queue_empty
    <3>2. empty = value
      BY <1>2, <2>2 DEF Waiting, ByteQueue, BytesIn, HasByteQueue, v
    <3> HIDE DEF r, empty, value
    <3> QED BY <1>2, <2>2, <3>1, <3>2, BytesLooked DEF QueueIds
  <2> QED BY <2>1, <2>2
<1> HIDE DEF r, value
<1>5. \A u \in DOMAIN Loop : SameStream(m, r.map, u)
  BY <1>4, SameQueuesSameStream
<1>6. r.value \in BOOLEAN /\ (~r.value => Waiting(r.map, s) # <<>>)
  <2>1. Waiting(r.map, s) = Waiting(m, s)
    BY <1>5 DEF SameStream
  <2> QED BY <1>1, <1>4, <2>1 DEF value
<1> QED BY <1>4, <1>5, <1>6 DEF r, a

\* The byte that is taken is the next of the stream.
LEMMA ByteGotten ==
    ASSUME NEW m, MapOK(m), Modes(m), NEW s \in DOMAIN Loop, Sender(s) \in DOMAIN m,
           Waiting(m, s) # <<>>
    PROVE  LET r == Perform(m, GetAccess(s))
           IN  /\ SameVvcs(m, r.map)
               /\ \A u \in DOMAIN Loop : u # s => SameStream(m, r.map, u)
               /\ r.value.byte \in Byte
               /\ s.packet_based => r.value.got /\ r.value.eop \in BOOLEAN
               /\ Arrived(r.map, s) = Arrived(m, s)
               /\ RestOf(r.map, s, <<r.value.byte>>, r.value.eop) = RestOf(m, s, <<>>, FALSE)
               /\ BegunIn(r.map, s, <<r.value.byte>>, r.value.eop)
<1> DEFINE a == GetAccess(s)  v == Sender(s)  r == Perform(m, a)
<1>1. /\ HasByteQueue(m, v) <=> ~s.packet_based
      /\ HasPacketQueue(m, v) <=> s.packet_based
  BY QueuesOfMode
<1>2. a.op = (IF s.packet_based THEN "packet_queue_get_byte" ELSE "byte_queue_get")
      /\ a.qid = "TRANSMIT" /\ a.vvc = v
  BY DEF GetAccess
<1>3. \A u \in DOMAIN Loop : u # s => Sender(u) # v
  BY OneStream
<1> HIDE DEF a
<1>4. CASE s.packet_based
  <2> DEFINE pq == PacketQueue(m, "TRANSMIT", v)  g == GetPacketByte(pq)
             value == [got |-> g.got, byte |-> g.byte, eop |-> g.eop]
             pre == Gathered(m, s)
  <2>1. pq \in PacketQueues /\ pq = PacketsIn(m, "TRANSMIT", v) /\ pq.q = Waiting(m, s)
    BY <1>1, <1>4, QueuesTyped
       DEF HasPacketQueue, PacketQueue, PacketsIn, QueueIds, Waiting
  <2>2. pre \in Bytes /\ pre \o <<>> = pre
    BY StreamTyped, NothingHeld
  <2> HIDE DEF pq, pre
  <2>3. /\ g.got /\ ~g.throws /\ g.byte \in Byte /\ g.eop \in BOOLEAN /\ g.rest \in PacketQueues
        /\ Unsent(pre \o <<g.byte>>, g.eop, g.rest.q) = Unsent(pre, FALSE, pq.q)
        /\ Begun(pre \o <<g.byte>>, g.eop, g.rest.q)
    BY <2>1, <2>2, ByteTaken
  <2>4. r = AccessPackets(m, "TRANSMIT", v, value, g.rest)
    BY <1>2, <1>4, <2>3 DEF Perform, packet_queue_get_byte, pq
  <2>5. value.byte = g.byte /\ value.eop = g.eop /\ value.got = g.got
    <3> HIDE DEF g
    <3> QED OBVIOUS
  <2> HIDE DEF r, g, value, v
  <2>6. /\ r.value = value /\ SameVvcs(m, r.map)
        /\ PacketsSet(m, r.map, "TRANSMIT", v, g.rest) /\ SameBytes(m, r.map)
    BY <1>1, <1>4, <2>3, <2>4, AccessesPackets DEF QueueIds
  <2>7. /\ Waiting(r.map, s) = g.rest.q /\ Arrived(r.map, s) = Arrived(m, s)
        /\ Gathered(r.map, s) = pre
    BY <1>4, <2>6, SenderPackets DEF pre, v
  <2>8. \A u \in DOMAIN Loop : u # s => SameStream(m, r.map, u)
    BY <1>3, <2>6, SenderPackets
  <2>9. RestOf(r.map, s, <<r.value.byte>>, r.value.eop) = RestOf(m, s, <<>>, FALSE)
    <3>1. RestOf(r.map, s, <<r.value.byte>>, r.value.eop) = Unsent(pre \o <<g.byte>>, g.eop, g.rest.q)
      BY <1>4, <2>5, <2>6, <2>7 DEF RestOf
    <3>2. RestOf(m, s, <<>>, FALSE) = Unsent(pre, FALSE, pq.q)
      BY <1>4, <2>1, <2>2 DEF RestOf, pre
    <3> QED BY <2>3, <3>1, <3>2
  <2>10. BegunIn(r.map, s, <<r.value.byte>>, r.value.eop)
    BY <1>4, <2>3, <2>5, <2>6, <2>7 DEF BegunIn
  <2>11. r.value.byte \in Byte /\ r.value.got /\ r.value.eop \in BOOLEAN
    <3>1. r.value.byte = g.byte /\ r.value.eop = g.eop /\ r.value.got = g.got
      BY <2>5, <2>6
    <3> QED BY <2>3, <3>1
  <2> QED BY <2>6, <2>7, <2>8, <2>9, <2>10, <2>11 DEF r, a
<1>5. CASE ~s.packet_based
  <2> DEFINE q == ByteQueue(m, "TRANSMIT", v)  g == GetByte(q)
             value == [got |-> g.got, byte |-> g.byte]
  <2>1. q = BytesIn(m, "TRANSMIT", v) /\ q = Waiting(m, s) /\ q \in Bytes
    BY <1>1, <1>5, QueuesTyped DEF HasByteQueue, ByteQueue, BytesIn, QueueIds, Waiting
  <2> HIDE DEF q
  <2>2. g.byte \in Byte /\ g.rest \in Bytes /\ q = <<g.byte>> \o g.rest
    <3>1. g.byte = Head(q) /\ g.rest = Tail(q)
      BY <2>1 DEF GetByte
    <3> HIDE DEF g
    <3> QED BY <2>1, <3>1, HeadThenTail DEF Bytes
  <2>3. r = AccessBytes(m, "TRANSMIT", v, value, g.rest)
    BY <1>2, <1>5 DEF Perform, byte_queue_get, q
  <2>4. value.byte = g.byte
    OBVIOUS
  <2> HIDE DEF r, g, value, v
  <2>5. /\ r.value = value /\ SameVvcs(m, r.map)
        /\ BytesSet(m, r.map, "TRANSMIT", v, g.rest) /\ SamePackets(m, r.map)
    BY <1>1, <1>5, <2>2, <2>3, AccessesBytes DEF QueueIds
  <2>6. Waiting(r.map, s) = g.rest /\ Arrived(r.map, s) = Arrived(m, s)
    BY <1>5, <2>5, SenderBytes DEF v
  <2>7. \A u \in DOMAIN Loop : u # s => SameStream(m, r.map, u)
    BY <1>3, <2>5, SenderBytes
  <2>8. RestOf(r.map, s, <<r.value.byte>>, r.value.eop) = RestOf(m, s, <<>>, FALSE)
    <3>1. RestOf(m, s, <<>>, FALSE) = <<>> \o q
      BY <1>5, <2>1 DEF RestOf
    <3>2. <<>> \o q = q
      BY <2>1, ConcatEmptySeq DEF Bytes
    <3> QED BY <1>5, <2>2, <2>4, <2>5, <2>6, <3>1, <3>2 DEF RestOf
  <2> QED BY <1>5, <2>2, <2>4, <2>5, <2>6, <2>7, <2>8 DEF BegunIn, r, a
<1> QED BY <1>4, <1>5

\* The byte that is put has arrived, with the packet that it ends.
LEMMA BytePut ==
    ASSUME NEW m, MapOK(m), Modes(m), NEW s \in DOMAIN Loop, Receiver(Loop[s]) \in DOMAIN m,
           NEW b \in Byte, NEW e \in BOOLEAN, BegunIn(m, s, <<b>>, e)
    PROVE  LET r == Perform(m, PutAccess(s, b, e))
           IN  /\ SameVvcs(m, r.map)
               /\ \A u \in DOMAIN Loop : u # s => SameStream(m, r.map, u)
               /\ \E x \in Items(s) :
                     /\ Arrived(r.map, s) = Arrived(m, s) \o x
                     /\ RestOf(m, s, <<b>>, e) = x \o RestOf(r.map, s, <<>>, FALSE)
               /\ BegunIn(r.map, s, <<>>, FALSE)
<1> DEFINE a == PutAccess(s, b, e)  v == Receiver(Loop[s])  r == Perform(m, a)
<1>1. /\ HasByteQueue(m, v) <=> ~s.packet_based
      /\ HasPacketQueue(m, v) <=> s.packet_based
  BY QueuesOfMode
<1>2. \A u \in DOMAIN Loop : u # s => Receiver(Loop[u]) # v
  BY OneStream
<1>3. <<b>> \in Bytes
  BY DEF Bytes
<1>4. CASE s.packet_based
  <2> DEFINE pq == PacketQueue(m, "RECEIVE", v)  p == PutPacketByte(pq, b, e)
             pre == Gathered(m, s)  w == Waiting(m, s)
  <2>1. pq \in PacketQueues /\ pq.q = Arrived(m, s) /\ pq.buff = pre
    BY <1>1, <1>4, QueuesTyped
       DEF HasPacketQueue, PacketQueue, PacketsIn, QueueIds, Arrived, Gathered
  <2>2. pre \in Bytes /\ w \in Seq(Packet) /\ w \in PacketLists
    BY <1>4, StreamTyped, PacketsAreLists
  <2> DEFINE more == pre \o <<b>>
  <2>3. more \in Packet /\ Append(pre, b) = more
    <3> HIDE DEF pre
    <3>1. Append(pre, b) \in Seq(Byte) /\ Append(pre, b) # <<>> /\ Append(pre, b) = pre \o <<b>>
      BY <2>2, AppendProperties, AppendIsConcat DEF Bytes
    <3> QED BY <3>1 DEF Packet, Bytes
  <2> HIDE DEF pq, pre, w, more
  <2>4. /\ p \in PacketQueues
        /\ p.q = (IF e THEN Append(pq.q, more) ELSE pq.q)
        /\ p.buff = (IF e THEN <<>> ELSE more)
    <3>1. pq.q \in Seq(Packet) /\ pq.buff \in Bytes /\ more \in Bytes /\ <<>> \in Bytes
      BY <2>1, <2>3, EmptySeq DEF PacketQueues, Packet, Bytes
    <3>2. Append(pq.q, more) \in Seq(Packet)
      BY <2>3, <3>1, AppendProperties
    <3>3. CASE e
      <4>1. p = [q |-> Append(pq.q, more), buff |-> <<>>]
        BY <2>1, <2>3, <3>3 DEF PutPacketByte
      <4> HIDE DEF p
      <4> QED BY <3>1, <3>2, <3>3, <4>1 DEF PacketQueues
    <3>4. CASE ~e
      <4>1. p = [pq EXCEPT !.buff = more]
        BY <2>1, <2>3, <3>4 DEF PutPacketByte
      <4> HIDE DEF p
      <4> QED BY <2>1, <3>1, <3>4, <4>1 DEF PacketQueues
    <3> QED BY <3>3, <3>4
  <2>5. r = AccessPackets(m, "RECEIVE", v, "none", p)
    <3>1. a.op = "packet_queue_put_byte" /\ a.qid = "RECEIVE" /\ a.vvc = v /\ a.byte = b /\ a.eop = e
      <4> DEFINE f == e
      <4>1. a = [op |-> "packet_queue_put_byte", qid |-> "RECEIVE", vvc |-> v, byte |-> b, eop |-> f]
        BY <1>4 DEF PutAccess
      <4> HIDE DEF a, f
      <4>2. a.op = "packet_queue_put_byte" /\ a.qid = "RECEIVE" /\ a.vvc = v /\ a.byte = b /\ a.eop = f
        BY <4>1
      <4> QED BY <4>2 DEF f
    <3> HIDE DEF a
    <3> QED BY <3>1 DEF Perform, packet_queue_put_byte, pq
  <2> HIDE DEF r, p, v
  <2>6. /\ SameVvcs(m, r.map) /\ PacketsSet(m, r.map, "RECEIVE", v, p) /\ SameBytes(m, r.map)
    BY <1>1, <1>4, <2>4, <2>5, AccessesPackets DEF QueueIds
  <2>7. \A u \in DOMAIN Loop : u # s => SameStream(m, r.map, u)
    BY <1>2, <2>6, ReceiverPackets
  <2>8. Arrived(r.map, s) = p.q /\ Gathered(r.map, s) = p.buff /\ Waiting(r.map, s) = w
    BY <1>4, <2>6, ReceiverPackets DEF v, w
  <2>9. RestOf(m, s, <<b>>, e) = Unsent(more, e, w) /\ (BegunIn(m, s, <<b>>, e) <=> Begun(more, e, w))
    BY <1>4 DEF RestOf, BegunIn, more, pre, w
  <2>10. <<>> \in Bytes /\ <<>> \o <<>> = <<>> /\ more \o <<>> = more /\ more \in Bytes
    <3>1. <<>> \in Bytes /\ more \in Bytes
      BY <2>3, EmptySeq DEF Bytes, Packet
    <3> QED BY <3>1, ConcatEmptySeq DEF Bytes
  <2>11. CASE e
    <3>1. RestOf(r.map, s, <<>>, FALSE) = w /\ BegunIn(r.map, s, <<>>, FALSE)
      BY <1>4, <2>4, <2>8, <2>10, <2>11 DEF RestOf, BegunIn, Unsent, Begun
    <3>2. RestOf(m, s, <<b>>, e) = <<more>> \o w
      BY <2>9, <2>11 DEF Unsent
    <3>3. Arrived(r.map, s) = Arrived(m, s) \o <<more>>
      <4>1. pq.q \in Seq(Packet)
        BY <2>1 DEF PacketQueues
      <4>2. Append(pq.q, more) = pq.q \o <<more>>
        BY <2>3, <4>1, AppendIsConcat
      <4> QED BY <2>1, <2>4, <2>8, <2>11, <4>2
    <3>4. <<more>> \in Items(s)
      BY <1>4, <2>10, OneIsList DEF Items
    <3> HIDE DEF r, a
    <3>5. \E x \in Items(s) :
             /\ Arrived(r.map, s) = Arrived(m, s) \o x
             /\ RestOf(m, s, <<b>>, e) = x \o RestOf(r.map, s, <<>>, FALSE)
      BY <3>1, <3>2, <3>3, <3>4
    <3> QED BY <2>6, <2>7, <3>1, <3>5 DEF r, a
  <2>12. CASE ~e
    <3> DEFINE rest == Unsent(more, FALSE, w)
    <3>1. RestOf(r.map, s, <<>>, FALSE) = rest
      BY <1>4, <2>4, <2>8, <2>10, <2>12 DEF RestOf
    <3>2. RestOf(m, s, <<b>>, e) = rest
      BY <2>9, <2>12 DEF Unsent
    <3>3. Begun(more, FALSE, w)
      BY <2>9, <2>12 DEF Begun
    <3>4. BegunIn(r.map, s, <<>>, FALSE)
      BY <1>4, <2>4, <2>8, <2>10, <2>12, <3>3 DEF BegunIn
    <3>5. rest \in Items(s)
      BY <1>4, <2>2, <2>10, <3>3, UnsentIsList DEF Items
    <3>6. Arrived(r.map, s) = Arrived(m, s) /\ Arrived(m, s) \in Items(s)
      BY <2>1, <2>4, <2>8, <2>12, StreamTyped
    <3> HIDE DEF r, a, rest
    <3>7. \E x \in Items(s) :
             /\ Arrived(r.map, s) = Arrived(m, s) \o x
             /\ RestOf(m, s, <<b>>, e) = x \o RestOf(r.map, s, <<>>, FALSE)
      BY <3>1, <3>2, <3>5, <3>6, EmptyItem
    <3> QED BY <2>6, <2>7, <3>4, <3>7 DEF r, a
  <2> QED BY <2>11, <2>12
<1>5. CASE ~s.packet_based
  <2> DEFINE q == ByteQueue(m, "RECEIVE", v)  more == q \o <<b>>
  <2>1. q = Arrived(m, s) /\ q \in Bytes /\ more \in Bytes
    BY <1>1, <1>3, <1>5, QueuesTyped, BytesJoin
       DEF HasByteQueue, ByteQueue, BytesIn, QueueIds, Arrived
  <2>2. r = AccessBytes(m, "RECEIVE", v, "none", more)
    <3>1. a.op = "byte_queue_put" /\ a.qid = "RECEIVE" /\ a.vvc = v /\ a.data = <<b>>
      BY <1>5 DEF PutAccess
    <3> HIDE DEF a
    <3> QED BY <3>1 DEF Perform, byte_queue_put, PutBytes
  <2> HIDE DEF q, r, v
  <2>3. SameVvcs(m, r.map) /\ BytesSet(m, r.map, "RECEIVE", v, more) /\ SamePackets(m, r.map)
    BY <1>1, <1>5, <2>1, <2>2, AccessesBytes DEF QueueIds
  <2>4. \A u \in DOMAIN Loop : u # s => SameStream(m, r.map, u)
    BY <1>2, <2>3, ReceiverBytes
  <2>5. Arrived(r.map, s) = Arrived(m, s) \o <<b>> /\ Waiting(r.map, s) = Waiting(m, s)
    BY <1>5, <2>1, <2>3, ReceiverBytes DEF v
  <2>6. RestOf(r.map, s, <<>>, FALSE) = Waiting(m, s)
    BY <1>5, <2>5, StreamTyped, EmptyItem DEF RestOf
  <2>7. RestOf(m, s, <<b>>, e) = <<b>> \o Waiting(m, s) /\ <<b>> \in Items(s)
    BY <1>3, <1>5 DEF RestOf, Items
  <2> HIDE DEF a
  <2>8. \E x \in Items(s) :
           /\ Arrived(r.map, s) = Arrived(m, s) \o x
           /\ RestOf(m, s, <<b>>, e) = x \o RestOf(r.map, s, <<>>, FALSE)
    BY <2>5, <2>6, <2>7
  <2> QED BY <1>5, <2>3, <2>4, <2>8 DEF BegunIn, r, a
<1> QED BY <1>4, <1>5

\* A report changes no queue; the VVC is there when it has returned.
LEMMA VvcReported ==
    ASSUME NEW m, MapOK(m), Modes(m), NEW i \in 1..Len(Reports)
    PROVE  LET r == Perform(m, Reported(i))
           IN  /\ MapOK(r.map) /\ Modes(r.map)
               /\ DOMAIN m \cup {Reported(i).vvc} \subseteq DOMAIN r.map
               /\ \A u \in DOMAIN Loop : SameStream(m, r.map, u)
<1> DEFINE a == Reported(i)  r == Perform(m, a)
<1>1. a.op = "AddVvc"
  BY DEF Reported, ServerAccess
<1>2. r = AddVvc(m, a.vvc, a.bfm_cfg)
  BY <1>1 DEF Perform
<1>3. CASE a.vvc \in DOMAIN m
  <2>1. r.map = m
    BY <1>2, <1>3 DEF AddVvc, Throws
  <2> HIDE DEF r
  <2> QED BY <1>3, <2>1 DEF SameStream, r
<1>4. CASE a.vvc \notin DOMAIN m
  <2> HIDE DEF r
  <2>1. /\ MapOK(r.map) /\ SameBytes(m, r.map) /\ SamePackets(m, r.map)
        /\ DOMAIN r.map = DOMAIN m \cup {a.vvc}
        /\ \A u \in DOMAIN m : r.map[u].cfg.packet_based = m[u].cfg.packet_based
        /\ r.map[a.vvc].cfg.packet_based = VvcConfig(a.bfm_cfg).packet_based
    BY <1>2, <1>4, AddOne
  <2>2. ASSUME NEW s \in DOMAIN Loop, NEW v \in {Sender(s), Receiver(Loop[s])}, v \in DOMAIN r.map
        PROVE  r.map[v].cfg.packet_based = s.packet_based
    <3>1. CASE v \in DOMAIN m
      BY <2>1, <3>1 DEF Modes
    <3>2. CASE v = a.vvc
      <4>1. VvcConfig(a.bfm_cfg).packet_based = s.packet_based
        BY <3>2, LoopReported DEF ModeReported
      <4> QED BY <2>1, <3>2, <4>1
    <3> QED BY <2>1, <2>2, <3>1, <3>2
  <2>3. Modes(r.map)
    BY <2>2 DEF Modes
  <2>4. \A u \in DOMAIN Loop : SameStream(m, r.map, u)
    BY <2>1, SameQueuesSameStream
  <2> QED BY <2>1, <2>3, <2>4 DEF r
<1> QED BY <1>3, <1>4

-----------------------------------------------------------------------------
(* A stream from end to end                                                 *)

\* All that has entered stream s has left it, has arrived, or is on the way, in
\* this order.  Once the simulation has ended, what is on the way stays there,
\* and a byte the simulator held is lost.
Delivers(m, s, fl, ends, live, in, taken) ==
    /\ taken \in Items(s)
    /\ \E rest \in Items(s) : /\ in = (taken \o Arrived(m, s)) \o rest
                              /\ live => rest = RestOf(m, s, fl, ends)
    /\ live => BegunIn(m, s, fl, ends)

Held(s, fl, ends) == fl \in Bytes /\ (s.packet_based => ends \in BOOLEAN)

Item(s) == IF s.packet_based THEN Bytes ELSE Byte

LEMMA ItemsAreSeqs == ASSUME NEW s PROVE Items(s) = Seq(Item(s))
BY DEF Items, Item, PacketLists, Bytes

LEMMA ItemsJoin == ASSUME NEW s, NEW x \in Items(s), NEW y \in Items(s) PROVE x \o y \in Items(s)
BY BytesJoin, ListsJoin DEF Items

LEMMA ItemsRegroup ==
    ASSUME NEW s, NEW x \in Items(s), NEW y \in Items(s), NEW z \in Items(s)
    PROVE  (x \o y) \o z = x \o (y \o z)
BY BytesRegroup, ListsRegroup DEF Items

\* What leaves a stream had arrived at its end.
LEMMA LeavesFirst ==
    ASSUME NEW s, NEW o \in Items(s), NEW a \in Items(s), NEW r \in Items(s), NEW x \in Items(s)
    PROVE  (o \o (x \o a)) \o r = ((o \o x) \o a) \o r
<1>1. o \o (x \o a) = (o \o x) \o a
  BY ItemsRegroup
<1> QED BY <1>1

LEMMA SameDelivers ==
    ASSUME NEW m, NEW n, NEW s, SameStream(m, n, s), NEW fl, NEW ends, NEW live, NEW in, NEW taken,
           Delivers(m, s, fl, ends, live, in, taken)
    PROVE  Delivers(n, s, fl, ends, live, in, taken)
<1>1. /\ Waiting(n, s) = Waiting(m, s) /\ Arrived(n, s) = Arrived(m, s)
      /\ Gathered(n, s) = Gathered(m, s)
  BY DEF SameStream
<1>2. RestOf(n, s, fl, ends) = RestOf(m, s, fl, ends)
  BY <1>1 DEF RestOf
<1>3. BegunIn(m, s, fl, ends) => BegunIn(n, s, fl, ends)
  BY <1>1 DEF BegunIn
<1> QED BY <1>1, <1>2, <1>3 DEF Delivers

\* Whether it is the last of a packet is nothing to a byte of a byte stream.
LEMMA EndsNothing ==
    ASSUME NEW m, NEW s, ~s.packet_based, NEW fl, NEW ends, NEW live, NEW in, NEW taken,
           Delivers(m, s, fl, ends, live, in, taken), NEW ends2
    PROVE  Delivers(m, s, fl, ends2, live, in, taken)
BY DEF Delivers, RestOf, BegunIn

\* The simulator takes hold of a byte ...
LEMMA HoldDelivers ==
    ASSUME NEW m, NEW n, NEW s, NEW fl, NEW ends, NEW live, NEW in, NEW taken, live,
           Delivers(m, s, <<>>, FALSE, live, in, taken),
           Arrived(n, s) = Arrived(m, s),
           RestOf(n, s, fl, ends) = RestOf(m, s, <<>>, FALSE), BegunIn(n, s, fl, ends)
    PROVE  Delivers(n, s, fl, ends, live, in, taken)
BY DEF Delivers

\* ... and hands it on.
LEMMA HandOnDelivers ==
    ASSUME NEW m, NEW n, NEW s \in DOMAIN Loop, NEW fl, NEW ends, NEW live, NEW in, NEW taken,
           MapOK(m), MapOK(n), live, Delivers(m, s, fl, ends, live, in, taken),
           NEW x \in Items(s), Arrived(n, s) = Arrived(m, s) \o x,
           RestOf(m, s, fl, ends) = x \o RestOf(n, s, <<>>, FALSE), BegunIn(n, s, <<>>, FALSE)
    PROVE  Delivers(n, s, <<>>, FALSE, live, in, taken)
<1> DEFINE a == Arrived(m, s)  rest == RestOf(n, s, <<>>, FALSE)
<1>1. rest \in Items(s)
  <2>1. CASE s.packet_based
    <3>1. Gathered(n, s) \o <<>> \in Bytes /\ Waiting(n, s) \in Seq(Packet)
      BY <2>1, StreamTyped, NothingHeld
    <3> QED BY <2>1, <3>1, UnsentIsList DEF RestOf, BegunIn, Items
  <2>2. CASE ~s.packet_based
    <3>1. Waiting(n, s) \in Items(s)
      BY StreamTyped
    <3> QED BY <2>2, <3>1, EmptyItem DEF RestOf
  <2> QED BY <2>1, <2>2
<1>2. taken \in Items(s) /\ a \in Items(s)
  BY StreamTyped DEF Delivers
<1>3. in = (taken \o a) \o (x \o rest)
  BY DEF Delivers
<1> HIDE DEF a, rest
<1>4. (taken \o a) \o (x \o rest) = (taken \o (a \o x)) \o rest
  <2> DEFINE ta == taken \o a
  <2>1. ta \in Items(s)
    BY ONLY <1>2, ItemsJoin
  <2>2. ta \o x = taken \o (a \o x)
    BY ONLY <1>2, x \in Items(s), ItemsRegroup
  <2> HIDE DEF ta
  <2>3. ta \o (x \o rest) = (ta \o x) \o rest
    BY ONLY <1>1, <2>1, x \in Items(s), ItemsRegroup
  <2> QED BY <2>2, <2>3 DEF ta
<1>5. in = (taken \o Arrived(n, s)) \o rest
  BY <1>3, <1>4 DEF a
<1> QED BY <1>1, <1>5 DEF Delivers, rest

\* What a client sends is behind all that is on the way.
LEMMA PutDelivers ==
    ASSUME NEW m, NEW n, NEW s \in DOMAIN Loop, NEW fl, NEW ends, NEW live, NEW in, NEW taken, NEW x,
           MapOK(m), Held(s, fl, ends), PutBehind(m, n, s, x),
           Delivers(m, s, fl, ends, live, in, taken)
    PROVE  /\ Delivers(n, s, fl, ends, live, in \o x, taken)
           /\ in \in Items(s)
<1> DEFINE a == Arrived(m, s)
<1>0. PICK rest \in Items(s) : /\ in = (taken \o a) \o rest
                               /\ live => rest = RestOf(m, s, fl, ends)
  BY DEF Delivers
<1>1. /\ Arrived(n, s) = a /\ Gathered(n, s) = Gathered(m, s)
      /\ Waiting(n, s) = Waiting(m, s) \o x /\ x \in Items(s)
  BY DEF PutBehind
<1>2. taken \in Items(s) /\ a \in Items(s) /\ rest \o x \in Items(s) /\ taken \o a \in Items(s)
  BY <1>0, <1>1, StreamTyped, ItemsJoin DEF Delivers
<1>4. in \in Items(s)
  BY <1>0, <1>2, ItemsJoin
<1>5. in \o x = (taken \o a) \o (rest \o x)
  <2> DEFINE ta == taken \o a
  <2>1. ta \in Items(s) /\ rest \in Items(s) /\ x \in Items(s)
    BY <1>0, <1>1, <1>2
  <2> HIDE DEF a, ta
  <2>2. (ta \o rest) \o x = ta \o (rest \o x)
    BY <2>1, ItemsRegroup
  <2> QED BY <1>0, <2>2 DEF ta
<1> HIDE DEF a
<1>6. ASSUME live
      PROVE  rest \o x = RestOf(n, s, fl, ends) /\ BegunIn(n, s, fl, ends)
  <2>1. rest = RestOf(m, s, fl, ends) /\ BegunIn(m, s, fl, ends)
    BY <1>0, <1>6 DEF Delivers
  <2>2. CASE s.packet_based
    <3> DEFINE pre == Gathered(m, s) \o fl  q == Waiting(m, s)
    <3>1. pre \in Bytes /\ q \in Seq(Packet) /\ ends \in BOOLEAN
      BY <2>2, StreamTyped, BytesJoin DEF Held
    <3>2. rest = Unsent(pre, ends, q) /\ Begun(pre, ends, q)
      BY <2>1, <2>2 DEF RestOf, BegunIn
    <3>3. RestOf(n, s, fl, ends) = Unsent(pre, ends, q \o x)
          /\ (BegunIn(n, s, fl, ends) <=> Begun(pre, ends, q \o x))
      BY <1>1, <2>2 DEF RestOf, BegunIn
    <3> HIDE DEF pre, q
    <3>4. CASE x = <<>>
      <4>1. q \o x = q /\ rest \o x = rest
        BY <3>1, <3>4, ConcatEmptySeq, EmptyItem
      <4> QED BY <3>2, <3>3, <4>1
    <3>5. ASSUME NEW pkt \in Packet, x = <<pkt>>
          PROVE  rest \o x = RestOf(n, s, fl, ends) /\ BegunIn(n, s, fl, ends)
      <4>1. q \o x = Append(q, pkt)
        BY <3>1, <3>5, AppendIsConcat
      <4>2. /\ Unsent(pre, ends, Append(q, pkt)) = Unsent(pre, ends, q) \o <<pkt>>
            /\ Append(q, pkt) # <<>>
        BY <3>1, <3>2, QueuedBehind
      <4> QED BY <3>2, <3>3, <3>5, <4>1, <4>2 DEF Begun
    <3> QED BY <2>2, <3>4, <3>5 DEF PutBehind
  <2>3. CASE ~s.packet_based
    <3> DEFINE q == Waiting(m, s)
    <3>1. fl \in Bytes /\ q \in Bytes /\ x \in Bytes
      BY <1>1, <2>3, StreamTyped DEF Held, Items
    <3>2. rest = fl \o q /\ RestOf(n, s, fl, ends) = fl \o (q \o x)
      BY <1>1, <2>1, <2>3 DEF RestOf
    <3> HIDE DEF q
    <3>3. (fl \o q) \o x = fl \o (q \o x)
      BY <3>1, BytesRegroup
    <3> QED BY <2>3, <3>2, <3>3 DEF BegunIn
  <2> QED BY <2>2, <2>3
<1>7. Delivers(n, s, fl, ends, live, in \o x, taken)
  BY <1>0, <1>1, <1>2, <1>5, <1>6 DEF Delivers
<1> QED BY <1>4, <1>7

\* What a client takes is what follows what was taken.
LEMMA TakeDelivers ==
    ASSUME NEW m, NEW n, NEW s \in DOMAIN Loop, NEW fl, NEW ends, NEW live, NEW in, NEW taken, NEW x,
           MapOK(m), MapOK(n), TakenAway(m, n, s, x),
           Delivers(m, s, fl, ends, live, in, taken)
    PROVE  /\ Delivers(n, s, fl, ends, live, in, taken \o x)
           /\ x # <<>> => /\ Len(x) \in 1..(Len(in) - Len(taken))
                          /\ taken \o x = SubSeq(in, 1, Len(taken) + Len(x))
<1> DEFINE S == Item(s)  a == Arrived(n, s)
<1>0. PICK rest \in Items(s) : /\ in = (taken \o Arrived(m, s)) \o rest
                               /\ live => rest = RestOf(m, s, fl, ends)
  BY DEF Delivers
<1>1. /\ Arrived(m, s) = x \o a /\ x \in Items(s)
      /\ Waiting(n, s) = Waiting(m, s) /\ Gathered(n, s) = Gathered(m, s)
  BY DEF TakenAway
<1>2. taken \in Items(s) /\ a \in Items(s) /\ taken \o x \in Items(s)
      /\ (taken \o x) \o a \in Items(s) /\ a \o rest \in Items(s)
  BY <1>0, <1>1, StreamTyped, ItemsJoin DEF Delivers
<1>3. taken \in Seq(S) /\ a \in Seq(S) /\ rest \in Seq(S) /\ x \in Seq(S)
      /\ a \o rest \in Seq(S) /\ taken \o x \in Seq(S)
  BY <1>0, <1>1, <1>2, ItemsAreSeqs
<1> HIDE DEF S, a
<1>4. in = ((taken \o x) \o a) \o rest
  <2>1. (taken \o (x \o a)) \o rest = ((taken \o x) \o a) \o rest
    <3>1. taken \in Items(s) /\ a \in Items(s) /\ rest \in Items(s) /\ x \in Items(s)
      BY <1>0, <1>1, <1>2
    <3> QED BY <3>1, LeavesFirst
  <2> QED BY <1>0, <1>1, <2>1
<1>5. x # <<>> => /\ Len(x) \in 1..(Len(in) - Len(taken))
                  /\ taken \o x = SubSeq(in, 1, Len(taken) + Len(x))
  <2> DEFINE y == a \o rest  tx == taken \o x
  <2>1. in = tx \o y
    <3> HIDE DEF tx
    <3>1. (tx \o a) \o rest = tx \o (a \o rest)
      BY <1>3, ConcatAssociative DEF tx
    <3> QED BY <1>4, <3>1 DEF tx
  <2>2. y \in Seq(S)
    BY <1>3
  <2> HIDE DEF y
  <2> QED BY <1>3, <2>1, <2>2, NextLeaves
<1>6. RestOf(n, s, fl, ends) = RestOf(m, s, fl, ends)
      /\ (BegunIn(m, s, fl, ends) => BegunIn(n, s, fl, ends))
  BY <1>1 DEF RestOf, BegunIn
<1>7. Delivers(n, s, fl, ends, live, in, taken \o x)
  BY <1>0, <1>2, <1>4, <1>6 DEF Delivers, a
<1> QED BY <1>5, <1>7

-----------------------------------------------------------------------------
(* What the simulator holds between two calls                               *)

\* The names of its calls for a stream
CallName(c, s) ==
    CASE c = "poll" -> IF s.packet_based THEN "transmit_packet_queue_empty" ELSE "transmit_byte_queue_empty"
      [] c = "get"  -> IF s.packet_based THEN "transmit_packet_queue_get" ELSE "transmit_byte_queue_get"
      [] c = "put"  -> IF s.packet_based THEN "receive_packet_queue_put" ELSE "receive_byte_queue_put"

LEMMA CallFields ==
    ASSUME NEW s, NEW b, NEW e
    PROVE  /\ PollCall(s).name = CallName("poll", s) /\ PollCall(s).target = s
           /\ GetCall(s).name = CallName("get", s) /\ GetCall(s).target = s
           /\ PutCall(s, b, e).name = CallName("put", s) /\ PutCall(s, b, e).target = s
BY DEF PollCall, GetCall, PutCall, CallName

LEMMA CallsDiffer ==
    ASSUME NEW s, NEW u, NEW b, NEW e, NEW c, NEW f
    PROVE  /\ PollCall(s) # GetCall(u) /\ PollCall(s) # PutCall(u, b, e) /\ GetCall(s) # PutCall(u, b, e)
           /\ GetCall(s) = GetCall(u) => s = u
           /\ PutCall(s, b, e) = PutCall(u, c, f) => s = u
           /\ \A i : ReportCall(i) # PollCall(s) /\ ReportCall(i) # GetCall(s) /\ ReportCall(i) # PutCall(s, b, e)
<1>1. /\ CallName("poll", s) # CallName("get", u) /\ CallName("poll", s) # CallName("put", u)
      /\ CallName("get", s) # CallName("put", u)
      /\ \A k \in {"poll", "get", "put"} : CallName(k, s) # "report_vvc_info"
  BY DEF CallName
<1>2. \A i : ReportCall(i).name = "report_vvc_info"
  BY DEF ReportCall
<1> QED BY <1>1, <1>2, CallFields

\* In call c, where it is at p and its result is o, the simulator holds bytes fl
\* of stream s: one it was given, or one it has not yet put.
Holds(c, p, o, s, fl, ends) ==
    IF p = "unlock"
    THEN IF c = GetCall(s) THEN fl = <<o.value.byte>> /\ ends = o.value.eop
                           ELSE fl = <<>> /\ ends = FALSE
    ELSE IF \E b \in Byte, e \in BOOLEAN : c = PutCall(s, b, e)
         THEN \E b \in Byte, e \in BOOLEAN : c = PutCall(s, b, e) /\ fl = <<b>> /\ ends = e
         ELSE fl = <<>> /\ ends = FALSE

\* It holds no byte in a report or a poll, before it is given one and after it
\* has put it.
LEMMA HoldsNothing ==
    ASSUME NEW c, NEW p, NEW o, NEW s \in DOMAIN Loop,
           \/ c = None
           \/ \E i \in 1..Len(Reports) : c = ReportCall(i)
           \/ \E u \in DOMAIN Loop : \/ c = PollCall(u)
                                     \/ c = GetCall(u) /\ (p = "unlock" => u # s)
                                     \/ \E b \in Byte, e \in BOOLEAN :
                                           c = PutCall(u, b, e) /\ (p # "unlock" => u # s)
    PROVE  \A fl, ends : Holds(c, p, o, s, fl, ends) <=> fl = <<>> /\ ends = FALSE
<1>1. p = "unlock" => c # GetCall(s)
  BY CallsDiffer, NoCallAssumption
<1>2. p # "unlock" => ~\E b \in Byte, e \in BOOLEAN : c = PutCall(s, b, e)
  BY CallsDiffer, NoCallAssumption
<1> QED BY <1>1, <1>2 DEF Holds

\* Before the access of a call is done, where the simulator is in it is nothing
\* to what it holds.
LEMMA HoldsOn ==
    ASSUME NEW c, NEW p, NEW p2, NEW o, NEW o2, NEW s, p # "unlock", p2 # "unlock"
    PROVE  \A fl, ends : Holds(c, p, o, s, fl, ends) <=> Holds(c, p2, o2, s, fl, ends)
BY DEF Holds

\* A stream is as it should be, whatever the simulator holds of it.
StreamFine(m, c, p, o, live, in, taken, s) ==
    \E fl, ends : /\ Holds(c, p, o, s, fl, ends) /\ Held(s, fl, ends)
                  /\ Delivers(m, s, fl, ends, live, in, taken)

LEMMA NothingFine ==
    ASSUME NEW m, NEW c, NEW p, NEW o, NEW live, NEW in, NEW taken, NEW s,
           \A fl, ends : Holds(c, p, o, s, fl, ends) <=> fl = <<>> /\ ends = FALSE
    PROVE  StreamFine(m, c, p, o, live, in, taken, s) <=> Delivers(m, s, <<>>, FALSE, live, in, taken)
<1>1. Held(s, <<>>, FALSE)
  BY EmptySeq DEF Held, Bytes
<1>2. ASSUME StreamFine(m, c, p, o, live, in, taken, s)
      PROVE  Delivers(m, s, <<>>, FALSE, live, in, taken)
  <2> PICK fl, ends : /\ Holds(c, p, o, s, fl, ends)
                      /\ Delivers(m, s, fl, ends, live, in, taken)
    BY <1>2 DEF StreamFine
  <2>1. fl = <<>> /\ ends = FALSE
    OBVIOUS
  <2> QED BY <2>1
<1>3. ASSUME Delivers(m, s, <<>>, FALSE, live, in, taken)
      PROVE  StreamFine(m, c, p, o, live, in, taken, s)
  <2>1. Holds(c, p, o, s, <<>>, FALSE)
    OBVIOUS
  <2> QED BY <1>1, <1>3, <2>1 DEF StreamFine
<1> QED BY <1>2, <1>3

LEMMA SameFine ==
    ASSUME NEW m, NEW n, NEW c, NEW p, NEW o, NEW live, NEW in, NEW taken, NEW s, SameStream(m, n, s),
           StreamFine(m, c, p, o, live, in, taken, s)
    PROVE  StreamFine(n, c, p, o, live, in, taken, s)
BY SameDelivers DEF StreamFine

LEMMA HeldFine ==
    ASSUME NEW m, NEW c, NEW p, NEW o, NEW c2, NEW p2, NEW o2, NEW live, NEW in, NEW taken, NEW s,
           \A fl, ends : Holds(c, p, o, s, fl, ends) => Holds(c2, p2, o2, s, fl, ends),
           StreamFine(m, c, p, o, live, in, taken, s)
    PROVE  StreamFine(m, c2, p2, o2, live, in, taken, s)
BY DEF StreamFine

\* What a client takes are the next items of the stream, if any.
TakesNext(in, taken, taken2) ==
    taken2 = taken \/ \E k \in 1..(Len(in) - Len(taken)) : taken2 = SubSeq(in, 1, Len(taken) + k)

\* The access of a request keeps every stream as it should be: it adds to the
\* items that have entered, or takes the next ones that leave.
LEMMA ClientFine ==
    ASSUME NEW m, MapOK(m), Modes(m), NEW a, ClientAccess(a), NEW s \in DOMAIN Loop,
           NEW c, NEW p, NEW o, NEW live, NEW in, NEW taken,
           StreamFine(m, c, p, o, live, in, taken, s),
           NEW in2, NEW taken2,
           LET r == Perform(m, a)
           IN  /\ in2 = IF ~r.throws /\ a.op \in Puts /\ Sender(s) = a.vvc
                        THEN in \o Entered(a) ELSE in
               /\ taken2 = IF ~r.throws /\ a.op \in Gets /\ Receiver(Loop[s]) = a.vvc
                           THEN taken \o r.value ELSE taken
    PROVE  /\ StreamFine(Perform(m, a).map, c, p, o, live, in2, taken2, s)
           /\ in2 = in \/ EndToEnd!Extends(in2, in)
           /\ TakesNext(in, taken, taken2)
<1> DEFINE r == Perform(m, a)  n == r.map
           put == ~r.throws /\ a.op \in Puts /\ Sender(s) = a.vvc
           got == ~r.throws /\ a.op \in Gets /\ Receiver(Loop[s]) = a.vvc
<1>1. /\ SameVvcs(m, n)
      /\ IF put THEN PutBehind(m, n, s, Entered(a))
         ELSE IF got THEN TakenAway(m, n, s, r.value)
         ELSE SameStream(m, n, s)
  BY ClientAccesses
<1>2. MapOK(n)
  BY <1>1, SameModes
<1>3. ~(put /\ got)
  BY DEF Puts, Gets
<1>4. in2 = (IF put THEN in \o Entered(a) ELSE in) /\ taken2 = (IF got THEN taken \o r.value ELSE taken)
  OBVIOUS
<1>5. PICK fl, ends : /\ Holds(c, p, o, s, fl, ends) /\ Held(s, fl, ends)
                      /\ Delivers(m, s, fl, ends, live, in, taken)
  BY DEF StreamFine
<1> HIDE DEF r, n, put, got
<1>6. CASE put
  <2> DEFINE x == Entered(a)
  <2>1. PutBehind(m, n, s, x) /\ in2 = in \o x /\ taken2 = taken
    BY <1>1, <1>3, <1>4, <1>6
  <2> HIDE DEF x
  <2>2. Delivers(n, s, fl, ends, live, in \o x, taken) /\ in \in Items(s) /\ x \in Items(s)
    BY <1>5, <2>1, PutDelivers DEF PutBehind
  <2>3. StreamFine(n, c, p, o, live, in2, taken2, s)
    BY <1>5, <2>1, <2>2 DEF StreamFine
  <2>4. in2 = in \/ EndToEnd!Extends(in2, in)
    <3>1. CASE x = <<>>
      BY <2>1, <2>2, <3>1, EmptyItem
    <3>2. CASE x # <<>>
      <4> DEFINE S == Item(s)
      <4>1. in \in Seq(S) /\ x \in Seq(S)
        BY <2>2, ItemsAreSeqs
      <4> HIDE DEF S
      <4>2. Len(in \o x) > Len(in) /\ SubSeq(in \o x, 1, Len(in)) = in
        BY <3>2, <4>1, PutBehindExtends
      <4> QED BY <2>1, <4>2 DEF EndToEnd!Extends
    <3> QED BY <3>1, <3>2
  <2>5. TakesNext(in, taken, taken2)
    BY <2>1 DEF TakesNext
  <2> QED BY <2>1, <2>3, <2>4, <2>5 DEF n, r
<1>7. CASE ~put /\ got
  <2> DEFINE x == r.value
  <2>1. TakenAway(m, n, s, x) /\ in2 = in /\ taken2 = taken \o x
    BY <1>1, <1>4, <1>7
  <2> HIDE DEF x
  <2>2. /\ Delivers(n, s, fl, ends, live, in, taken \o x)
        /\ x # <<>> => /\ Len(x) \in 1..(Len(in) - Len(taken))
                       /\ taken \o x = SubSeq(in, 1, Len(taken) + Len(x))
    BY <1>2, <1>5, <2>1, TakeDelivers
  <2>3. StreamFine(n, c, p, o, live, in2, taken2, s)
    BY <1>5, <2>1, <2>2 DEF StreamFine
  <2>4. TakesNext(in, taken, taken2)
    <3>1. CASE x = <<>>
      <4>1. taken \in Items(s)
        BY <1>5 DEF Delivers
      <4> QED BY <2>1, <3>1, <4>1, EmptyItem DEF TakesNext
    <3>2. CASE x # <<>>
      <4>1. Len(x) \in 1..(Len(in) - Len(taken)) /\ taken2 = SubSeq(in, 1, Len(taken) + Len(x))
        BY <2>1, <2>2, <3>2
      <4> QED BY <4>1 DEF TakesNext
    <3> QED BY <3>1, <3>2
  <2> QED BY <2>1, <2>3, <2>4 DEF n, r
<1>8. CASE ~put /\ ~got
  <2>1. StreamFine(n, c, p, o, live, in, taken, s)
    BY <1>1, <1>8, SameFine
  <2>2. TakesNext(in, taken, taken2)
    BY <1>4, <1>8 DEF TakesNext
  <2> QED BY <1>4, <1>8, <2>1, <2>2 DEF n, r
<1> QED BY <1>6, <1>7, <1>8

-----------------------------------------------------------------------------
(* The server in use                                                        *)

Live == cosim_server \in {"null", "listening"}

\* Everything a thread accesses is for a request or the simulator's call.
AccessInv ==
    /\ \A t \in Workers : pc[t] # "idle" => access[t] \in Requests
    /\ pc[Sim] # "idle" => access[Sim] = ServerAccess(call.name, Arguments(call))

\* What has been reported is in the map.
ReportsIn ==
    \A i \in 1..Len(Reports) :
        i <= reported \/ (i = reported + 1 /\ call = ReportCall(i) /\ pc[Sim] = "unlock")
            => Reported(i).vvc \in DOMAIN mp

\* Where the simulator is: in no call, in a report, or, after the last one,
\* between the poll of a queue that is not empty and the put of what it gave.
InPoll(s) ==
    /\ call = PollCall(s)
    /\ pc[Sim] = "unlock" => /\ out[Sim].value \in BOOLEAN
                             /\ ~out[Sim].value => Waiting(mp, s) # <<>>
InGet(s) ==
    /\ call = GetCall(s)
    /\ pc[Sim] # "unlock" => Waiting(mp, s) # <<>>
    /\ pc[Sim] = "unlock" => /\ out[Sim].value.byte \in Byte
                             /\ s.packet_based => out[Sim].value.got /\ out[Sim].value.eop \in BOOLEAN
InPut(s) == \E b \in Byte, e \in BOOLEAN : call = PutCall(s, b, e)

SimInv ==
    \/ call = None /\ pc[Sim] = "idle"
    \/ \E i \in 1..Len(Reports) : call = ReportCall(i) /\ i = reported + 1
    \/ reported = Len(Reports) /\ \E s \in DOMAIN Loop : InPoll(s) \/ InGet(s) \/ InPut(s)

StreamsInv ==
    \A s \in DOMAIN Loop :
        StreamFine(mp, call, pc[Sim], out[Sim], Live, input[Sender(s)], output[Receiver(Loop[s])], s)

UseInv ==
    /\ DOMAIN out = Threads
    /\ DOMAIN input = {Sender(s) : s \in DOMAIN Loop}
    /\ DOMAIN output = {Receiver(Loop[s]) : s \in DOMAIN Loop}
    /\ MapOK(mp) /\ Modes(mp)
    /\ AccessInv /\ ReportsIn /\ SimInv /\ StreamsInv

LEMMA UseInit == Init => UseInv
<1> SUFFICES ASSUME Init PROVE UseInv
  OBVIOUS
<1>1. /\ mp = <<>> /\ pc = [t \in Threads |-> "idle"] /\ out = [t \in Threads |-> None]
      /\ call = None /\ reported = 0
      /\ input = [v \in {Sender(s) : s \in DOMAIN Loop} |-> <<>>]
      /\ output = [v \in {Receiver(Loop[s]) : s \in DOMAIN Loop} |-> <<>>]
  BY DEF Init, MapInit
<1>2. DOMAIN mp = {} /\ pc[Sim] = "idle" /\ \A t \in Workers : pc[t] = "idle"
  BY <1>1, SimAssumption DEF Workers
<1>3. MapOK(mp) /\ Modes(mp)
  BY <1>2 DEF MapOK, Modes
<1>4. AccessInv /\ ReportsIn /\ SimInv
  BY <1>1, <1>2 DEF AccessInv, ReportsIn, SimInv
<1>5. ASSUME NEW s \in DOMAIN Loop
      PROVE  StreamFine(mp, call, pc[Sim], out[Sim], Live, input[Sender(s)], output[Receiver(Loop[s])], s)
  <2>1. input[Sender(s)] = <<>> /\ output[Receiver(Loop[s])] = <<>>
    BY <1>1
  <2>2. /\ Waiting(mp, s) = <<>> /\ Arrived(mp, s) = <<>> /\ Gathered(mp, s) = <<>>
    BY <1>2 DEF Waiting, Arrived, Gathered, BytesIn, PacketsIn, EmptyPacketQueue
  <2>3. <<>> \o <<>> = <<>> /\ <<>> \in Items(s)
    BY EmptyItem
  <2>4. RestOf(mp, s, <<>>, FALSE) = <<>> /\ BegunIn(mp, s, <<>>, FALSE)
    BY <2>2, <2>3 DEF RestOf, BegunIn, Unsent, Begun
  <2>5. Delivers(mp, s, <<>>, FALSE, Live, <<>>, <<>>)
    <3>1. <<>> = (<<>> \o Arrived(mp, s)) \o <<>>
      BY <2>2, <2>3
    <3> QED BY <2>3, <2>4, <3>1 DEF Delivers
  <2>6. \A fl, ends : Holds(call, pc[Sim], out[Sim], s, fl, ends) <=> fl = <<>> /\ ends = FALSE
    BY <1>1, HoldsNothing
  <2> QED BY <2>1, <2>5, <2>6, NothingFine
<1> QED BY <1>1, <1>3, <1>4, <1>5 DEF UseInv, StreamsInv

\* A step on which the simulator is idle or waits, and that changes no queue
LEMMA OthersStep ==
    ASSUME UseInv,
           UNCHANGED <<mp, input, output, interface, reported, call>>, Live' <=> Live,
           UNCHANGED <<pc[Sim], out[Sim], access[Sim]>>, DOMAIN out' = Threads,
           \A t \in Workers : pc'[t] # "idle" => access'[t] \in Requests
    PROVE  UseInv'
<1>1. DOMAIN input' = {Sender(s) : s \in DOMAIN Loop}
      /\ DOMAIN output' = {Receiver(Loop[s]) : s \in DOMAIN Loop}
      /\ MapOK(mp') /\ Modes(mp')
  BY DEF UseInv
<1>2. AccessInv'
  BY DEF UseInv, AccessInv, Arguments
<1>3. ReportsIn'
  BY DEF UseInv, ReportsIn
<1>4. SimInv'
  BY DEF UseInv, SimInv, InPoll, InGet, InPut
<1>5. ASSUME NEW s \in DOMAIN Loop
      PROVE  StreamFine(mp, call, pc[Sim], out[Sim], Live', input[Sender(s)], output[Receiver(Loop[s])], s)
  BY DEF UseInv, StreamsInv, StreamFine, Delivers
<1>6. StreamsInv'
  BY <1>5 DEF StreamsInv
<1> QED BY <1>1, <1>2, <1>3, <1>4, <1>6 DEF UseInv

\* The simulator's next call holds nothing.
LEMMA BeginStep ==
    ASSUME ServerInv, MapInv, UseInv, BeginCall
    PROVE  UseInv'
<1>1. /\ UNCHANGED <<mp, input, output, interface, reported, cosim_server, pc, out, access>>
      /\ call = None /\ cosim_server = "listening"
  BY DEF BeginCall, mapVars
<1>2. pc[Sim] = "idle"
  BY <1>1 DEF ServerInv, CallsInv
<1>3. \/ reported < Len(Reports) /\ call' = ReportCall(reported + 1)
      \/ reported = Len(Reports) /\ \E s \in DOMAIN Loop : call' = PollCall(s)
  BY DEF BeginCall, ReportCall, PollCall
<1>4. reported \in Nat /\ Len(Reports) \in Nat
  BY ReportsAssumption DEF ServerInv, TypeOK
<1>5. \/ \E i \in 1..Len(Reports) : call' = ReportCall(i) /\ i = reported + 1
      \/ reported = Len(Reports) /\ \E s \in DOMAIN Loop : call' = PollCall(s)
  BY <1>3, <1>4
<1>6. AccessInv'
  BY <1>1, <1>2 DEF UseInv, AccessInv
<1>7. ReportsIn'
  BY <1>1, <1>2 DEF UseInv, ReportsIn
<1>8. SimInv'
  BY <1>1, <1>2, <1>5 DEF SimInv, InPoll
<1>9. ASSUME NEW s \in DOMAIN Loop
      PROVE  StreamFine(mp, call', pc[Sim], out[Sim], Live', input[Sender(s)], output[Receiver(Loop[s])], s)
  <2>1. \A fl, ends : Holds(call, pc[Sim], out[Sim], s, fl, ends) <=> fl = <<>> /\ ends = FALSE
    BY <1>1, HoldsNothing
  <2>2. \A fl, ends : Holds(call', pc[Sim], out[Sim], s, fl, ends) <=> fl = <<>> /\ ends = FALSE
    BY <1>5, HoldsNothing
  <2>3. StreamFine(mp, call, pc[Sim], out[Sim], Live, input[Sender(s)], output[Receiver(Loop[s])], s)
    BY DEF UseInv, StreamsInv
  <2>4. \A fl, ends : Holds(call, pc[Sim], out[Sim], s, fl, ends)
                        => Holds(call', pc[Sim], out[Sim], s, fl, ends)
    BY <2>1, <2>2
  <2>5. Live' = Live
    BY <1>1 DEF Live
  <2> QED BY <2>3, <2>4, <2>5, HeldFine
<1>10. StreamsInv'
  BY <1>1, <1>9 DEF StreamsInv
<1> QED BY <1>1, <1>6, <1>7, <1>8, <1>10 DEF UseInv

\* The simulator calls, locks and reads: it holds what it held.
LEMMA BeforeStep ==
    ASSUME UseInv,
           UNCHANGED <<mp, input, output, interface, reported, call, cosim_server>>,
           pc[Sim] # "unlock", pc'[Sim] # "unlock", call # None, DOMAIN out' = Threads,
           access'[Sim] = ServerAccess(call.name, Arguments(call)),
           \A t \in Workers : pc'[t] # "idle" => access'[t] \in Requests
    PROVE  UseInv'
<1>1. DOMAIN input' = {Sender(s) : s \in DOMAIN Loop}
      /\ DOMAIN output' = {Receiver(Loop[s]) : s \in DOMAIN Loop}
      /\ MapOK(mp') /\ Modes(mp')
  BY DEF UseInv
<1>2. AccessInv'
  BY DEF AccessInv, Arguments
<1>3. ReportsIn'
  BY DEF UseInv, ReportsIn
<1>4. SimInv'
  BY DEF UseInv, SimInv, InPoll, InGet, InPut
<1>5. ASSUME NEW s \in DOMAIN Loop
      PROVE  StreamFine(mp, call, pc'[Sim], out'[Sim], Live', input[Sender(s)], output[Receiver(Loop[s])], s)
  <2>1. \A fl, ends : Holds(call, pc[Sim], out[Sim], s, fl, ends)
                        => Holds(call, pc'[Sim], out'[Sim], s, fl, ends)
    BY HoldsOn
  <2>2. StreamFine(mp, call, pc[Sim], out[Sim], Live, input[Sender(s)], output[Receiver(Loop[s])], s)
    BY DEF UseInv, StreamsInv
  <2>3. Live' = Live
    BY DEF Live
  <2> QED BY <2>1, <2>2, <2>3, HeldFine
<1>6. StreamsInv'
  BY <1>5 DEF StreamsInv
<1> QED BY <1>1, <1>2, <1>3, <1>4, <1>6 DEF UseInv

\* At the end of the simulation, what it held is lost.
LEMMA EndStep ==
    ASSUME UseInv, EndOfSim
    PROVE  UseInv'
<1>1. /\ UNCHANGED <<mp, input, output, interface, reported, pc, out, access>>
      /\ call' = None /\ cosim_server' = "stopping" /\ pc[Sim] = "idle"
  BY DEF EndOfSim, mapVars
<1>2. AccessInv'
  BY <1>1 DEF UseInv, AccessInv
<1>3. ReportsIn'
  BY <1>1 DEF UseInv, ReportsIn
<1>4. SimInv'
  BY <1>1 DEF SimInv
<1>5. ASSUME NEW s \in DOMAIN Loop
      PROVE  StreamFine(mp, call', pc[Sim], out[Sim], Live', input[Sender(s)], output[Receiver(Loop[s])], s)
  <2>1. \A fl, ends : Holds(call', pc[Sim], out[Sim], s, fl, ends) <=> fl = <<>> /\ ends = FALSE
    BY <1>1, HoldsNothing
  <2>2. StreamFine(mp, call, pc[Sim], out[Sim], Live, input[Sender(s)], output[Receiver(Loop[s])], s)
    BY DEF UseInv, StreamsInv
  <2>3. ~Live'
    BY <1>1 DEF Live
  <2> DEFINE in == input[Sender(s)]  taken == output[Receiver(Loop[s])]
  <2> HIDE DEF in, taken
  <2>4. \E fl, ends : Delivers(mp, s, fl, ends, Live, in, taken)
    BY <2>2 DEF StreamFine, in, taken
  <2>5. Delivers(mp, s, <<>>, FALSE, Live', in, taken)
    BY <2>3, <2>4 DEF Delivers
  <2>6. StreamFine(mp, call', pc[Sim], out[Sim], Live', in, taken, s)
    BY <2>1, <2>5, NothingFine
  <2> QED BY <2>6 DEF in, taken
<1>6. StreamsInv'
  BY <1>1, <1>5 DEF StreamsInv
<1> QED BY <1>1, <1>2, <1>3, <1>4, <1>6 DEF UseInv

\* The call that follows: of a report and of a put, none; of a poll, the get when
\* there is something; of a get, the put of what it gave.
LEMMA FollowingCalls ==
    ASSUME NEW s \in DOMAIN Loop
    PROVE  /\ \A i, r : call = ReportCall(i) => Following(r) = None
           /\ \A r : call = PollCall(s) => Following(r) = IF r = 0 THEN GetCall(s) ELSE None
           /\ \A b, e : call = GetCall(s) /\ ~s.packet_based => Following(b) = PutCall(s, b, e)
           /\ \A v : call = GetCall(s) /\ s.packet_based /\ v.got /\ v.byte \in Byte /\ v.eop \in BOOLEAN
                        => Following(EncodePacketByte(v)) = PutCall(s, v.byte, v.eop)
           /\ \A b, e, r : call = PutCall(s, b, e) => Following(r) = None
<1>1. ASSUME NEW i, NEW r, call = ReportCall(i) PROVE Following(r) = None
  <2>1. call.name = "report_vvc_info"
    BY <1>1 DEF ReportCall
  <2> QED BY <2>1 DEF Following
<1>2. ASSUME NEW r, call = PollCall(s) PROVE Following(r) = IF r = 0 THEN GetCall(s) ELSE None
  <2>1. call = [name |-> IF s.packet_based THEN "transmit_packet_queue_empty" ELSE "transmit_byte_queue_empty",
                args |-> TargetArgs(s), target |-> s]
    BY <1>2 DEF PollCall
  <2>2. CASE s.packet_based
    <3>1. call = [name |-> "transmit_packet_queue_empty", args |-> TargetArgs(s), target |-> s]
      BY <2>1, <2>2
    <3>2. GetCall(s) = [name |-> "transmit_packet_queue_get", args |-> TargetArgs(s), target |-> s]
      BY <2>2 DEF GetCall
    <3> QED BY <3>1, <3>2 DEF Following
  <2>3. CASE ~s.packet_based
    <3>1. call = [name |-> "transmit_byte_queue_empty", args |-> TargetArgs(s), target |-> s]
      BY <2>1, <2>3
    <3>2. GetCall(s) = [name |-> "transmit_byte_queue_get", args |-> TargetArgs(s), target |-> s]
      BY <2>3 DEF GetCall
    <3> QED BY <3>1, <3>2 DEF Following
  <2> QED BY <2>2, <2>3
<1>3. ASSUME NEW b, NEW e, call = GetCall(s), ~s.packet_based PROVE Following(b) = PutCall(s, b, e)
  <2> DEFINE args == TargetArgs(Loop[s]) \o <<b>>
  <2>1. call = [name |-> "transmit_byte_queue_get", args |-> TargetArgs(s), target |-> s]
    BY <1>3 DEF GetCall
  <2>2. PutCall(s, b, e) = [name |-> "receive_byte_queue_put", args |-> args, target |-> s]
    BY <1>3 DEF PutCall
  <2>3. Following(b) = [call EXCEPT !.name = "receive_byte_queue_put", !.args = args]
    BY <2>1 DEF Following
  <2> HIDE DEF args
  <2> QED BY <2>1, <2>2, <2>3
<1>4. ASSUME NEW v, call = GetCall(s), s.packet_based, v.got, v.byte \in Byte, v.eop \in BOOLEAN
      PROVE  Following(EncodePacketByte(v)) = PutCall(s, v.byte, v.eop)
  <2> DEFINE data == EncodePacketByte(v)  d == DecodePacketByte(data)
             args == TargetArgs(Loop[s]) \o <<v.byte, AsInt(v.eop)>>
  <2>1. d.byte = v.byte /\ AsInt(d.eop) = AsInt(v.eop)
    <3>1. v.byte \in 0..255
      BY <1>4, OctetAssumption
    <3>2. CASE v.eop
      <4>1. data = v.byte + 256 /\ AsInt(v.eop) = 1
        BY <1>4, <3>1, <3>2 DEF EncodePacketByte, AsInt
      <4>2. data % 256 = v.byte /\ (data \div 256) % 2 = 1
        <5> HIDE DEF data
        <5> QED BY <3>1, <4>1
      <4>3. d.byte = v.byte /\ d.eop
        BY <4>2 DEF DecodePacketByte
      <4> QED BY <4>1, <4>3 DEF AsInt
    <3>3. CASE ~v.eop
      <4>1. data = v.byte /\ AsInt(v.eop) = 0
        BY <1>4, <3>1, <3>3 DEF EncodePacketByte, AsInt
      <4>2. data % 256 = v.byte /\ (data \div 256) % 2 = 0
        <5> HIDE DEF data
        <5> QED BY <3>1, <4>1
      <4>3. d.byte = v.byte /\ ~d.eop
        <5> DEFINE one == (data \div 256) % 2 = 1
        <5>1. d = [byte |-> data % 256, eop |-> one] /\ ~one
          BY <4>2 DEF DecodePacketByte
        <5> HIDE DEF d, data, one
        <5>2. d.byte = data % 256 /\ d.eop = one
          BY <5>1
        <5> QED BY <4>2, <5>1, <5>2
      <4> QED BY <4>1, <4>3 DEF AsInt
    <3> QED BY <3>2, <3>3
  <2>2. call = [name |-> "transmit_packet_queue_get", args |-> TargetArgs(s), target |-> s]
    BY <1>4 DEF GetCall
  <2>3. PutCall(s, v.byte, v.eop) = [name |-> "receive_packet_queue_put", args |-> args, target |-> s]
    BY <1>4 DEF PutCall
  <2>4. Following(data) = [call EXCEPT !.name = "receive_packet_queue_put",
                                       !.args = TargetArgs(Loop[call.target]) \o <<d.byte, AsInt(d.eop)>>]
    <3> HIDE DEF data
    <3> QED BY <2>2 DEF Following
  <2>5. TargetArgs(Loop[call.target]) \o <<d.byte, AsInt(d.eop)>> = args
    <3> HIDE DEF d
    <3> QED BY <2>1, <2>2
  <2> HIDE DEF args, data, d
  <2> QED BY <2>2, <2>3, <2>4, <2>5 DEF data
<1>5. ASSUME NEW b, NEW e, NEW r, call = PutCall(s, b, e) PROVE Following(r) = None
  <2>1. call.name \in {"receive_packet_queue_put", "receive_byte_queue_put"}
    BY <1>5 DEF PutCall
  <2> QED BY <2>1 DEF Following
<1> QED BY <1>1, <1>2, <1>3, <1>4, <1>5

\* A call returns: the simulator holds on to the byte that a get gave.
LEMMA ReturnStep ==
    ASSUME ServerInv, MapInv, UseInv, SimReturn
    PROVE  UseInv'
<1> DEFINE value == out[Sim].value  result == ForeignResult(call.name, value)
<1>1. /\ UNCHANGED <<mp, input, output, interface, cosim_server>>
      /\ pc[Sim] = "unlock" /\ call' = Following(result)
      /\ reported' = IF call.name = "report_vvc_info" THEN reported + 1 ELSE reported
      /\ pc' = [pc EXCEPT ![Sim] = "idle"] /\ access' = [access EXCEPT ![Sim] = None]
      /\ out' = [out EXCEPT ![Sim] = None]
  BY DEF SimReturn, Return
<1>2. /\ pc'[Sim] = "idle" /\ DOMAIN out' = Threads
      /\ \A t \in Workers : pc'[t] = pc[t] /\ access'[t] = access[t]
  BY <1>1, SimAssumption DEF MapInv, ServerInv, UseInv, Workers
<1>3. AccessInv'
  BY <1>1, <1>2 DEF UseInv, AccessInv
<1>4. reported \in Nat /\ Len(Reports) \in Nat /\ call # None
  BY <1>1, ReportsAssumption DEF ServerInv, TypeOK, CallsInv
<1>5. ASSUME \A s \in DOMAIN Loop : \A fl, ends :
                 Holds(call, pc[Sim], out[Sim], s, fl, ends) => Holds(call', pc'[Sim], out'[Sim], s, fl, ends)
      PROVE  StreamsInv'
  <2>1. ASSUME NEW s \in DOMAIN Loop
        PROVE  StreamFine(mp, call', pc'[Sim], out'[Sim], Live', input[Sender(s)], output[Receiver(Loop[s])], s)
    <3>1. StreamFine(mp, call, pc[Sim], out[Sim], Live, input[Sender(s)], output[Receiver(Loop[s])], s)
      BY DEF UseInv, StreamsInv
    <3>2. Live' = Live
      BY <1>1 DEF Live
    <3> QED BY <1>5, <3>1, <3>2, HeldFine
  <2> QED BY <1>1, <2>1 DEF StreamsInv
<1> HIDE DEF value, result
<1>6. ASSUME NEW i \in 1..Len(Reports), call = ReportCall(i), i = reported + 1
      PROVE  ReportsIn' /\ SimInv' /\ StreamsInv'
  <2>1. call.name = "report_vvc_info" /\ reported' = reported + 1
    BY <1>1, <1>6 DEF ReportCall
  <2>2. call' = None
    BY <1>1, <2>1 DEF Following
  <2>3. ReportsIn'
    <3>1. ASSUME NEW j \in 1..Len(Reports), j <= reported + 1 PROVE Reported(j).vvc \in DOMAIN mp
      <4>1. j <= reported \/ j = i
        BY <1>4, <1>6, <3>1
      <4> QED BY <1>1, <1>6, <4>1 DEF UseInv, ReportsIn
    <3> QED BY <1>1, <1>2, <2>1, <3>1 DEF ReportsIn
  <2>4. SimInv'
    BY <1>2, <2>2 DEF SimInv
  <2>5. \A s \in DOMAIN Loop : \A fl, ends :
           /\ Holds(call, pc[Sim], out[Sim], s, fl, ends) <=> fl = <<>> /\ ends = FALSE
           /\ Holds(call', pc'[Sim], out'[Sim], s, fl, ends) <=> fl = <<>> /\ ends = FALSE
    BY <1>6, <2>2, HoldsNothing
  <2> QED BY <1>5, <2>3, <2>4, <2>5
<1>7. ASSUME NEW s \in DOMAIN Loop, reported = Len(Reports), InPoll(s) \/ InGet(s) \/ InPut(s)
      PROVE  ReportsIn' /\ SimInv' /\ StreamsInv'
  <2>1. call.name # "report_vvc_info"
    <3>1. \E k \in {"poll", "get", "put"} : call.name = CallName(k, s)
      BY <1>7, CallFields DEF InPoll, InGet, InPut
    <3>2. \A k \in {"poll", "get", "put"} : CallName(k, s) # "report_vvc_info"
      BY DEF CallName
    <3> QED BY <3>1, <3>2
  <2>2. reported' = reported
    BY <1>1, <2>1
  <2>3. ReportsIn'
    BY <1>1, <1>2, <2>2 DEF UseInv, ReportsIn
  <2>4. CASE InPoll(s)
    <3>1. call = PollCall(s) /\ value \in BOOLEAN /\ (~value => Waiting(mp, s) # <<>>)
      BY <1>1, <2>4 DEF InPoll, value
    <3>2. result = AsInt(value)
      BY <3>1 DEF result, ForeignResult, PollCall
    <3>3. \/ call' = None
          \/ call' = GetCall(s) /\ Waiting(mp, s) # <<>>
      <4>1. Following(result) = IF result = 0 THEN GetCall(s) ELSE None
        BY <3>1, FollowingCalls
      <4>2. result = 0 => ~value
        BY <3>2 DEF AsInt
      <4> QED BY <1>1, <3>1, <4>1, <4>2
    <3>4. SimInv'
      BY <1>1, <1>2, <1>7, <2>2, <3>3 DEF SimInv, InGet
    <3>5. \A u \in DOMAIN Loop : \A fl, ends :
             /\ Holds(call, pc[Sim], out[Sim], u, fl, ends) <=> fl = <<>> /\ ends = FALSE
             /\ Holds(call', pc'[Sim], out'[Sim], u, fl, ends) <=> fl = <<>> /\ ends = FALSE
      BY <1>2, <3>1, <3>3, HoldsNothing
    <3> QED BY <1>5, <2>3, <3>4, <3>5
  <2>5. CASE InGet(s)
    <3>1. /\ call = GetCall(s) /\ value.byte \in Byte
          /\ s.packet_based => value.got /\ value.eop \in BOOLEAN
      BY <1>1, <2>5 DEF InGet, value
    <3>2. PICK e \in BOOLEAN : call' = PutCall(s, value.byte, e) /\ (s.packet_based => e = value.eop)
      <4>1. CASE s.packet_based
        <5>1. result = EncodePacketByte(value)
          BY <3>1, <4>1 DEF result, ForeignResult, GetCall
        <5>2. call' = PutCall(s, value.byte, value.eop)
          BY <1>1, <3>1, <4>1, <5>1, FollowingCalls
        <5> QED BY <3>1, <4>1, <5>2
      <4>2. CASE ~s.packet_based
        <5>1. result = value.byte
          BY <3>1, <4>2 DEF result, ForeignResult, GetCall
        <5>2. call' = PutCall(s, value.byte, TRUE)
          BY <1>1, <3>1, <4>2, <5>1, FollowingCalls
        <5> QED BY <4>2, <5>2
      <4> QED BY <4>1, <4>2
    <3>3. SimInv'
      <4>1. InPut(s)'
        BY <3>1, <3>2 DEF InPut
      <4>2. reported' = Len(Reports)
        BY <1>7, <2>2
      <4> QED BY <4>1, <4>2 DEF SimInv
    <3>4. ASSUME NEW u \in DOMAIN Loop
          PROVE  StreamFine(mp, call', pc'[Sim], out'[Sim], Live', input[Sender(u)], output[Receiver(Loop[u])], u)
      <4>1. Live' = Live
        BY <1>1 DEF Live
      <4>2. StreamFine(mp, call, pc[Sim], out[Sim], Live, input[Sender(u)], output[Receiver(Loop[u])], u)
        BY DEF UseInv, StreamsInv
      <4> DEFINE in == input[Sender(u)]  taken == output[Receiver(Loop[u])]
      <4> HIDE DEF in, taken
      <4>3. CASE u # s
        <5>1. \A fl, ends :
                 /\ Holds(call, pc[Sim], out[Sim], u, fl, ends) <=> fl = <<>> /\ ends = FALSE
                 /\ Holds(call', pc'[Sim], out'[Sim], u, fl, ends) <=> fl = <<>> /\ ends = FALSE
          BY <3>1, <3>2, <4>3, HoldsNothing
        <5> QED BY <4>1, <4>2, <5>1, HeldFine
      <4>4. CASE u = s
        <5>1. PICK fl, ends : /\ Holds(call, pc[Sim], out[Sim], s, fl, ends) /\ Held(s, fl, ends)
                              /\ Delivers(mp, s, fl, ends, Live, in, taken)
          BY <4>2, <4>4 DEF StreamFine, in, taken
        <5>2. fl = <<value.byte>> /\ ends = value.eop
          BY <1>1, <3>1, <5>1 DEF Holds, value
        <5>3. Holds(call', pc'[Sim], out'[Sim], s, fl, e)
          BY <1>2, <3>1, <3>2, <5>2 DEF Holds
        <5>4. Held(s, fl, e)
          BY <5>1 DEF Held
        <5>5. Delivers(mp, s, fl, e, Live, in, taken)
          <6>1. CASE s.packet_based
            BY <3>2, <5>1, <5>2, <6>1
          <6>2. CASE ~s.packet_based
            BY <5>1, <6>2, EndsNothing
          <6> QED BY <6>1, <6>2
        <5> QED BY <4>1, <4>4, <5>3, <5>4, <5>5 DEF StreamFine, in, taken
      <4> QED BY <4>3, <4>4
    <3>5. StreamsInv'
      BY <1>1, <3>4 DEF StreamsInv
    <3> QED BY <2>3, <3>3, <3>5
  <2>6. CASE InPut(s)
    <3>1. PICK b \in Byte, e \in BOOLEAN : call = PutCall(s, b, e)
      BY <2>6 DEF InPut
    <3>2. call' = None
      BY <1>1, <3>1, FollowingCalls
    <3>3. SimInv'
      BY <1>2, <3>2 DEF SimInv
    <3>4. \A u \in DOMAIN Loop : \A fl, ends :
             /\ Holds(call, pc[Sim], out[Sim], u, fl, ends) <=> fl = <<>> /\ ends = FALSE
             /\ Holds(call', pc'[Sim], out'[Sim], u, fl, ends) <=> fl = <<>> /\ ends = FALSE
      BY <1>1, <3>1, <3>2, HoldsNothing
    <3> QED BY <1>5, <2>3, <3>3, <3>4
  <2> QED BY <1>7, <2>4, <2>5, <2>6
<1>8. ReportsIn' /\ SimInv' /\ StreamsInv'
  BY <1>4, <1>6, <1>7 DEF UseInv, SimInv
<1> QED BY <1>1, <1>2, <1>3, <1>8 DEF UseInv

\* After the last report, both ends of a stream are in the map.
LEMMA EndsThere ==
    ASSUME UseInv, reported = Len(Reports), NEW s \in DOMAIN Loop
    PROVE  Sender(s) \in DOMAIN mp /\ Receiver(Loop[s]) \in DOMAIN mp
<1>1. ASSUME NEW v \in {Sender(s), Receiver(Loop[s])} PROVE v \in DOMAIN mp
  <2>1. PICK i \in 1..Len(Reports) : Reported(i).vvc = v
    BY LoopReported
  <2>2. i <= reported
    BY ReportsAssumption
  <2> QED BY <2>1, <2>2 DEF UseInv, ReportsIn
<1> QED BY <1>1

\* What a thread passes to shared_map is an access to the server's data.
RunsAccesses == \A m, a : Run(m, a) = Perform(m, a)

\* The access of the simulator's call is done.
LEMMA SimAccessStep ==
    ASSUME RunsAccesses, ServerInv, MapInv, UseInv, EndAccess(Sim)
    PROVE  UseInv' /\ UNCHANGED <<input, output>>
<1> DEFINE a == access[Sim]  r == Perform(mp, a)
<1>1. /\ UNCHANGED <<interface, cosim_server, reported, call>>
      /\ pc[Sim] = "write" /\ pc' = [pc EXCEPT ![Sim] = "unlock"] /\ UNCHANGED access
      /\ out' = [out EXCEPT ![Sim] = Run(seen[Sim], a)] /\ mp' = Run(seen[Sim], a).map
      /\ input' = IF ~Run(seen[Sim], a).throws /\ a.op \in {"byte_queue_put", "packet_queue_put_pkt"}
                       /\ a.qid = "TRANSMIT"
                  THEN [input EXCEPT ![a.vvc] = @ \o Entered(a)] ELSE input
      /\ output' = IF ~Run(seen[Sim], a).throws /\ a.op \in {"byte_queue_get_n", "packet_queue_get_pkt"}
                   THEN [output EXCEPT ![a.vvc] = @ \o Run(seen[Sim], a).value] ELSE output
  BY DEF EndAccess, Write
<1>2. Run(seen[Sim], a) = r
  BY <1>1, SimAssumption DEF RunsAccesses, MapInv, LockHeld
<1>3. mp' = r.map /\ out'[Sim] = r /\ DOMAIN out' = Threads /\ pc'[Sim] = "unlock"
      /\ \A t \in Workers : pc'[t] = pc[t]
  <2> HIDE DEF r
  <2> QED BY <1>1, <1>2, SimAssumption DEF UseInv, MapInv, Workers
<1>4. ~(a.op \in {"byte_queue_put", "packet_queue_put_pkt"} /\ a.qid = "TRANSMIT")
      /\ a.op \notin {"byte_queue_get_n", "packet_queue_get_pkt"} => UNCHANGED <<input, output>>
  BY <1>1
<1>5. call # None /\ Live /\ Live'
  BY <1>1 DEF ServerInv, CallsInv, Live
<1>6. AccessInv' /\ a = ServerAccess(call.name, Arguments(call))
  <2>1. a = ServerAccess(call.name, Arguments(call))
    BY <1>1 DEF UseInv, AccessInv
  <2>2. Arguments(call)' = Arguments(call)
    BY <1>1 DEF Arguments
  <2>3. access'[Sim] = ServerAccess(call'.name, Arguments(call)')
    <3> HIDE DEF r
    <3> QED BY <1>1, <2>1, <2>2
  <2>4. \A t \in Workers : pc'[t] # "idle" => access'[t] \in Requests
    BY <1>1, <1>3 DEF UseInv, AccessInv
  <2> QED BY <2>1, <2>3, <2>4 DEF AccessInv
<1>7. MapOK(mp) /\ Modes(mp)
  BY DEF UseInv
<1>8. \A s \in DOMAIN Loop :
        StreamFine(mp, call, "write", out[Sim], Live, input[Sender(s)], output[Receiver(Loop[s])], s)
  BY <1>1 DEF UseInv, StreamsInv
<1>9. SameVvcs(mp, r.map) => ReportsIn' \/ \E i \in 1..Len(Reports) : call = ReportCall(i)
  BY <1>1, <1>3 DEF UseInv, ReportsIn, SameVvcs
<1> HIDE DEF r, a
<1>10. ASSUME \A s \in DOMAIN Loop :
                 StreamFine(mp', call, "unlock", r, Live, input[Sender(s)], output[Receiver(Loop[s])], s),
              UNCHANGED <<input, output>>, MapOK(mp'), Modes(mp'), ReportsIn', SimInv'
       PROVE  UseInv'
  <2>1. Live' = Live
    BY <1>1 DEF Live
  <2>2. StreamsInv'
    BY <1>1, <1>3, <1>10, <2>1 DEF StreamsInv
  <2> QED BY <1>3, <1>6, <1>10, <2>2 DEF UseInv
<1>11. ASSUME NEW i \in 1..Len(Reports), call = ReportCall(i), i = reported + 1
       PROVE  UseInv' /\ UNCHANGED <<input, output>>
  <2>1. a = Reported(i)
    <3>1. call.name = "report_vvc_info"
      BY <1>11 DEF ReportCall
    <3> QED BY <1>6, <1>11, <3>1, ReportAccess
  <2>2. UNCHANGED <<input, output>>
    <3>1. a.op = "AddVvc"
      BY <2>1 DEF Reported, ServerAccess
    <3> QED BY <1>4, <3>1
  <2>3. /\ MapOK(r.map) /\ Modes(r.map)
        /\ DOMAIN mp \cup {Reported(i).vvc} \subseteq DOMAIN r.map
        /\ \A u \in DOMAIN Loop : SameStream(mp, r.map, u)
    BY <1>7, <2>1, VvcReported DEF r
  <2>4. ReportsIn'
    BY <1>1, <1>3, <1>11, <2>3 DEF UseInv, ReportsIn
  <2>5. SimInv'
    BY <1>1, <1>11 DEF SimInv
  <2>6. \A s \in DOMAIN Loop : \A fl, ends :
           /\ Holds(call, "write", out[Sim], s, fl, ends) <=> fl = <<>> /\ ends = FALSE
           /\ Holds(call, "unlock", r, s, fl, ends) <=> fl = <<>> /\ ends = FALSE
    BY <1>11, HoldsNothing
  <2>7. ASSUME NEW s \in DOMAIN Loop
        PROVE  StreamFine(r.map, call, "unlock", r, Live, input[Sender(s)], output[Receiver(Loop[s])], s)
    <3>1. StreamFine(mp, call, "unlock", r, Live, input[Sender(s)], output[Receiver(Loop[s])], s)
      BY <1>8, <2>6, HeldFine
    <3> QED BY <2>3, <3>1, SameFine
  <2> QED BY <1>3, <1>10, <2>2, <2>3, <2>4, <2>5, <2>7
<1>12. ASSUME NEW s \in DOMAIN Loop, reported = Len(Reports), InPoll(s) \/ InGet(s) \/ InPut(s)
       PROVE  UseInv' /\ UNCHANGED <<input, output>>
  <2>1. Sender(s) \in DOMAIN mp /\ Receiver(Loop[s]) \in DOMAIN mp
    BY <1>12, EndsThere
  <2>2. \A i : call # ReportCall(i)
    BY <1>12, CallsDiffer DEF InPoll, InGet, InPut
  <2>3. ASSUME SameVvcs(mp, r.map) PROVE MapOK(mp') /\ Modes(mp') /\ ReportsIn'
    BY <1>3, <1>7, <1>9, <2>2, <2>3, SameModes
  <2>4. CASE InPoll(s)
    <3>1. call = PollCall(s) /\ a = PollAccess(s)
      BY <1>6, <2>4, CallAccess DEF InPoll
    <3>2. UNCHANGED <<input, output>>
      <4>1. a.op \in {"packet_queue_empty", "byte_queue_empty"}
        BY <3>1 DEF PollAccess
      <4> QED BY <1>4, <4>1
    <3>3. /\ SameVvcs(mp, r.map) /\ \A u \in DOMAIN Loop : SameStream(mp, r.map, u)
          /\ r.value \in BOOLEAN /\ (~r.value => Waiting(r.map, s) # <<>>)
      BY <1>7, <2>1, <3>1, Polled DEF r
    <3>4. SimInv'
      <4>1. InPoll(s)'
        BY <1>1, <1>3, <3>1, <3>3 DEF InPoll
      <4> QED BY <1>1, <1>12, <4>1 DEF SimInv
    <3>5. \A u \in DOMAIN Loop : \A fl, ends :
             /\ Holds(call, "write", out[Sim], u, fl, ends) <=> fl = <<>> /\ ends = FALSE
             /\ Holds(call, "unlock", r, u, fl, ends) <=> fl = <<>> /\ ends = FALSE
      BY <3>1, HoldsNothing
    <3>6. ASSUME NEW u \in DOMAIN Loop
          PROVE  StreamFine(r.map, call, "unlock", r, Live, input[Sender(u)], output[Receiver(Loop[u])], u)
      <4>1. StreamFine(mp, call, "unlock", r, Live, input[Sender(u)], output[Receiver(Loop[u])], u)
        BY <1>8, <3>5, HeldFine
      <4> QED BY <3>3, <4>1, SameFine
    <3> QED BY <1>3, <1>10, <2>3, <3>2, <3>3, <3>4, <3>6
  <2>5. CASE InGet(s)
    <3>1. call = GetCall(s) /\ a = GetAccess(s) /\ Waiting(mp, s) # <<>>
      BY <1>1, <1>6, <2>5, CallAccess DEF InGet
    <3>2. UNCHANGED <<input, output>>
      <4>1. a.op \in {"packet_queue_get_byte", "byte_queue_get"}
        BY <3>1 DEF GetAccess
      <4> QED BY <1>4, <4>1
    <3>3. /\ SameVvcs(mp, r.map)
          /\ \A u \in DOMAIN Loop : u # s => SameStream(mp, r.map, u)
          /\ r.value.byte \in Byte
          /\ s.packet_based => r.value.got /\ r.value.eop \in BOOLEAN
          /\ Arrived(r.map, s) = Arrived(mp, s)
          /\ RestOf(r.map, s, <<r.value.byte>>, r.value.eop) = RestOf(mp, s, <<>>, FALSE)
          /\ BegunIn(r.map, s, <<r.value.byte>>, r.value.eop)
      BY <1>7, <2>1, <3>1, ByteGotten DEF r
    <3>4. SimInv'
      <4>1. InGet(s)'
        BY <1>1, <1>3, <3>1, <3>3 DEF InGet
      <4> QED BY <1>1, <1>12, <4>1 DEF SimInv
    <3>5. ASSUME NEW u \in DOMAIN Loop
          PROVE  StreamFine(r.map, call, "unlock", r, Live, input[Sender(u)], output[Receiver(Loop[u])], u)
      <4> DEFINE in == input[Sender(u)]  taken == output[Receiver(Loop[u])]
      <4>1. StreamFine(mp, call, "write", out[Sim], Live, in, taken, u)
        BY <1>8
      <4> HIDE DEF in, taken
      <4>2. \A fl, ends : Holds(call, "write", out[Sim], u, fl, ends) <=> fl = <<>> /\ ends = FALSE
        BY <3>1, HoldsNothing
      <4>3. CASE u # s
        <5>1. \A fl, ends : Holds(call, "unlock", r, u, fl, ends) <=> fl = <<>> /\ ends = FALSE
          BY <3>1, <4>3, HoldsNothing
        <5>2. StreamFine(mp, call, "unlock", r, Live, in, taken, u)
          BY <4>1, <4>2, <5>1, HeldFine
        <5>3. StreamFine(r.map, call, "unlock", r, Live, in, taken, u)
          BY <3>3, <4>3, <5>2, SameFine
        <5> QED BY <5>3 DEF in, taken
      <4>4. CASE u = s
        <5> DEFINE fl == <<r.value.byte>>  ends == r.value.eop
        <5>1. Delivers(mp, s, <<>>, FALSE, Live, in, taken)
          BY <4>1, <4>2, <4>4, NothingFine
        <5>2. Holds(call, "unlock", r, s, fl, ends)
          BY <3>1 DEF Holds
        <5>3. Held(s, fl, ends)
          BY <3>3 DEF Held, Bytes
        <5>4. /\ Arrived(r.map, s) = Arrived(mp, s)
              /\ RestOf(r.map, s, fl, ends) = RestOf(mp, s, <<>>, FALSE)
              /\ BegunIn(r.map, s, fl, ends)
          BY <3>3
        <5> HIDE DEF fl, ends
        <5>5. Delivers(r.map, s, fl, ends, Live, in, taken)
          BY <1>5, <5>1, <5>4, HoldDelivers
        <5>6. StreamFine(r.map, call, "unlock", r, Live, in, taken, s)
          BY <5>2, <5>3, <5>5 DEF StreamFine
        <5> QED BY <4>4, <5>6 DEF in, taken
      <4> QED BY <4>3, <4>4
    <3> QED BY <1>3, <1>10, <2>3, <3>2, <3>3, <3>4, <3>5
  <2>6. CASE InPut(s)
    <3>0. \E b \in Byte, e \in BOOLEAN :
             /\ call = PutCall(s, b, e)
             /\ Delivers(mp, s, <<b>>, e, Live, input[Sender(s)], output[Receiver(Loop[s])])
      <4> DEFINE in == input[Sender(s)]  taken == output[Receiver(Loop[s])]
      <4>1. StreamFine(mp, call, "write", out[Sim], Live, in, taken, s)
        BY <1>8
      <4> HIDE DEF in, taken
      <4>2. PICK fl, ends : /\ Holds(call, "write", out[Sim], s, fl, ends)
                            /\ Delivers(mp, s, fl, ends, Live, in, taken)
        BY <4>1 DEF StreamFine
      <4>3. PICK b \in Byte, e \in BOOLEAN : call = PutCall(s, b, e) /\ fl = <<b>> /\ ends = e
        BY <2>6, <4>2 DEF Holds, InPut
      <4>4. Delivers(mp, s, <<b>>, e, Live, in, taken)
        BY <4>2, <4>3
      <4> QED BY <4>3, <4>4 DEF in, taken
    <3>1. PICK b \in Byte, e \in BOOLEAN :
             /\ call = PutCall(s, b, e)
             /\ Delivers(mp, s, <<b>>, e, Live, input[Sender(s)], output[Receiver(Loop[s])])
      BY <3>0
    <3>2. a = PutAccess(s, b, e)
      BY <1>6, <3>1, CallAccess
    <3>3. UNCHANGED <<input, output>>
      <4>1. a.op = "packet_queue_put_byte" \/ (a.op = "byte_queue_put" /\ a.qid = "RECEIVE")
        BY <3>2 DEF PutAccess
      <4> QED BY <1>4, <4>1
    <3>4. /\ SameVvcs(mp, r.map)
          /\ \A u \in DOMAIN Loop : u # s => SameStream(mp, r.map, u)
          /\ \E x \in Items(s) : /\ Arrived(r.map, s) = Arrived(mp, s) \o x
                                 /\ RestOf(mp, s, <<b>>, e) = x \o RestOf(r.map, s, <<>>, FALSE)
          /\ BegunIn(r.map, s, <<>>, FALSE)
      <4>1. BegunIn(mp, s, <<b>>, e)
        BY <1>5, <3>1 DEF Delivers
      <4> QED BY <1>7, <2>1, <3>2, <4>1, BytePut DEF r
    <3>5. SimInv'
      <4>1. InPut(s)'
        BY <1>1, <3>1 DEF InPut
      <4> QED BY <1>1, <1>12, <4>1 DEF SimInv
    <3>6. ASSUME NEW u \in DOMAIN Loop
          PROVE  StreamFine(r.map, call, "unlock", r, Live, input[Sender(u)], output[Receiver(Loop[u])], u)
      <4> DEFINE in == input[Sender(u)]  taken == output[Receiver(Loop[u])]
      <4>0. \A fl, ends : Holds(call, "unlock", r, u, fl, ends) <=> fl = <<>> /\ ends = FALSE
        BY <3>1, HoldsNothing
      <4>1. StreamFine(mp, call, "write", out[Sim], Live, in, taken, u)
        BY <1>8
      <4>2. u = s => Delivers(mp, s, <<b>>, e, Live, in, taken)
        BY <3>1
      <4> HIDE DEF in, taken
      <4>3. CASE u # s
        <5>1. \A fl, ends : Holds(call, "write", out[Sim], u, fl, ends) <=> fl = <<>> /\ ends = FALSE
          BY <3>1, <4>3, HoldsNothing
        <5>2. StreamFine(mp, call, "unlock", r, Live, in, taken, u)
          BY <4>0, <4>1, <5>1, HeldFine
        <5>3. StreamFine(r.map, call, "unlock", r, Live, in, taken, u)
          BY <3>4, <4>3, <5>2, SameFine
        <5> QED BY <5>3 DEF in, taken
      <4>4. CASE u = s
        <5>1. MapOK(r.map)
          BY <3>4 DEF SameVvcs
        <5>2. PICK x \in Items(s) : /\ Arrived(r.map, s) = Arrived(mp, s) \o x
                                    /\ RestOf(mp, s, <<b>>, e) = x \o RestOf(r.map, s, <<>>, FALSE)
          BY <3>4
        <5>3. Delivers(r.map, s, <<>>, FALSE, Live, in, taken)
          BY <1>5, <1>7, <3>4, <4>2, <4>4, <5>1, <5>2, HandOnDelivers
        <5>4. StreamFine(r.map, call, "unlock", r, Live, in, taken, u)
          BY <4>0, <4>4, <5>3, NothingFine
        <5> QED BY <5>4 DEF in, taken
      <4> QED BY <4>3, <4>4
    <3> QED BY <1>3, <1>10, <2>3, <3>3, <3>4, <3>5, <3>6
  <2> QED BY <1>12, <2>4, <2>5, <2>6
<1> QED BY <1>5, <1>11, <1>12 DEF UseInv, SimInv

\* What waits to be transmitted, waits until the simulator takes it.
LEMMA StaysThere ==
    ASSUME NEW m, MapOK(m), Modes(m), NEW a, ClientAccess(a), NEW s \in DOMAIN Loop,
           Waiting(m, s) # <<>>
    PROVE  Waiting(Perform(m, a).map, s) # <<>>
<1> DEFINE n == Perform(m, a).map
<1>1. (\E x : PutBehind(m, n, s, x)) \/ Waiting(n, s) = Waiting(m, s)
  BY ClientAccesses DEF TakenAway, SameStream
<1> HIDE DEF n
<1>2. ASSUME NEW x, PutBehind(m, n, s, x) PROVE Waiting(n, s) # <<>>
  <2>1. Waiting(m, s) \in Seq(Item(s)) /\ x \in Seq(Item(s)) /\ Waiting(n, s) = Waiting(m, s) \o x
    BY <1>2, StreamTyped, ItemsAreSeqs DEF PutBehind
  <2>2. Len(Waiting(n, s)) = Len(Waiting(m, s)) + Len(x)
    BY <2>1, ConcatProperties
  <2>3. Len(Waiting(m, s)) \in Nat \ {0} /\ Len(x) \in Nat
    BY <2>1, EmptySeq, LenProperties
  <2> QED BY <2>2, <2>3
<1> QED BY <1>1, <1>2 DEF n

\* The access of a request is done: the streams step as their specification has it.
LEMMA WorkerAccessStep ==
    ASSUME RunsAccesses, ServerInv, MapInv, UseInv, NEW t \in Workers, EndAccess(t)
    PROVE  UseInv' /\ [EndToEnd!Next]_(EndToEnd!vars)
<1> DEFINE a == access[t]  r == Perform(mp, a)
           put(s) == ~r.throws /\ a.op \in Puts /\ Sender(s) = a.vvc
           got(s) == ~r.throws /\ a.op \in Gets /\ Receiver(Loop[s]) = a.vvc
<1>1. /\ UNCHANGED <<interface, cosim_server, reported, call>>
      /\ pc[t] = "write" /\ pc' = [pc EXCEPT ![t] = "unlock"] /\ UNCHANGED access
      /\ out' = [out EXCEPT ![t] = Run(seen[t], a)] /\ mp' = Run(seen[t], a).map
      /\ input' = IF ~Run(seen[t], a).throws /\ a.op \in Puts /\ a.qid = "TRANSMIT"
                  THEN [input EXCEPT ![a.vvc] = @ \o Entered(a)] ELSE input
      /\ output' = IF ~Run(seen[t], a).throws /\ a.op \in Gets
                   THEN [output EXCEPT ![a.vvc] = @ \o Run(seen[t], a).value] ELSE output
  BY DEF EndAccess, Write, Puts, Gets
<1>2. t # Sim /\ t \in Threads /\ Run(seen[t], a) = r
  BY <1>1 DEF RunsAccesses, MapInv, LockHeld, Workers
<1>3. ClientAccess(a)
  BY <1>1, RequestsAssumption DEF UseInv, AccessInv
<1>4. MapOK(mp) /\ Modes(mp) /\ DOMAIN out = Threads
      /\ DOMAIN input = {Sender(s) : s \in DOMAIN Loop}
      /\ DOMAIN output = {Receiver(Loop[s]) : s \in DOMAIN Loop}
  BY DEF UseInv
<1>5. SameVvcs(mp, r.map) /\ (a.op \in Puts => a.qid = "TRANSMIT")
      /\ \A s \in DOMAIN Loop : Waiting(mp, s) # <<>> => Waiting(r.map, s) # <<>>
  BY <1>3, <1>4, ClientAccesses, StaysThere
<1> HIDE DEF r, a
<1>6. /\ mp' = r.map /\ DOMAIN out' = Threads
      /\ UNCHANGED <<pc[Sim], out[Sim], access[Sim]>>
      /\ \A u \in Workers : pc'[u] # "idle" => access'[u] \in Requests
  BY <1>1, <1>2, <1>4 DEF UseInv, AccessInv
<1>7. /\ DOMAIN input' = DOMAIN input /\ DOMAIN output' = DOMAIN output
      /\ \A s \in DOMAIN Loop :
           /\ input'[Sender(s)] = IF put(s) THEN input[Sender(s)] \o Entered(a) ELSE input[Sender(s)]
           /\ output'[Receiver(Loop[s])] = IF got(s) THEN output[Receiver(Loop[s])] \o r.value
                                                     ELSE output[Receiver(Loop[s])]
  BY <1>1, <1>2, <1>4, <1>5
<1>8. ASSUME NEW s \in DOMAIN Loop
      PROVE  LET in == input[Sender(s)]  taken == output[Receiver(Loop[s])]
             IN  /\ StreamFine(mp', call', pc'[Sim], out'[Sim], Live',
                               input'[Sender(s)], output'[Receiver(Loop[s])], s)
                 /\ input'[Sender(s)] = in \/ EndToEnd!Extends(input'[Sender(s)], in)
                 /\ TakesNext(in, taken, output'[Receiver(Loop[s])])
  <2> DEFINE in == input[Sender(s)]  taken == output[Receiver(Loop[s])]
             in2 == input'[Sender(s)]  taken2 == output'[Receiver(Loop[s])]
  <2>1. StreamFine(mp, call, pc[Sim], out[Sim], Live, in, taken, s)
    BY DEF UseInv, StreamsInv
  <2>2. /\ in2 = IF put(s) THEN in \o Entered(a) ELSE in
        /\ taken2 = IF got(s) THEN taken \o r.value ELSE taken
    BY <1>7
  <2>3. Live' = Live
    BY <1>1 DEF Live
  <2> HIDE DEF in, taken, in2, taken2
  <2> DEFINE live == Live  p == pc[Sim]  o == out[Sim]
  <2>0. StreamFine(mp, call, p, o, live, in, taken, s)
    BY <2>1
  <2> HIDE DEF live, p, o
  <2>4. /\ StreamFine(Perform(mp, a).map, call, p, o, live, in2, taken2, s)
        /\ in2 = in \/ EndToEnd!Extends(in2, in)
        /\ TakesNext(in, taken, taken2)
    <3>1. LET result == Perform(mp, a)
          IN  /\ in2 = IF ~result.throws /\ a.op \in Puts /\ Sender(s) = a.vvc
                       THEN in \o Entered(a) ELSE in
              /\ taken2 = IF ~result.throws /\ a.op \in Gets /\ Receiver(Loop[s]) = a.vvc
                          THEN taken \o result.value ELSE taken
      BY <2>2 DEF r
    <3>2. MapOK(mp) /\ Modes(mp) /\ s \in DOMAIN Loop
      BY <1>4
    <3> QED BY ONLY <1>3, <2>0, <3>1, <3>2, ClientFine, Zenon
  <2>5. StreamFine(mp', call', pc'[Sim], out'[Sim], Live', in2, taken2, s)
    BY <1>1, <1>6, <2>3, <2>4 DEF r, live, p, o
  <2> QED BY <2>4, <2>5 DEF in, taken, in2, taken2
<1>9. UseInv'
  <2>1. AccessInv'
    BY <1>1, <1>6 DEF UseInv, AccessInv, Arguments
  <2>2. MapOK(mp') /\ Modes(mp') /\ DOMAIN mp' = DOMAIN mp
    BY <1>4, <1>5, <1>6, SameModes
  <2>3. ReportsIn'
    BY <1>1, <1>6, <2>2 DEF UseInv, ReportsIn
  <2>4. SimInv'
    <3>1. ASSUME NEW s \in DOMAIN Loop, InPoll(s) \/ InGet(s) \/ InPut(s)
          PROVE  InPoll(s)' \/ InGet(s)' \/ InPut(s)'
      BY <1>1, <1>5, <1>6, <3>1 DEF InPoll, InGet, InPut
    <3> QED BY <1>1, <1>6, <3>1 DEF UseInv, SimInv
  <2>5. StreamsInv'
    BY <1>8 DEF StreamsInv
  <2> QED BY <1>4, <1>6, <1>7, <2>1, <2>2, <2>3, <2>4, <2>5 DEF UseInv
<1>10. [EndToEnd!Next]_(EndToEnd!vars)
  <2> DEFINE I == [s \in DOMAIN Loop |-> input[Sender(s)]]
             I2 == [s \in DOMAIN Loop |-> input'[Sender(s)]]
             O == [s \in DOMAIN Loop |-> output[Receiver(Loop[s])]]
             O2 == [s \in DOMAIN Loop |-> output'[Receiver(Loop[s])]]
  <2>1. a.op \in Puts => a.op \notin Gets
    BY DEF Puts, Gets
  <2>2. CASE \E s \in DOMAIN Loop : put(s) /\ input'[Sender(s)] # input[Sender(s)]
    <3>1. PICK s \in DOMAIN Loop : put(s) /\ input'[Sender(s)] # input[Sender(s)]
      BY <2>2
    <3>2. \A u \in DOMAIN Loop : u # s => input'[Sender(u)] = input[Sender(u)]
      BY <1>7, <3>1, OneStream
    <3>3. O2 = O
      BY <1>7, <2>1, <3>1
    <3>4. EndToEnd!Extends(I2[s], I[s])
      BY <1>8, <3>1
    <3>5. I2 = [I EXCEPT ![s] = I2[s]]
      BY <3>2
    <3> QED BY <3>3, <3>4, <3>5 DEF EndToEnd!Next, EndToEnd!Enter
  <2>3. CASE \E s \in DOMAIN Loop : got(s) /\ output'[Receiver(Loop[s])] # output[Receiver(Loop[s])]
    <3>1. PICK s \in DOMAIN Loop : got(s) /\ output'[Receiver(Loop[s])] # output[Receiver(Loop[s])]
      BY <2>3
    <3>2. \A u \in DOMAIN Loop : u # s => output'[Receiver(Loop[u])] = output[Receiver(Loop[u])]
      BY <1>7, <3>1, OneStream
    <3>3. I2 = I
      BY <1>7, <2>1, <3>1
    <3>4. PICK k \in 1..(Len(I[s]) - Len(O[s])) : O2[s] = SubSeq(I[s], 1, Len(O[s]) + k)
      BY <1>8, <3>1 DEF TakesNext
    <3>5. O2 = [O EXCEPT ![s] = SubSeq(I[s], 1, Len(@) + k)]
      BY <3>2, <3>4
    <3> QED BY <3>3, <3>4, <3>5 DEF EndToEnd!Next, EndToEnd!LeaveSome, EndToEnd!Leave
  <2>4. CASE I2 = I /\ O2 = O
    BY <2>4 DEF EndToEnd!vars
  <2> QED BY <1>7, <2>2, <2>3, <2>4
<1> QED BY <1>9, <1>10

\* Every step keeps the streams as they should be, and is one of their steps.
LEMMA UseStep ==
    ASSUME RunsAccesses, ServerInv, MapInv, UseInv, [Next]_vars
    PROVE  UseInv' /\ [EndToEnd!Next]_(EndToEnd!vars)
<1>1. UNCHANGED <<input, output>> => [EndToEnd!Next]_(EndToEnd!vars)
  BY DEF EndToEnd!vars
<1>2. /\ pc \in [Threads -> PCs] /\ DOMAIN access = Threads /\ DOMAIN out = Threads
      /\ \A t \in Workers : t \in Threads /\ t # Sim
      /\ \A t \in Workers : pc[t] # "idle" => access[t] \in Requests
  BY DEF ServerInv, MapInv, UseInv, AccessInv, Workers
<1>3. UNCHANGED <<mp, input, output, interface, reported, call, pc, access, out>> /\ (Live' <=> Live)
        => UseInv'
  BY <1>2, OthersStep
<1>4. CASE UNCHANGED vars \/ StartOfSim \/ DeleteServer \/ Ended
  <2>1. UNCHANGED <<mp, input, output, interface, reported, call, pc, access, out>>
    BY <1>4 DEF vars, mapVars, driverVars, StartOfSim, DeleteServer, Ended
  <2>2. Live' <=> Live
    BY <1>4 DEF vars, mapVars, driverVars, StartOfSim, DeleteServer, Ended, Live
  <2> QED BY <1>1, <1>3, <2>1, <2>2
<1>5. CASE EndOfSim
  <2>1. UNCHANGED <<input, output>>
    BY <1>5 DEF EndOfSim
  <2> QED BY <1>1, <1>5, <2>1, EndStep
<1>6. CASE BeginCall
  <2>1. UNCHANGED <<input, output>>
    BY <1>6 DEF BeginCall
  <2> QED BY <1>1, <1>6, <2>1, BeginStep
<1>7. CASE MakeCall
  <2>1. /\ UNCHANGED <<mp, input, output, interface, reported, call, cosim_server>>
        /\ pc[Sim] = "idle" /\ call # None
        /\ pc' = [pc EXCEPT ![Sim] = "lock"] /\ out' = out
        /\ access' = [access EXCEPT ![Sim] = ServerAccess(call.name, Arguments(call))]
    BY <1>7 DEF MakeCall, Call, driverVars
  <2>2. /\ pc'[Sim] = "lock" /\ access'[Sim] = ServerAccess(call.name, Arguments(call))
        /\ \A t \in Workers : pc'[t] # "idle" => access'[t] \in Requests
    BY <1>2, <2>1, SimAssumption
  <2>3. UseInv'
    BY <1>2, <2>1, <2>2, BeforeStep
  <2> QED BY <1>1, <2>1, <2>3
<1>8. ASSUME NEW t \in Workers, Request(t)
      PROVE  UseInv' /\ [EndToEnd!Next]_(EndToEnd!vars)
  <2>1. PICK a \in Requests : Call(t, a)
    BY <1>8 DEF Request
  <2>2. /\ UNCHANGED <<mp, input, output, interface, reported, call, cosim_server, out>>
        /\ pc' = [pc EXCEPT ![t] = "lock"] /\ access' = [access EXCEPT ![t] = a]
    BY <1>8, <2>1 DEF Request, Call
  <2>3. /\ UNCHANGED <<pc[Sim], out[Sim], access[Sim]>> /\ DOMAIN out' = Threads
        /\ \A u \in Workers : pc'[u] # "idle" => access'[u] \in Requests
    BY <1>2, <2>2
  <2>4. Live' <=> Live
    BY <2>2 DEF Live
  <2>5. UseInv'
    BY <2>2, <2>3, <2>4, OthersStep
  <2> QED BY <1>1, <2>2, <2>5
<1>9. ASSUME NEW t \in Threads, Step(t)
      PROVE  UseInv' /\ [EndToEnd!Next]_(EndToEnd!vars)
  <2>1. CASE (Lock(t) \/ Read(t)) /\ UNCHANGED driverVars
    <3>1. /\ UNCHANGED <<mp, input, output, interface, reported, call, cosim_server, out, access>>
          /\ pc[t] \in {"lock", "read"}
          /\ \E p \in {"read", "write"} : pc' = [pc EXCEPT ![t] = p]
      BY <2>1 DEF Lock, Read, driverVars
    <3>2. \A u \in Workers : pc'[u] # "idle" => access'[u] \in Requests
      BY <1>2, <3>1
    <3>3. Live' <=> Live
      BY <3>1 DEF Live
    <3>4. CASE t = Sim
      <4>1. /\ pc[Sim] # "unlock" /\ pc'[Sim] # "unlock" /\ call # None
            /\ access'[Sim] = ServerAccess(call.name, Arguments(call))
        BY <1>2, <3>1, <3>4 DEF ServerInv, CallsInv, UseInv, AccessInv
      <4>2. UseInv'
        BY <1>2, <3>1, <3>2, <4>1, BeforeStep
      <4> QED BY <1>1, <3>1, <4>2
    <3>5. CASE t # Sim
      <4>1. UNCHANGED <<pc[Sim], out[Sim], access[Sim]>> /\ DOMAIN out' = Threads
        BY <1>2, <3>1, <3>5
      <4>2. UseInv'
        BY <3>1, <3>2, <3>3, <4>1, OthersStep
      <4> QED BY <1>1, <3>1, <4>2
    <3> QED BY <3>4, <3>5
  <2>2. CASE EndAccess(t)
    <3>1. CASE t = Sim
      BY <1>1, <2>2, <3>1, SimAccessStep
    <3>2. CASE t # Sim
      BY <2>2, <3>2, WorkerAccessStep DEF Workers
    <3> QED BY <3>1, <3>2
  <2>3. CASE t = Sim /\ SimReturn
    <3>1. UNCHANGED <<input, output>>
      BY <2>3 DEF SimReturn
    <3> QED BY <1>1, <2>3, <3>1, ReturnStep
  <2>4. CASE t # Sim /\ RequestReturn(t)
    <3>1. /\ UNCHANGED <<mp, input, output, interface, reported, call, cosim_server>>
          /\ pc' = [pc EXCEPT ![t] = "idle"]
          /\ access' = [access EXCEPT ![t] = None] /\ out' = [out EXCEPT ![t] = None]
      BY <2>4 DEF RequestReturn, Return, driverVars
    <3>2. /\ UNCHANGED <<pc[Sim], out[Sim], access[Sim]>> /\ DOMAIN out' = Threads
          /\ \A u \in Workers : pc'[u] # "idle" => access'[u] \in Requests
      BY <1>2, <2>4, <3>1
    <3>3. Live' <=> Live
      BY <3>1 DEF Live
    <3>4. UseInv'
      BY <3>1, <3>2, <3>3, OthersStep
    <3> QED BY <1>1, <3>1, <3>4
  <2> QED BY <1>9, <2>1, <2>2, <2>3, <2>4 DEF Step
<1> QED BY <1>4, <1>5, <1>6, <1>7, <1>8, <1>9 DEF Next

\* From client to client, each stream delivers the bytes or packets that were put
\* into it, in order, with none lost, changed or made up: through the queues of
\* the server, both foreign interfaces and their encodings, the design that loops
\* them, and the requests of other threads between any two of these steps.
THEOREM StreamsDeliveredEndToEnd ==
    ASSUME \A m, a : Run(m, a) = Perform(m, a)
    PROVE  Spec => DeliversEndToEnd
<1>1. Init => EndToEnd!Init
  <2> SUFFICES ASSUME Init PROVE EndToEnd!Init
    OBVIOUS
  <2>1. /\ input = [v \in {Sender(s) : s \in DOMAIN Loop} |-> <<>>]
        /\ output = [v \in {Receiver(Loop[s]) : s \in DOMAIN Loop} |-> <<>>]
    BY DEF Init
  <2>2. \A s \in DOMAIN Loop : input[Sender(s)] = <<>> /\ output[Receiver(Loop[s])] = <<>>
    BY <2>1
  <2> QED BY <2>2 DEF EndToEnd!Init
<1>2. Init => UseInv
  BY UseInit
<1>3. ServerInv /\ MapInv /\ UseInv /\ [Next]_vars => UseInv' /\ [EndToEnd!Next]_(EndToEnd!vars)
  BY UseStep DEF RunsAccesses
<1>4. Spec => []MapInv
  BY ServerUsesSharedMap, MapInvInit, MapInvNext, PTL DEF MapSpec
<1> QED
  BY <1>1, <1>2, <1>3, <1>4, ServerInvariant, PTL DEF Spec, DeliversEndToEnd, EndToEnd!Spec

=============================================================================
