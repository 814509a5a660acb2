---------------------------- MODULE ReceivePathMC ----------------------------
(***************************************************************************)
(* Small testbenches, requests and results for model checking ReceivePath. *)
(***************************************************************************)
EXTENDS ReceivePath

Target(type, id) == [type |-> type, id |-> id]
Vvc(type, channel, id) == [type |-> type, channel |-> channel, id |-> id]

Axis == Target("AXISTREAM_VVC", 0)
Packets == Target("AXISTREAM_VVC", 1)

AxisVvc == Vvc("AXISTREAM_VVC", "NA", 0)
PacketVvc == Vvc("AXISTREAM_VVC", "NA", 1)

OneAxis == {AxisVvc}
AxisTarget == {Axis}
MixedVvcs == {AxisVvc, PacketVvc}
MixedTargets == {Axis, Packets}
FramedPackets == {PacketVvc}
NoVvcs == {}

AllSizes == {-1, 0, 1, 2}
SomeSizes == {1, 2}

NoneOrTwo == {<<>>, <<0, 1>>}
=============================================================================
