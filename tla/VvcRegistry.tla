----------------------------- MODULE VvcRegistry -----------------------------
(***************************************************************************)
(* How the VVCs of a testbench become known to the server.  The testbench  *)
(* configures its BFMs and raises vvc_config_done; p_uvvm_cosim_init then  *)
(* walks UVVM's activity register, marks the instances the controllers     *)
(* serve and reports each VVC with its configuration as text.  From then   *)
(* on a controller reads the BFM configuration itself, on every cycle, and *)
(* the server the copy it parsed.  Clients list the VVCs and switch        *)
(* listening on and off at any time.                                       *)
(*                                                                         *)
(* Every access to the server's data is one step (CosimServer).            *)
(***************************************************************************)
EXTENDS ForeignInterface

CONSTANTS
    Register,    \* UVVM's activity register: a sequence of VVC instances
    Targets      \* the (type, id) pairs that clients name

\* What UVVM registers: an instance once, whatever its name is padded to; the
\* channels of a served VVC are those of its kind; and no VVC but the two served
\* has a name that begins with theirs, which strcmp would take for one of them.
ASSUME RegisterAssumption ==
    /\ Register \in Seq([name: Seq(STRING) \ {<<>>}, channel: Seq(STRING), id: Nat])
    /\ \A i, j \in DOMAIN Register :
          /\ get_string(Register[i].name) = get_string(Register[j].name)
          /\ Register[i].channel = Register[j].channel /\ Register[i].id = Register[j].id
          => i = j
    /\ \A i \in DOMAIN Register : \A c \in DOMAIN Register[i].channel :
          Register[i].channel[c] # Nul
    /\ \A i \in DOMAIN Register, type \in {UART_VVC, AXISTREAM_VVC} :
          strcmp(type, Register[i].name) =>
             /\ \A c \in Len(type) + 1..Len(Register[i].name) : Register[i].name[c] = Nul
             /\ Register[i].channel \in IF type = UART_VVC THEN {<<"TX">>, <<"RX">>}
                                                          ELSE {<<"NA">>}

ASSUME TargetsAssumption == Targets \subseteq [vvc_type: Seq(STRING), vvc_instance_id: Nat]

VARIABLES
    interface,              \* "VHPI" or "FLI", by the simulator
    check_packet_length,    \* the field of each AXI-Stream VVC's bfm_config
    vvc_config_done,
    idx,                    \* of the register, in p_uvvm_cosim_init
    indexes_in_use,         \* the instances marked for a controller
    init_done,
    vvc_map,                \* the data of the server
    asked,                  \* the last listen_enable accepted for each target
    list                    \* the answer to the last GetVvcList, and its time

vars == <<interface, check_packet_length, vvc_config_done, idx, indexes_in_use,
          init_done, vvc_map, asked, list>>

\* The AXI-Stream VVCs of the register, by their ids
AxisIds == {Register[i].id : i \in {j \in DOMAIN Register : strcmp(AXISTREAM_VVC, Register[j].name)}}

Init ==
    /\ interface \in {"VHPI", "FLI"}
    /\ check_packet_length \in [AxisIds -> BOOLEAN]
    /\ vvc_config_done = FALSE
    /\ idx = 1
    /\ indexes_in_use = {}
    /\ init_done = FALSE
    /\ vvc_map = <<>>
    /\ asked = [t \in Targets |-> FALSE]
    /\ list = [answer |-> {}, after_init |-> FALSE]

-----------------------------------------------------------------------------
\* Foreign calls, on the server's data of the moment

Arguments(call, args) == IF interface = "VHPI" THEN VhpiArguments(call, args)
                                               ELSE FliArguments(call, args)

ForeignCall(call, args) == Perform(vvc_map, ServerAccess(call, Arguments(call, args)))

-----------------------------------------------------------------------------
\* The testbench

Configure(id) ==
    /\ ~vvc_config_done
    /\ check_packet_length' = [check_packet_length EXCEPT ![id] = ~@]
    /\ UNCHANGED <<interface, vvc_config_done, idx, indexes_in_use, init_done,
                   vvc_map, asked, list>>

ConfigDone ==
    /\ ~vvc_config_done
    /\ vvc_config_done' = TRUE
    /\ UNCHANGED <<interface, check_packet_length, idx, indexes_in_use, init_done,
                   vvc_map, asked, list>>

-----------------------------------------------------------------------------
\* p_uvvm_cosim_init

\* Which BFM configuration is read for a VVC
BfmType(vvc) == CASE strcmp(UART_VVC, vvc.name) -> UART_VVC
                  [] strcmp(AXISTREAM_VVC, vvc.name) -> AXISTREAM_VVC
                  [] OTHER -> <<"VOID">>

Marks(vvc) ==
    IF BfmType(vvc) = UART_VVC
    THEN CASE vvc.channel = <<"TX">> -> {[controller |-> "uart_tx", id |-> vvc.id]}
           [] vvc.channel = <<"RX">> -> {[controller |-> "uart_rx", id |-> vvc.id]}
           [] OTHER -> {}
    ELSE IF BfmType(vvc) = AXISTREAM_VVC THEN {[controller |-> "axis", id |-> vvc.id]} ELSE {}

ReportArgs(vvc) ==
    <<vvc.name, vvc.channel, vvc.id,
      bfm_cfg_to_string(BfmType(vvc),
                        BfmType(vvc) = AXISTREAM_VVC /\ check_packet_length[vvc.id])>>

\* Mutant: the process does not wait for the end of the configuration.
ReportVvc_NoWait ==
    /\ idx \in DOMAIN Register
    /\ LET vvc == Register[idx]
           r   == ForeignCall("report_vvc_info", ReportArgs(vvc))
       IN  /\ ~r.throws
           /\ indexes_in_use' = indexes_in_use \cup Marks(vvc)
           /\ vvc_map' = r.map
    /\ idx' = idx + 1
    /\ UNCHANGED <<interface, check_packet_length, vvc_config_done, init_done, asked, list>>

\* Mutant: a VVC without a controller is not reported.
ReportVvc_OnlyServed ==
    /\ vvc_config_done
    /\ idx \in DOMAIN Register
    /\ LET vvc == Register[idx]
           r   == ForeignCall("report_vvc_info", ReportArgs(vvc))
       IN  /\ ~r.throws
           /\ indexes_in_use' = indexes_in_use \cup Marks(vvc)
           /\ vvc_map' = IF Marks(vvc) = {} THEN vvc_map ELSE r.map
    /\ idx' = idx + 1
    /\ UNCHANGED <<interface, check_packet_length, vvc_config_done, init_done, asked, list>>

\* One iteration of the loop; an exception from the call ends the simulation.
ReportVvc ==
    /\ vvc_config_done
    /\ idx \in DOMAIN Register
    /\ LET vvc == Register[idx]
           r   == ForeignCall("report_vvc_info", ReportArgs(vvc))
       IN  /\ ~r.throws
           /\ indexes_in_use' = indexes_in_use \cup Marks(vvc)
           /\ vvc_map' = r.map
    /\ idx' = idx + 1
    /\ UNCHANGED <<interface, check_packet_length, vvc_config_done, init_done, asked, list>>

\* Mutant: the last VVC of the register is left out.
InitDone_OneShort ==
    /\ vvc_config_done
    /\ idx >= Len(Register)
    /\ ~init_done
    /\ init_done' = TRUE
    /\ UNCHANGED <<interface, check_packet_length, vvc_config_done, idx, indexes_in_use,
                   vvc_map, asked, list>>

InitDone ==
    /\ vvc_config_done
    /\ idx > Len(Register)
    /\ ~init_done
    /\ init_done' = TRUE
    /\ UNCHANGED <<interface, check_packet_length, vvc_config_done, idx, indexes_in_use,
                   vvc_map, asked, list>>

-----------------------------------------------------------------------------
\* Clients

\* The answer is an error when the access throws.
SetVvcListenEnableRequest(t, enable) ==
    /\ LET r == SetVvcListenEnable(vvc_map, RxKey(t), enable)
       IN  /\ vvc_map' = r.map
           /\ asked' = IF r.throws THEN asked ELSE [asked EXCEPT ![t] = enable]
    /\ UNCHANGED <<interface, check_packet_length, vvc_config_done, idx,
                   indexes_in_use, init_done, list>>

\* to_json of a VvcInstance: the object a client gets
to_json(v) == [vvc_type |-> v.key.vvc_type, vvc_channel |-> v.key.vvc_channel,
               vvc_instance_id |-> v.key.vvc_instance_id,
               bfm_cfg |-> v.cfg.bfm_cfg, listen_enable |-> v.cfg.listen_enable]

\* from_json: the fields that are not in the object keep their defaults.
from_json(j) ==
    [key |-> VvcKey(j.vvc_type, j.vvc_channel, j.vvc_instance_id),
     cfg |-> [listen_enable |-> j.listen_enable, cosim_support |-> FALSE,
              packet_based |-> FALSE, bfm_cfg |-> j.bfm_cfg]]

GetVvcListRequest ==
    /\ list' = [answer     |-> {to_json(v) : v \in GetVvcList(vvc_map).value},
                after_init |-> init_done]
    /\ UNCHANGED <<interface, check_packet_length, vvc_config_done, idx,
                   indexes_in_use, init_done, vvc_map, asked>>

-----------------------------------------------------------------------------
Next ==
    \/ \E id \in AxisIds : Configure(id)
    \/ ConfigDone
    \/ ReportVvc
    \/ InitDone
    \/ \E t \in Targets, enable \in BOOLEAN : SetVvcListenEnableRequest(t, enable)
    \/ GetVvcListRequest

Spec == Init /\ [][Next]_vars

-----------------------------------------------------------------------------
\* Properties

\* Every variable has a value of its kind; the map holds what was reported.
TypeOK ==
    /\ interface \in {"VHPI", "FLI"}
    /\ check_packet_length \in [AxisIds -> BOOLEAN]
    /\ vvc_config_done \in BOOLEAN /\ init_done \in BOOLEAN
    /\ idx \in 1..Len(Register) + 1
    /\ Cardinality(DOMAIN vvc_map) = idx - 1
    /\ asked \in [Targets -> BOOLEAN]

\* The foreign calls of a controller that is in use, each on every cycle of its
\* clock: which queue an AXI-Stream controller asks for depends on the BFM
\* configuration it reads at that moment.
ControllerCalls(mark) ==
    CASE mark.controller = "uart_tx" -> {<<"transmit_byte_queue_empty", <<UART_VVC, mark.id>>>>}
      [] mark.controller = "uart_rx" -> {<<"vvc_listen_enable", <<UART_VVC, mark.id>>>>}
      [] mark.controller = "axis" ->
           {<<"vvc_listen_enable", <<AXISTREAM_VVC, mark.id>>>>,
            <<IF check_packet_length[mark.id] THEN "transmit_packet_queue_empty"
                                              ELSE "transmit_byte_queue_empty",
              <<AXISTREAM_VVC, mark.id>>>>}

\* No exception leaves a foreign call, where nothing would catch it: no VVC is
\* reported twice under one key, every instance a controller serves is found
\* under the key its calls build, and the server has the same idea as the
\* controller of whether it is packet based.
NoForeignException ==
    /\ vvc_config_done /\ idx \in DOMAIN Register
          => ~ForeignCall("report_vvc_info", ReportArgs(Register[idx])).throws
    /\ init_done => \A mark \in indexes_in_use : \A c \in ControllerCalls(mark) :
                       ~ForeignCall(c[1], c[2]).throws

\* A receive controller hears what clients asked for: the flag it polls is the
\* one of the last SetVvcListenEnable for its type and id that succeeded.
ListensAsAsked ==
    \A t \in Targets, mark \in indexes_in_use :
        /\ mark.id = t.vvc_instance_id
        /\ \/ mark.controller = "uart_rx" /\ t.vvc_type = UART_VVC
           \/ mark.controller = "axis" /\ t.vvc_type = AXISTREAM_VVC
        => LET r == ForeignCall("vvc_listen_enable", <<t.vvc_type, t.vvc_instance_id>>)
           IN  /\ ~r.throws
               /\ ForeignResult("vvc_listen_enable", r.value) = AsInt(asked[t])

\* The server has cosim_support for exactly the VVCs that a controller serves.
SupportedIffServed ==
    \A i \in 1..idx - 1 :
        LET key == VvcKey(get_string(Register[i].name), Register[i].channel, Register[i].id)
        IN  /\ key \in DOMAIN vvc_map
            /\ vvc_map[key].cfg.cosim_support <=> Marks(Register[i]) # {}
            /\ Marks(Register[i]) \subseteq indexes_in_use

\* "All detected VVCs are included in this list": a client that asks once the
\* initialization is done gets every VVC of the register.
ListsEveryVvc ==
    list.after_init =>
        {from_json(j).key : j \in list.answer} =
        {VvcKey(get_string(Register[i].name), Register[i].channel, Register[i].id) :
             i \in DOMAIN Register}

\* The list tells a client which VVCs co-simulation supports: the README shows
\* a cosim_support field for every VVC.
ListShowsSupport ==
    \A j \in list.answer :
        "cosim_support" \in DOMAIN j \/ "cosim_support" \in DOMAIN j.bfm_cfg
=============================================================================
