---------------------------- MODULE VvcRegistryMC ----------------------------
(***************************************************************************)
(* A testbench with a clock generator VVC, which no controller serves, a   *)
(* UART VVC for each direction and two AXI-Stream VVCs.                    *)
(***************************************************************************)
EXTENDS VvcRegistry

MCByte == {0}

Named(name, channel, id) == [name |-> name, channel |-> <<channel>>, id |-> id]

\* Names are padded to a fixed length.
MCRegister == << Named(<<"CLOCK_GENERATOR_VVC">>, "NA", 1),
                 Named(<<"UART_VVC", Nul, Nul>>, "RX", 1),
                 Named(<<"UART_VVC", Nul, Nul>>, "TX", 0),
                 Named(<<"AXISTREAM_VVC", Nul>>, "NA", 0),
                 Named(<<"AXISTREAM_VVC", Nul>>, "NA", 1) >>

\* UART 0 has no receive channel.
MCTargets == {[vvc_type |-> UART_VVC, vvc_instance_id |-> 0],
              [vvc_type |-> UART_VVC, vvc_instance_id |-> 1],
              [vvc_type |-> AXISTREAM_VVC, vvc_instance_id |-> 1]}
=============================================================================
