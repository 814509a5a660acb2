# Verification of uvvm_co-simulation

TLA+ models of the UVVM co-simulation library, model-checked with TLC on small
instances, and theorems about them proved with TLAPS for every instance.

The library lets programs outside a VHDL simulator talk to a design under test.
A shared library loaded into the simulator runs a JSON-RPC server; the VVCs
(verification components of UVVM) of the testbench send what clients ask it to
send, and what they receive is kept for clients. Two worlds meet in the queues
of the server: the threads of the HTTP server, and the simulator, a single
thread that runs VHDL processes which call foreign functions.

## The system

| Part | State | Operations | Source |
|:--|:--|:--|:--|
| Byte and packet queues | bytes; whole packets and one being assembled | put and get, of one byte, many, a packet | `byte_queue.hpp`, `packet_queue.hpp` |
| VVC map | a map from (type, channel, id) to configuration and four queues, behind one mutex | find, `AddVvc`, queue accesses, listen switch | `uvvm_cosim_data.*`, `shared_map.hpp`, `uvvm_cosim_types.hpp` |
| Configuration of a VVC | its text and what the server makes of it | `bfm_cfg_to_string`, `parse_bfm_cfg_str`, `to_json` | `uvvm_cosim_utils_pkg.vhd`, `uvvm_cosim_server.cpp`, `uvvm_cosim_types.hpp` |
| Procedures | none of their own | `TransmitBytes/Packet`, `ReceiveBytes/Packet`, `SetVvcListenEnable`, `GetVvcList`, `Start/Pause/TerminateSim` | `uvvm_cosim_server.*` |
| Foreign functions | the pointer to the server | the simulator's side of the queues and flags | `uvvm_cosim_common.cpp` and the VHPI and FLI wrappers |
| Controllers | per VVC instance: `p_transmit` with the command it gathers, `p_receive` with its outstanding command | poll at every clock edge | `uvvm_cosim_axis_vvc_ctrl.vhd`, `uvvm_cosim_uart_vvc_ctrl.vhd` |
| Init process | how far it is, the instances in use, `init_done` | report the VVCs, then hold or end the simulation | `uvvm_cosim.vhd` |
| UVVM and the simulator (external) | command queues and transactions of VVCs, the processes that are due | execute commands, advance time | |

How they interact. A client names a VVC by type and id; a procedure adds the
channel (`TX` or `RX` of a UART, `NA` else) and makes one or more locked
accesses to the map. The simulator's processes make their own accesses through
the foreign functions. A lock is held for one access, never between two, so the
threads interleave at every access. In the simulator processes do not interleave:
each runs to its next `wait`, and a foreign call that does not return, as
`start_sim` in a paused simulation, holds up all the others.

What is hard about it, and where:

- A decision in one access and its consequence in another: the size check of
  `ReceiveBytes` (`uvvm_cosim_server.cpp:324`), the empty check of the
  controllers (`uvvm_cosim_axis_vvc_ctrl.vhd:59`).
- Packets cross the foreign interface byte by byte, their framing carried by an
  end flag; commands hold a limited number of bytes, command queues a limited
  number of commands.
- Two flags, polled one after the other, steer the simulation, in a process that
  shares each clock edge with all controllers.
- What the testbench configured is read by the controllers directly and by the
  server from a string; where the two disagree, or keys do, an access throws, and
  nothing catches an exception in a foreign call.
- Requests must return whatever the simulator does; data must arrive if it runs;
  the server is deleted while requests may be in progress.

What makes each part correct is stated with the runs below.

## Modules

| Module | Models |
|:--|:--|
| `CosimQueues` | the two queue classes, as operators on their contents |
| `VvcMap` | keys of VVCs, lookup and registration, as the two paths see them |
| `ReliableStream` | abstract: what goes in at one end comes out at the other, in order and once |
| `TransmitPath` | requests to transmit, `p_transmit` of every VVC up to the command |
| `ReceiveService` | abstract: receive procedures that are one step each |
| `ReceivePath` | `p_receive`'s storing of results, receive procedures access by access |
| `ReceiveController` | the loops of `p_receive`, and the transactions of the VVC it watches |
| `SimControl` | flags, init process, edges and delta cycles, start and end of the simulation |
| `ServerData` | every access to the server's data, as an operator on the map |
| `ForeignInterface` | what crosses between VHDL and C++: names, configurations, bytes with flags |
| `VvcRegistry` | how VVCs become known to the server, the listen switch, the list |
| `AtomicMap` | abstract: an access to the map takes place at one instant |
| `SharedMap` | `shared_map`: the mutex, and an access as a read and a later write |
| `CosimServer` | the simulator thread and the workers in the server's data, the server's end |
| `StreamFacts` | lemmas about sequences |
| `TransmitPathProofs`, `ReceivePathProofs`, `ReceiveControllerProofs`, `SimControlProofs`, `SharedMapProofs`, `CosimServerProofs`, `VvcRegistryProofs` | theorems |
| `TransmitPathMC`, `ReceivePathMC`, `ReceiveControllerMC`, `SimControlMC`, `VvcRegistryMC`, `CosimServerMC` | small instances for TLC |

How they are composed. `TransmitPath` and `ReceivePath` are built from
`CosimQueues` and `VvcMap`; both implement `ReliableStream`, and `ReceivePath`
implements `ReceiveService`. `ReceiveController` is about one VVC, and says when
the results that `ReceivePath` stores come to be there; it implements
`ReliableStream` too. `SimControl` has its controllers in outline only: in a step
of its loop, one runs what the other two modules describe.

All these modules take an access to the server's data as one step. That this is
sound is the subject of `SharedMap`, which implements `AtomicMap`. `CosimServer`
puts `SharedMap`, `ServerData` and `ForeignInterface` together and has the whole
way of data from one client to another in it, in the finest grain.

Operators with a name like `CheckSize_NoCheck` that a comment calls a mutant are
wrong variants of the definition that follows them. No specification uses them.
They are there to show that the properties notice: with the variant in place of
the definition, the property that belongs to it fails.

### CosimQueues and VvcMap

A queue is a sequence of bytes, or a record of the packets and of the buffer
that `put_byte` fills. `GetByte` and `GetPacketByte` return a record with what
the program returns, whether the call throws, and the queue after it.
`TakeCount` is `get(N)` with its special case that 0 takes everything.

The map is represented by the set of keys registered. The mode of a VVC is fixed
when it is registered, and `get_byte_queue` and `get_packet_queue` throw for the
other mode: `HasByteQueue`, `HasPacketQueue`. A request for a VVC that is absent
or of the other mode is answered with an error and changes nothing.

### TransmitPath

| In the model | In the code |
|:--|:--|
| `byteTx`, `packetTx` | `byte_queues[QID_TRANSMIT]`, `packet_queues[QID_TRANSMIT]` |
| `buf` | `v_data(0 to v_byte_idx-1)` of `p_transmit` |
| `pending` | `vvc_status.pending_cmd_cnt`, of the commands of `p_transmit`: those of `p_receive` on the same AXI-Stream VVC are left out. The VVC is an instance of one direction and answers the other with an alert (`uvvm_cosim_axis_vvc_ctrl.vhd:35-43`) |
| `faults` | the error paths taken: a get from an empty queue, an exception, the alert about an unfinished packet |
| `accepted`, `sent` | history: what requests put on the queue, what commands carry |
| `Poll` | the loop condition, with its foreign call, and the loop's exits |
| `FetchByte`, `FetchPacketByte` | one foreign get and what follows it up to the next foreign call |
| `SendCommand` | `uart_transmit`, `axistream_transmit` |
| `VvcExecute` (external) | the VVC takes a command from its queue |

A step is one access of the server, with all that the process does before its
next one. The differences between the controllers are in the guards: a UART
command has one byte; an AXI-Stream one gathers bytes until the queue is empty,
the command full or the command queue at its limit; a packet is fetched to its
end once begun. The alert `TB_FAILURE` of an oversized packet stops most
testbenches; the model goes on as the code does if it is not fatal.

### ReceivePath

| In the model | In the code |
|:--|:--|
| `listen` | `cfg.listen_enable` |
| `pc`, `call` | the worker that executes a procedure, and its arguments |
| `armed` | `p_receive` has a receive command outstanding |
| `storing` | the rest of the result it puts byte by byte |
| `received`, `taken` | history: results fetched from the VVC, data taken for responses |
| `ReceiveBytes`, `CheckSize`, `GetBytes` | the three accesses of `ReceiveBytes` |
| `ReceivePacket`, `GetPacket` | the two of `ReceivePacket` |
| `SizeMod` | where `size_t` wraps, for the conversion of a negative `num_bytes` |

That a result arrives only for a command started while listening is all that is
kept here of `p_receive`'s watch of the VVC's transactions. In `AgreedSpec`
clients keep to one rule, `ExactAlone`: who asks for an exact length is the only
reader of that VVC until the request returns. Everything else may happen at once.

### ReceiveController

| In the model | In the code |
|:--|:--|
| `pc` | `clock`: at the clock edge of the outer loop; `sending`: in `axistream_receive` or `uart_receive`; `trigger`: waiting for the trigger; `seen`: resumed by it; `fetch`: in `fetch_result` |
| `cmdIdx`, `lastIdx` | `v_cmd_idx`, `get_last_received_cmd_idx` |
| the argument of `InnerLoop` | `v_start_new_transaction` |
| `commands`, `status`, `results` (external) | the VVC's command queue, `bt.transaction_status`, its result queue |
| `failed` | `fetch_result` was asked for a result that is not there |
| `produced`, `stored`, `late` | history: results with data, results put into the server's queue, and those since listening was disabled |

A step of `p_receive` goes from one of its waits, or calls that wait, to the
next; requests come between any two. A trigger wakes `p_receive` only at its
wait, and a process that was woken runs before the VVC goes on. The VVC is
assumed to give a trigger when a transaction begins and when it completes, to
have the result in its queue by then, to take at least a clock cycle to receive
something, and to get its receive commands from `p_receive` alone. Its transactions
have the three statuses that `p_receive` names; the alert for any other
(`uvvm_cosim_axis_vvc_ctrl.vhd:266-268`) is left out, as it changes nothing.
Results are known by the index of their command. The puts of a result and the poll
of the listen flag after it are one step: puts do not look at the flag, and a
request between the two is one before the step, which counts the result as late if
it disables listening. `ReceivePath` has a step for each put.

### SimControl

| In the model | In the code |
|:--|:--|
| `startSim`, `terminateSim` | the atomic flags |
| `init` | `p_uvvm_cosim_init`: `check` before `terminate_sim`, `edge` at its `wait`, `start` and `sleep` between the two flags `WaitForStartSim` reads |
| `ctrl` | a controller at its wait for `init_done`, for the first edge, or in its loop |
| `due` | processes an event has resumed and that have not run yet in this delta cycle |
| `server` | before `start_of_sim`, listening, after `end_of_sim` |
| `InitDoneEvent` | the change of `init_done`, perhaps in the delta cycle of an edge |
| `RisingEdge` | the next edge, possible only when no process is due or in a foreign call |

Histories: whether `StartSim` was ever called, which controllers have polled the
server, edges since the simulation was last started and since it was terminated.

### ServerData and ForeignInterface

Modules of operators, without state. In `ServerData` the operator of an access
has the name of the member function of `UvvmCosimData`; it takes the map and
returns whether it throws, the value and the map it leaves. `Perform` is the
function a thread passes to `shared_map`.

`ForeignInterface` follows a foreign call through the layers: `VhpiArguments` or
`FliArguments`, then `ServerAccess` (the methods of `UvvmCosimServer` the
simulator uses, with the keys they build), then `ForeignResult`, the integer that
VHDL gets. A string is a sequence of words with separators, and of NULs at its
end, so that `get_string`, `split_str` and `parse_bfm_cfg_str` are modelled by
what they do to it. `EncodePacketByte` and `DecodePacketByte` are the two ends of
the nine-bit number.

### VvcRegistry

| In the model | In the code |
|:--|:--|
| `Register` | `shared_vvc_activity_register`: names padded with NULs, channels, ids |
| `check_packet_length` | the field of each AXI-Stream VVC's `bfm_config`, which the testbench may change until it sets `vvc_config_done` |
| `idx`, `indexes_in_use`, `init_done` | the loop of `p_uvvm_cosim_init` and the signals it drives |
| `vvc_map` | `vvcInstanceMap` |
| `asked`, `list` | history: the last listen switch answered with success, the last list a client got |
| `ControllerCalls` | the foreign calls a controller in use makes in each of its cycles |

### SharedMap and CosimServer

| In the model | In the code |
|:--|:--|
| `mp`, `mtx` | the members of `shared_map` |
| `pc[t]` | thread `t` in `operator()`: waiting for the mutex, in `f` before and after it has read the map, about to unlock |
| `seen`, `out` | what `f` has read, what it returned or threw |
| `cosim_server` | the pointer: null, listening, in `StopListening`, deleted |
| `call` | the foreign call the simulator's thread makes or is in |
| `input`, `output` | history: what clients put to be transmitted, what clients took that was received |
| `Loop` | which VVC receives what a VVC transmits: the design under test |

`f` is split into a read of the whole map and a write of the whole map, which is
the worst that can happen to an update without a mutex. The simulator's thread
polls the transmit queues in any order and passes on what it gets; how the
controllers gather it is in `TransmitPath`. A request makes one access.

## What the runs check

| Run | Instance | States | Properties |
|:--|:--|--:|:--|
| `transmit_bytes` | a UART and an AXI-Stream VVC, payloads of 0 to 2 bytes of 2 values, 2-byte commands, 3 bytes accepted per VVC; fair | 32,759 | `BytesInOrder`, `GetFindsData`, `CommandQueueBounded`, `DeliversEverything` |
| `transmit_packets` | a packet VVC, a UART receiver and an absent VVC; packets of 0 to 3 bytes, 2-byte commands, 3 packets; fair | 2,164 | `TypeOK`, `PacketsInOrder`, `GetFindsData`, `CommandQueueBounded`, `FramingLostOnlyIfTooLong`, `PacketsGoOut` |
| `receive` | a byte VVC and a packet VVC, two workers, `num_bytes` from -1 to 2, with and without `exact_length`; fair | 71,846 | `TypeOK`, `BytesConserved`, `PacketsConserved`, `ExactLengthHonoured`, `ReceivesAtomically`, `ImplementsStream`, `RequestsReturn` |
| `controller_listening` | one VVC, 4 results, listening only enabled, fair | 307 | `FetchFindsResult`, `NoResultLeftBehind`, `ImplementsStream` |
| `controller_switching` | one VVC, 3 results, listening switched, fair | 14,890 | `NeverWaitsInVain`, `AtMostOneLate`, `ListenTakesEffect` |
| `sim_control` | two controllers, any requests, fair | 1,157 | `PauseStopsClock`, `TerminateStopsClock`, `NothingBeforeStart`, `TerminateEndsSimulation`, `StartResumes` |
| `vvc_registry` | a clock generator, a UART VVC for each direction, two AXI-Stream VVCs; VHPI and FLI | 1,216 | `TypeOK`, `NoForeignException`, `ListensAsAsked`, `SupportedIffServed`, `ListsEveryVvc` |
| `cosim_server` | the simulator and two workers, 4 requests; a UART stream and a packet stream, one request that throws; VHPI and FLI; fair | 271,258 | `TypeOK`, `LockHeld`, `NoUseAfterDelete`, `AccessesAtomic`, `DeliversEndToEnd`, `ShutdownCompletes` |

Transmit. What was accepted is what was sent, what is being gathered and what is
queued, in that order: nothing is lost, doubled or overtaken, however requests
fall between foreign calls (`BytesInOrder`, `PacketsInOrder`). A get never finds
its queue empty: the empty check and the get are two accesses, but `p_transmit`
is the only reader (`GetFindsData`). It matters because an empty get returns 0,
a byte like any other. Command queues and commands stay within their limits. The
framing of a packet is only lost when it does not fit into a command; a packet
that fits exactly passes. Everything accepted for a served VVC is sent if the
simulation runs, and an oversized packet does not hold up those behind it.

Receive. Bytes and packets are conserved for any interleaving of workers and
the simulator. The procedures with their two or three accesses are as good as
atomic ones (`ReceivesAtomically`), provided that who asks for an exact length
is alone: the simulator only adds to a queue, so a size that was enough stays
enough. Without that rule it is false, see below. A request that has begun
returns even if the simulator is paused for ever.

Watching the VVC. While listening is only enabled, `p_receive` fetches each
result once and under its own index, though it misses triggers: those given
while it sends a command or fetches a result. Its outcome is a reliable stream.
With listening switched at any time that is false, see below, but `p_receive`
never waits for a trigger that cannot come, delivers at most one result after
listening was disabled, and starts again when it is enabled.

Control. After `PauseSim`, or before the first `StartSim`, the clock rises once
at most; the same after `TerminateSim`, which ends a paused simulation too.
Before the first `StartSim` no controller asks for data, thanks to a wait of the
controllers whose comment gives another reason for it. A simulation that stays
started resumes every controller again and again.

Registration. No call of a controller throws (`NoForeignException`): its key is
one that was reported, and the mode it reads from the BFM configuration at each
cycle is the one the server parsed from a string once, as long as the testbench
keeps its configuration from `vvc_config_done` on. The listen flag a controller
polls is the one clients last set, also when they did so during registration.
`cosim_support` in the server is what the controllers really serve. The list a
client gets after initialization is complete.

Server. Accesses are atomic for their callers (`AccessesAtomic`), those that
throw too. Bytes at both ends of their range, and packets, get from client to
client unchanged, through two foreign calls, the encoded end flag and two locked
queues. No thread is in the server's data when it is deleted, and no request in
progress keeps the simulation from ending.

### Where the code and its documents disagree

- `receive_exact_race`: two workers with `exact_length` on one VVC both pass the
  check at `uvvm_cosim_server.cpp:324`; the second gets fewer bytes than
  `README.md:164` says. It takes an HTTP server that answers on several threads,
  as the one of json-rpc-cxx does.
- `transmit_unsupported`: `TransmitBytes` succeeds for any VVC without packets.
  For one the library does not serve, a clock generator say, the data stays in
  the queue, though the same paragraph says that it is gradually transmitted. A
  later section lists the VVCs that are supported (`README.md:275-279`); the
  procedure does not refuse the others.
- `controller_missed_result`: listening is disabled after `p_receive` sent a
  receive command and before the trigger for the beginning of its transaction.
  `p_receive` then leaves its inner loop with a command outstanding. The result
  of that command stays in the VVC, which a comment says must not happen
  (`uvvm_cosim_uart_vvc_ctrl.vhd:141`). If listening is enabled again before the
  command completes, it is worse: a second command is sent, and each completion
  is answered with a fetch for the index of a later command.
- `vvc_list`: the list of VVCs in `README.md:215-246` has a `cosim_support` field
  for each, by which a client tells the VVCs it can use (line 254). `AddVvc`
  takes `cosim_support` and `packet_based` out of the configuration, and `to_json`
  writes neither.

### Bounds

Histories grow with every request, so each module has one bound on what one VVC
may take in (`MaxAccepted`, `MaxReceived`), as a guard of the action that adds
to the history. Two or three items let every combination occur: something
already delivered, something on its way, something queued. Two byte values show
a change of order; with more than one item per command and commands of two
bytes, a command can be empty, part full, full, and exceeded. Two workers are
the smallest number that race, two controllers the smallest with an order at an
edge. `SizeMod` is 16, above every queue length and `num_bytes`, as 2^64 is
(`SizeAssumption`: `size_t` is wider than `int`). `SimControl` needs
no bound, nor does `VvcRegistry`: its register has a VVC of each kind, supported
and not, and two of one kind.

The limits of the code (32 commands, UVVM's threshold and command size) are
small constants in the runs and any positive number in the proofs.

`ReceiveController` is bounded by the number of commands that complete. Three
are enough to miss one, to be one command behind, and to go on from there.

`CosimServer` is bounded by `MaxRequests`: four are enough to put and take on both
streams, and for two workers and the simulator to be in `shared_map` together.

### Fairness

- `TransmitPath`: the simulator runs its processes, the clock ticks, VVCs execute
  commands. No client is obliged to call. This holds while the simulation runs;
  that it runs when it is started is the subject of `SimControl`.
- `ReceivePath`: the operating system runs the worker threads, and nothing else:
  the simulator may be paused.
- `ReceiveController`: the simulator runs `p_receive`, and the VVC begins the
  commands it has and gets ready for the next; data need never arrive.
- `SimControl`: the simulator starts, runs every process that is due, and ends
  when `std.env.stop` was called; the testbench sets `vvc_config_done` and keeps
  its clock running, which the instructions for users require. `WaitForStartSim`
  polls in a loop with a sleep, so it looks at the flags again and again.
- `CosimServer`: a thread in an access goes on, and `StopListening` returns when
  the workers are idle. Weak fairness is enough for the mutex there: nobody makes
  a new call while the server stops, so whoever waits for it waits for the threads
  before it. Nobody has to begin a request or end the simulation.

Deadlock is checked in all runs but `sim_control`, where the simulation ends; in
`CosimServer` its end is a step of its own (`Ended`).

## What is proved

All theorems hold for any values of the constants that satisfy the named
assumptions: any set of VVCs with UVVM's channels, any payloads, any positive
limits, any set of controllers, workers and requests.

Transmit path:

- `TypeCorrect`. The type of a packet queue has no empty packets, without which
  `get_byte` throws: `PutPacket` drops empty packets, and a packet is popped with
  its last byte.
- `GetAlwaysFindsData`, `CommandQueueNeverOverflows`. Neither is inductive. The
  invariant `Loops` says for each point of `p_transmit`'s loop what was seen on
  the way there: at a get the queue is not empty and the command queue is below
  its limit, a command about to be sent is not empty, and so on. Other threads
  preserve it because they only add to transmit queues (`LoopFrame`).
- `BytesStayInOrder`. Inductive given the types and `Loops`: a request appends
  to both sides of the equation, a fetch moves a byte from the third part to the
  second, a command moves the second part to the first. The lemmas `GrowBytes` and
  `MoveBytes` regroup the concatenation.
- `PacketsStayInOrder`. The same with packets, where the one being gathered is
  split between the command and the head of the queue. `UnsentPackets` joins them,
  and `FetchKeepsUnsent` shows that a fetch changes nothing in the whole.
- `AlertMeansTooLong`, from the former: what is gathered is part of the packet at
  its place in `accepted`, so a full command without an end of packet shows a
  packet there that is longer than a command, and stays there.
- `TransmitsImplementStream`, a refinement: the safety part of `DeliversEverything`,
  whose eventual delivery is only model-checked, where no packet is longer than a
  command (`PacketsFit`; without it the claim is false, and says nothing of VVCs
  without packets, whose requests may have any length). Only requests and commands
  change the histories (`StepOfHistories`). A request extends what was accepted
  (`MoreEnters`); a command carries what comes next in it, which is what
  `BytesInOrder` and `PacketsInOrder` say of what is gathered (`CommandLeaves`).
  That no alert was given follows from `AlertMeansTooLong` and `AllFit`.

Receive path:

- `ReceiveTypeCorrect`. Inductive with one addition, `OneResult`: `p_receive` has
  no command outstanding while it stores a result.
- `BytesAlwaysConserved`, `PacketsAlwaysConserved`. Received = taken, queued,
  and about to be stored. Inductive given the types; `TakeFacts` says that
  `get(N)` cuts a queue in two for any `N`, also a negative one that has become a
  large `size_t`.
- `ReceivesImplementStream`, a refinement: each step maps to a step of
  `ReliableStream` or to a stutter. Conservation gives that what was taken is the
  beginning of what was received, before and after the step (`StepOfStream`).
- `ReceivesAreAtomic`, `ExactLengthAlwaysHonoured`, for clients that keep to
  `ExactAlone` (`AgreedSpec`). The first is the refinement of `ReceiveService`: a
  procedure takes effect with its last access. Neither is inductive; the invariant
  `Requests` says for each worker that an idle one has no call, and that a request
  for an exact length that has passed the check still finds enough bytes. Other
  workers preserve it because they have calls for other VVCs, or none for a length,
  and the simulator because it only adds. `AgreedIsSpec` carries over what is
  known of `Spec`.

Watching the VVC:

- `WaitsForATriggerThatComes`. Inductive with the addition that a transaction
  that is not inactive has a command (`Waits`).
- `AtMostOneLateResult`. `LateInv`: storing a result with listening disabled takes
  `p_receive` back to the clock edge, and from there it does not come away.
- `FetchesItsResults`, `ResultIsThere`, for clients that only enable listening.
  `OneAtATime` describes `p_receive` and the VVC together at each point of the
  loop: one command is outstanding, or one and the predecessor that is being
  reset; its index is the one that was read; a result is there exactly when it is
  to be fetched.
- `ResultsAreAStream`, under the same assumption: the safety part of the refinement
  of `ReliableStream`. `StoresInOrder` says that what was stored is what the VVC
  produced, up to the one result that is still there; `OneAtATime` says whose.

Control:

- `PauseStopsTheClock`, `TerminateStopsTheClock`. `ClockInv`: once an edge was
  counted, the init process has seen it and is held in `start_sim`, or has been
  let go by `TerminateSim` and is on its way to its end; in neither case is it at
  its `wait`, where it must be for time to go on.
- `NothingHappensBeforeStart`. `FirstInv`: before the first `StartSim` and before
  the one edge, no controller is in its loop, and a controller that is due is
  there for `init_done`; the edge then finds all of them at the first wait at
  most. So none is resumed in its loop, whatever the order of the processes.

Registration, for any register of UVVM that satisfies `RegisterAssumption`, any
configuration and any targets:

- `TypeCorrect`, `AllVvcsListed`, and from the same invariant `NothingThrows`,
  `PollsWhatWasAsked` and `SupportsTheServed`. The properties look at the map
  through the text of a configuration, the padding of a name and a key; none is
  inductive. `RegistryInv` says what the map is: it holds the VVCs reported so far
  and no other (`MapAsReported`), each as it was reported but for its listen flag;
  the marks are those of the VVCs reported (`MarkedAsReported`); a report is made
  after the configuration is final (`ReportsInTime`); and what was asked for a
  target is the flag under the key it names (`AskedIsListening`).
- They rest on lemmas about the conversions: `get_string` takes the padding off,
  `split_str` finds the parts of the texts that `bfm_cfg_to_string` writes, and
  `parse_bfm_cfg_str` of such a text gives back the two options with their values.
  These are proved for the texts that are written, of one item or two.
- The assumptions are UVVM's: an instance is registered once, whatever its name is
  padded to; the served VVCs have the channels of their kind; no other VVC has a
  name that begins with theirs, as UVVM has none and `strcmp` would take it for
  them (`uvvm_cosim_utils_pkg.vhd:77`); NUL is in no word the
  server knows (`NulAssumption`).

Server:

- `LockAlwaysHeld`, `SharedMapIsAtomic`, for any threads and any functions passed
  to `shared_map`. `MapInv` is `LockHeld` with types. An access takes effect with
  its `Write`; what it has read is still the map then, because nobody else is
  inside, so the `Write` maps to `Take` of `AtomicMap` and `Lock` and `Read` to
  stutters.
- `ServerLockHeld`, `ServerAccessesAtomic`. Each step of `CosimServer` is a step of
  `SharedMap` or leaves it alone (`MapStep`), so the server has its theorems.
- `ServerTypeCorrect`, `ServerOutlivesItsUse`. `CallsInv`: outside of `listening`
  the simulator is in no call, and a server that is deleted was idle when it was.

- `StreamsDeliveredEndToEnd`, the refinement of `ReliableStream` by the server in
  use, where the accesses are those of `Perform`. `UseInv` says for each stream
  that what entered it is what has left it, what has arrived at its receiver, and
  what is on the way, in this order (`Delivers`). On the way are the bytes gathered
  at the receiver, the one the simulator holds, and the queue at the sender: for a
  byte stream they are put one behind the other (`RestOf`), for packets the bytes
  gone ahead are joined with the first packet of the queue unless the last of them
  carried the end flag (`Unsent`), and then the rest of the packet must still be
  there (`Begun`). What the simulator holds is nowhere in the queues: it is in the
  result of a get or in the arguments of the put that follows (`Holds`), so that
  the conversions there and back matter (`FollowingCalls`, `CallAccess`), as does
  that a get follows a poll that found something and nobody else takes it
  (`SimInv`). An access of a client puts behind what waits or takes what arrived
  first (`ClientAccesses`), which leaves the equation as it is (`ClientFine`); one of
  the simulator moves a byte from one part to the next (`ByteGotten`, `BytePut`).
  After `EndOfSim` what is on the way stays there, and the simulator's byte is lost.
- Its assumptions on the constants are evaluated by TLC in `cosim_server`:
  `LoopAssumption` (the design connects each VVC to one other of its mode, with
  names that hold no NUL, as the constants of the controllers do), `LoopReported`
  (both are reported, in that mode), `RequestsAssumption` (requests make the
  accesses of the server's procedures for clients), `OctetAssumption` and
  `NoCallAssumption`. Without `OctetAssumption` a byte would not survive the nine-bit
  number; without `LoopReported` the simulator would poll what throws.

Only model-checked, with the reasons:

- All liveness properties (`DeliversEverything`, `PacketsGoOut`, `RequestsReturn`,
  `ListenTakesEffect`, `TerminateEndsSimulation`, `StartResumes`,
  `ShutdownCompletes`, and that each result gets to the queue in the end, the fair
  part of `ImplementsStream` of `ReceiveController`): liveness under fairness, and
  `ENABLED`, are out of the prover's reach. Of `DeliversEverything` and that
  `ImplementsStream` the safety parts are proved (`TransmitsImplementStream`,
  `ResultsAreAStream`). Out of reach are also induction over data and `RECURSIVE`
  operators; no module has one.

Every invariant and every other action property or refinement that a passing run
checks is stated by a theorem.

## Not modelled

- How foreign functions and callbacks are registered with a simulator, and the
  failure of a VHPI call (`uvvm_cosim_vhpi_utils.hpp`), after which an exception
  leaves the library. A restart of the simulation: the code has only a TODO.
- JSON of requests and responses, except for the list of VVCs. json-rpc-cxx and
  cpp-httplib are external: requests come in any order on any worker.
- The clients: one call per procedure, no state.
- UVVM and the simulator, except for what is marked external.
- The example design and the testbenches, which are not part of the library.
- A change of `check_packet_length` after `vvc_config_done`: the mutant of
  `ReportVvc` that does not wait shows what happens, a call that throws.
- VVCs with names that begin like those of a supported one (`RegisterAssumption`).

## Plan

1. Done: the modules and proofs above.
2. `ReceiveController` to implement the `StartReceive` and `CompleteReceive` of
   `ReceivePath`; commands of `p_transmit` and `p_receive` in the queue of one VVC.
3. `SimControl` composed with both paths: nothing is transmitted while paused, and
   what was accepted is sent after the simulation is resumed.
