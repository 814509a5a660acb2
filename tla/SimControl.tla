----------------------------- MODULE SimControl -----------------------------
(***************************************************************************)
(* Starting, pausing and terminating the simulation.                       *)
(*                                                                         *)
(* Clients set two atomic flags of the server.  p_uvvm_cosim_init reads    *)
(* them once per rising edge of clk: terminate_sim ends its loop, and      *)
(* start_sim does not return while the simulation is paused, which holds   *)
(* up the whole simulator, as it runs its processes one at a time.         *)
(*                                                                         *)
(* The processes that an event resumes run in one delta cycle, in any      *)
(* order, each until its next wait; then time goes on.  Edges before       *)
(* init_done are left out, since no process of the library waits for them. *)
(***************************************************************************)
EXTENDS Integers

CONSTANTS
    Ctrl,           \* p_transmit and p_receive processes of VVCs in use
    CosimEnabled    \* GC_COSIM_EN

ASSUME CtrlAssumption == "init" \notin Ctrl
ASSUME EnabledAssumption == CosimEnabled \in BOOLEAN

VARIABLES
    startSim, terminateSim,   \* the flags
    server,      \* the HTTP server: not yet up, listening, stopped
    init,        \* where p_uvvm_cosim_init is
    initDone,    \* the signal init_done: driven, but not yet seen, is "pending"
    ctrl,        \* how far each controller process is
    due,         \* processes still to run in this delta cycle
    started,     \* history: has StartSim been called?
    polled,      \* history: controllers that have asked the server for data
    pausedEdges, \* history: edges since startSim was last true
    endEdges     \* history: edges since terminateSim became true

flags == <<startSim, terminateSim>>
simulator == <<init, initDone, ctrl, due>>
history == <<started, polled, pausedEdges, endEdges>>
vars == <<flags, server, simulator, history>>

Init ==
    /\ startSim = FALSE /\ terminateSim = FALSE
    /\ server = "none"
    /\ init = IF CosimEnabled THEN "config" ELSE "off"
    /\ initDone = "no"
    /\ ctrl = [c \in Ctrl |-> "init"]
    /\ due = {}
    /\ started = FALSE /\ polled = {}
    /\ pausedEdges = 0 /\ endEdges = 0

-----------------------------------------------------------------------------
(* The life of the server, and its procedures                               *)

\* The callback at the start of the simulation
StartOfSim ==
    /\ server = "none"
    /\ server' = "listening"
    /\ UNCHANGED <<flags, simulator, history>>

\* p_uvvm_cosim_init is in a foreign call or on its way to one.
InitRuns == init \in {"check", "start", "sleep"}

\* The callback at the end of the simulation, for which the init process has
\* asked, or, between two of its processes, the testbench.
EndOfSim ==
    /\ server = "listening"
    /\ ~InitRuns
    /\ server' = "stopped"
    /\ UNCHANGED <<flags, simulator, history>>

StartSim ==
    /\ server = "listening"
    /\ startSim' = TRUE
    /\ started' = TRUE /\ pausedEdges' = 0
    /\ UNCHANGED <<terminateSim, server, simulator, polled, endEdges>>

PauseSim ==
    /\ server = "listening"
    /\ startSim' = FALSE
    /\ UNCHANGED <<terminateSim, server, simulator, history>>

TerminateSim ==
    /\ server = "listening"
    /\ terminateSim' = TRUE
    /\ UNCHANGED <<startSim, server, simulator, history>>

-----------------------------------------------------------------------------
(* p_uvvm_cosim_init                                                        *)

\* vvc_config_done: report the VVCs, drive init_done.
ReportVvcs ==
    /\ server = "listening"
    /\ init = "config"
    /\ init' = "check" /\ initDone' = "pending"
    /\ UNCHANGED <<flags, server, ctrl, due, history>>

\* Mutant: the loop has no condition.
CheckTerminate_Never ==
    /\ server = "listening"
    /\ init = "check"
    /\ init' = "edge"
    /\ UNCHANGED <<flags, server, initDone, ctrl, due, history>>

\* The loop condition: stop the simulator, or wait for the next edge.
CheckTerminate ==
    /\ server = "listening"
    /\ init = "check"
    /\ init' = IF terminateSim THEN "stopped" ELSE "edge"
    /\ UNCHANGED <<flags, server, initDone, ctrl, due, history>>

\* The process is resumed by an edge and calls start_sim.
InitResumes ==
    /\ server = "listening"
    /\ "init" \in due /\ init = "edge"
    /\ due' = due \ {"init"}
    /\ init' = "start"
    /\ UNCHANGED <<flags, server, initDone, ctrl, history>>

\* Mutant: || instead of && between the two conditions.
ReadStart_Or ==
    /\ server = "listening"
    /\ init = "start"
    /\ init' = "sleep"
    /\ UNCHANGED <<flags, server, initDone, ctrl, due, history>>

\* WaitForStartSim reads startSim and, when that is false, terminateSim.
ReadStart ==
    /\ server = "listening"
    /\ init = "start"
    /\ init' = IF startSim THEN "check" ELSE "sleep"
    /\ UNCHANGED <<flags, server, initDone, ctrl, due, history>>

\* Mutant: one sleep, not a loop.
ReadTerminate_Once ==
    /\ server = "listening"
    /\ init = "sleep"
    /\ init' = "check"
    /\ UNCHANGED <<flags, server, initDone, ctrl, due, history>>

\* Mutant: a paused simulation does not look at terminateSim.
ReadTerminate_Never ==
    /\ server = "listening"
    /\ init = "sleep"
    /\ init' = "start"
    /\ UNCHANGED <<flags, server, initDone, ctrl, due, history>>

ReadTerminate ==
    /\ server = "listening"
    /\ init = "sleep"
    /\ init' = IF terminateSim THEN "check" ELSE "start"
    /\ UNCHANGED <<flags, server, initDone, ctrl, due, history>>

-----------------------------------------------------------------------------
(* The controllers and the simulator's time                                 *)

\* No process runs: the next delta cycle may begin.
Idle == server = "listening" /\ due = {} /\ init = "edge"

CountEdge ==
    /\ pausedEdges' = IF startSim THEN pausedEdges ELSE pausedEdges + 1
    /\ endEdges' = IF terminateSim THEN endEdges + 1 ELSE endEdges
    /\ UNCHANGED <<started, polled>>

\* init_done changes, alone or in the delta cycle of an edge of clk.
InitDoneEvent ==
    /\ Idle /\ initDone = "pending"
    /\ initDone' = "yes"
    /\ \/ due' = Ctrl /\ UNCHANGED history
       \/ due' = Ctrl \cup {"init"} /\ CountEdge
    /\ UNCHANGED <<flags, server, init, ctrl>>

\* clk rises; every process of the library waits for that.
RisingEdge ==
    /\ Idle /\ initDone = "yes"
    /\ due' = Ctrl \cup {"init"}
    /\ CountEdge
    /\ UNCHANGED <<flags, server, init, initDone, ctrl>>

\* Mutant: a controller does not let the first edge pass.
NextWait_NoFirst(c) == "loop"

\* The waits at the top of a controller process: init_done, the first edge, and
\* then every edge.
NextWait(c) == IF ctrl[c] = "init" THEN "first" ELSE "loop"

\* A controller is resumed.  In its loop it asks the server for data, or whether
\* it listens; modules TransmitPath and ReceivePath say what it does then.
ControllerRuns(c) ==
    /\ server = "listening"
    /\ c \in due /\ ~InitRuns /\ init # "stopped"
    /\ due' = due \ {c}
    /\ ctrl' = [ctrl EXCEPT ![c] = NextWait(c)]
    /\ polled' = IF ctrl[c] = "loop" THEN polled \cup {c} ELSE polled
    /\ UNCHANGED <<flags, server, init, initDone, started, pausedEdges, endEdges>>

-----------------------------------------------------------------------------
Rpc == StartSim \/ PauseSim \/ TerminateSim

InitProcess ==
    ReportVvcs \/ CheckTerminate \/ InitResumes \/ ReadStart \/ ReadTerminate

Time == InitDoneEvent \/ RisingEdge

Next ==
    \/ Rpc \/ StartOfSim \/ EndOfSim \/ InitProcess \/ Time
    \/ \E c \in Ctrl : ControllerRuns(c)

Spec == Init /\ [][Next]_vars

\* The simulator starts, runs the processes that are due, and ends when it is
\* asked to; the testbench sets vvc_config_done and its clock goes on.  Nobody
\* has to call the server, and the testbench does not have to end.
FairSpec ==
    /\ Spec
    /\ WF_vars(StartOfSim) /\ WF_vars(InitProcess) /\ WF_vars(Time)
    /\ WF_vars(init = "stopped" /\ EndOfSim)
    /\ \A c \in Ctrl : WF_vars(ControllerRuns(c))

-----------------------------------------------------------------------------
(* Properties                                                               *)

TypeOK ==
    /\ startSim \in BOOLEAN /\ terminateSim \in BOOLEAN
    /\ server \in {"none", "listening", "stopped"}
    /\ init \in {"off", "config", "check", "edge", "start", "sleep", "stopped"}
    /\ initDone \in {"no", "pending", "yes"}
    /\ ctrl \in [Ctrl -> {"init", "first", "loop"}]
    /\ due \subseteq Ctrl \cup {"init"}
    /\ started \in BOOLEAN
    /\ polled \subseteq Ctrl
    /\ pausedEdges \in Nat /\ endEdges \in Nat

\* "Blocks if user paused sim" (uvvm_cosim.vhd:114): from the response to
\* PauseSim, or from the beginning, until the next StartSim, the clock rises
\* once at most, wherever the processes were when the request came.
PauseStopsClock == pausedEdges <= 1

\* After TerminateSim the clock rises once at most, paused or not.
TerminateStopsClock == endEdges <= 1

\* Before the first StartSim no controller asks the server for anything: data
\* that clients have queued by then waits.  The clock has risen once by then,
\* which the controllers' wait for a first edge (uvvm_cosim_axis_vvc_ctrl.vhd:123)
\* absorbs, in whatever order the processes run.
NothingBeforeStart == polled # {} => started

\* The simulation ends after TerminateSim, and the server with it, if
\* co-simulation is enabled; also when it is paused, or was never started.
TerminateEndsSimulation == CosimEnabled => (terminateSim ~> server = "stopped")

\* When the simulation is started and stays so, every controller is resumed at
\* an edge again and again.
StartResumes ==
    \A c \in Ctrl :
        startSim /\ initDone = "yes" /\ c \notin due
            ~> c \in due \/ ~startSim \/ terminateSim \/ server = "stopped"
=============================================================================
