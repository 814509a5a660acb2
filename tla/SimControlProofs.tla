--------------------------- MODULE SimControlProofs ---------------------------
(***************************************************************************)
(* Proofs about SimControl, for any set of controller processes.           *)
(***************************************************************************)
EXTENDS SimControl, TLAPS

-----------------------------------------------------------------------------
(* Type correctness                                                         *)

LEMMA TypeInit == Init => TypeOK
<1> SUFFICES ASSUME Init PROVE TypeOK
  OBVIOUS
<1>1. startSim \in BOOLEAN /\ terminateSim \in BOOLEAN /\ started \in BOOLEAN
  BY DEF Init
<1>2. init \in {"config", "off"}
  BY DEF Init
<1>3. QED
  BY <1>1, <1>2 DEF Init, TypeOK

LEMMA TypeStep == TypeOK /\ [Next]_vars => TypeOK'
<1> SUFFICES ASSUME TypeOK, [Next]_vars
             PROVE  TypeOK'
  OBVIOUS
<1>1. CASE Rpc
  <2>1. startSim' \in BOOLEAN /\ terminateSim' \in BOOLEAN /\ started' \in BOOLEAN
    BY <1>1 DEF TypeOK, Rpc, StartSim, PauseSim, TerminateSim, history
  <2>2. UNCHANGED <<server, simulator, polled, endEdges>> /\ pausedEdges' \in {0, pausedEdges}
    BY <1>1 DEF Rpc, StartSim, PauseSim, TerminateSim, history
  <2>3. QED
    BY <2>1, <2>2 DEF TypeOK, simulator
<1>2. CASE StartOfSim \/ EndOfSim
  BY <1>2 DEF TypeOK, StartOfSim, EndOfSim, simulator, history, flags
<1>3. CASE InitProcess
  BY <1>3 DEF TypeOK, InitProcess, ReportVvcs, CheckTerminate, InitResumes, ReadStart,
              ReadTerminate, history, flags
<1>4. CASE Time
  BY <1>4 DEF TypeOK, Time, InitDoneEvent, RisingEdge, CountEdge, history, flags
<1>5. ASSUME NEW c \in Ctrl, ControllerRuns(c)
      PROVE  TypeOK'
  BY <1>5 DEF TypeOK, ControllerRuns, NextWait, flags
<1>6. CASE UNCHANGED vars
  BY <1>6 DEF TypeOK, vars, simulator, history, flags
<1>7. QED
  BY <1>1, <1>2, <1>3, <1>4, <1>5, <1>6 DEF Next

THEOREM TypeCorrect == Spec => []TypeOK
BY TypeInit, TypeStep, PTL DEF Spec

-----------------------------------------------------------------------------
(* The clock                                                                *)

\* p_uvvm_cosim_init has seen an edge and not yet got through start_sim.
Held == \/ init = "edge" /\ "init" \in due
        \/ init \in {"start", "sleep", "stopped"}

\* While the simulation is paused, an edge leaves the init process held until a
\* request frees it; after TerminateSim, it goes from there to its end.
ClockInv ==
    /\ startSim => pausedEdges = 0
    /\ pausedEdges > 0 => Held \/ (init = "check" /\ terminateSim)
    /\ ~terminateSim => endEdges = 0
    /\ endEdges > 0 => Held \/ init = "check"
    /\ pausedEdges <= 1
    /\ endEdges <= 1

LEMMA ClockInit == Init => ClockInv
BY DEF Init, ClockInv

LEMMA ClockStep == TypeOK /\ ClockInv /\ [Next]_vars => ClockInv'
<1> SUFFICES ASSUME TypeOK, ClockInv, [Next]_vars
             PROVE  ClockInv'
  OBVIOUS
<1>1. CASE Rpc
  BY <1>1 DEF TypeOK, ClockInv, Held, Rpc, StartSim, PauseSim, TerminateSim, simulator, history
<1>2. CASE StartOfSim \/ EndOfSim
  BY <1>2 DEF ClockInv, Held, StartOfSim, EndOfSim, simulator, history, flags
<1>3. CASE InitProcess
  <2>1. UNCHANGED <<flags, history>>
    BY <1>3 DEF InitProcess, ReportVvcs, CheckTerminate, InitResumes, ReadStart, ReadTerminate
  <2>2. CASE ReportVvcs
    BY <2>1, <2>2 DEF ClockInv, Held, ReportVvcs, history, flags
  <2>3. CASE CheckTerminate
    BY <2>1, <2>3 DEF TypeOK, ClockInv, Held, CheckTerminate, history, flags
  <2>4. CASE InitResumes
    BY <2>1, <2>4 DEF ClockInv, Held, InitResumes, history, flags
  <2>5. CASE ReadStart
    BY <2>1, <2>5 DEF TypeOK, ClockInv, Held, ReadStart, history, flags
  <2>6. CASE ReadTerminate
    BY <2>1, <2>6 DEF TypeOK, ClockInv, Held, ReadTerminate, history, flags
  <2>7. QED
    BY <1>3, <2>2, <2>3, <2>4, <2>5, <2>6 DEF InitProcess
<1>4. CASE Time
  <2>1. init = "edge" /\ due = {} /\ UNCHANGED <<flags, init>>
    BY <1>4 DEF Time, InitDoneEvent, RisingEdge, Idle
  <2>2. pausedEdges = 0 /\ endEdges = 0
    BY <2>1 DEF TypeOK, ClockInv, Held
  <2>3. CASE UNCHANGED history
    BY <2>1, <2>2, <2>3 DEF ClockInv, history, flags
  <2>4. CASE "init" \in due' /\ CountEdge
    BY <2>1, <2>2, <2>4 DEF ClockInv, Held, CountEdge, flags
  <2>5. QED
    BY <1>4, <2>3, <2>4 DEF Time, InitDoneEvent, RisingEdge
<1>5. ASSUME NEW c \in Ctrl, ControllerRuns(c)
      PROVE  ClockInv'
  <2>1. "init" \in due => "init" \in due'
    BY <1>5, CtrlAssumption DEF ControllerRuns
  <2>2. QED
    BY <1>5, <2>1 DEF ClockInv, Held, ControllerRuns, flags
<1>6. CASE UNCHANGED vars
  BY <1>6 DEF ClockInv, Held, vars, simulator, history, flags
<1>7. QED
  BY <1>1, <1>2, <1>3, <1>4, <1>5, <1>6 DEF Next

LEMMA ClockHolds == Spec => []ClockInv
<1>1. TypeOK /\ ClockInv /\ [Next]_vars => ClockInv'
  BY ClockStep
<1>2. QED
  BY <1>1, ClockInit, TypeCorrect, PTL DEF Spec

\* At most one edge after PauseSim, however requests and processes interleave.
THEOREM PauseStopsTheClock == Spec => []PauseStopsClock
<1>1. ClockInv => PauseStopsClock
  BY DEF ClockInv, PauseStopsClock
<1>2. QED
  BY <1>1, ClockHolds, PTL

\* At most one edge after TerminateSim.
THEOREM TerminateStopsTheClock == Spec => []TerminateStopsClock
<1>1. ClockInv => TerminateStopsClock
  BY DEF ClockInv, TerminateStopsClock
<1>2. QED
  BY <1>1, ClockHolds, PTL

-----------------------------------------------------------------------------
(* Before the first start                                                   *)

\* Until the first StartSim a controller is at its second wait at most when the
\* one edge comes, so no controller is resumed in its loop.
FirstInv ==
    /\ init = "config" => initDone = "no"
    /\ initDone # "yes" => due \subseteq {"init"} /\ \A c \in Ctrl : ctrl[c] = "init"
    /\ ~started =>
          /\ ~startSim /\ polled = {}
          /\ pausedEdges = 0 =>
                \A c \in Ctrl : ctrl[c] # "loop" /\ (c \in due => ctrl[c] = "init")
          /\ \A c \in Ctrl : c \in due => ctrl[c] # "loop"

LEMMA FirstInit == Init => FirstInv
BY DEF Init, FirstInv

LEMMA FirstStep == TypeOK /\ ClockInv /\ FirstInv /\ [Next]_vars => FirstInv'
<1> SUFFICES ASSUME TypeOK, ClockInv, FirstInv, [Next]_vars
             PROVE  FirstInv'
  OBVIOUS
<1>1. CASE Rpc
  BY <1>1 DEF FirstInv, Rpc, StartSim, PauseSim, TerminateSim, simulator, history
<1>2. CASE StartOfSim \/ EndOfSim
  BY <1>2 DEF FirstInv, StartOfSim, EndOfSim, simulator, history, flags
<1>3. CASE InitProcess
  <2>1. UNCHANGED <<startSim, ctrl, history>> /\ (initDone' # "yes" => initDone # "yes")
        /\ due' \subseteq due /\ init' # "config"
    BY <1>3 DEF InitProcess, ReportVvcs, CheckTerminate, InitResumes, ReadStart,
                ReadTerminate, flags, FirstInv
  <2>2. QED
    BY <2>1 DEF FirstInv, history
<1>4. CASE Time
  <2>1. UNCHANGED <<ctrl, startSim, started, polled>> /\ initDone' = "yes" /\ init' # "config"
    BY <1>4 DEF Time, InitDoneEvent, RisingEdge, Idle, CountEdge, flags, history
  <2>2. pausedEdges = 0
    BY <1>4 DEF Time, InitDoneEvent, RisingEdge, Idle, ClockInv, Held, TypeOK
  <2>3. ASSUME ~started
        PROVE  \A c \in Ctrl : ctrl[c] # "loop"
    BY <2>2, <2>3 DEF FirstInv
  <2>4. CASE InitDoneEvent
    BY <2>1, <2>4 DEF FirstInv, InitDoneEvent
  <2>5. CASE RisingEdge
    <3>1. ~started => pausedEdges' = 1
      BY <2>2, <2>5 DEF FirstInv, RisingEdge, CountEdge
    <3>2. QED
      BY <2>1, <2>3, <3>1 DEF FirstInv
  <2>6. QED
    BY <1>4, <2>4, <2>5 DEF Time
<1>5. ASSUME NEW c \in Ctrl, ControllerRuns(c)
      PROVE  FirstInv'
  <2>1. UNCHANGED <<init, startSim, started, pausedEdges, initDone>> /\ c \in due
        /\ due' = due \ {c} /\ ctrl' = [ctrl EXCEPT ![c] = NextWait(c)]
        /\ polled' = IF ctrl[c] = "loop" THEN polled \cup {c} ELSE polled
    BY <1>5 DEF ControllerRuns, flags
  <2>2. initDone = "yes"
    BY <2>1, CtrlAssumption DEF FirstInv
  <2>3. \A d \in Ctrl : d # c => ctrl'[d] = ctrl[d]
    BY <2>1 DEF TypeOK
  <2>4. CASE started
    BY <2>1, <2>2, <2>4 DEF FirstInv
  <2>5. CASE ~started
    <3>1. ctrl[c] # "loop"
      BY <2>1, <2>5 DEF FirstInv
    <3>2. polled' = polled
      BY <2>1, <3>1
    <3>3. pausedEdges = 0 => ctrl'[c] = "first"
      BY <2>1, <2>5 DEF FirstInv, NextWait, TypeOK
    <3>4. QED
      BY <2>1, <2>2, <2>3, <2>5, <3>2, <3>3 DEF FirstInv
  <2>6. QED
    BY <2>4, <2>5
<1>6. CASE UNCHANGED vars
  BY <1>6 DEF FirstInv, vars, simulator, history, flags
<1>7. QED
  BY <1>1, <1>2, <1>3, <1>4, <1>5, <1>6 DEF Next

\* No controller asks the server for anything before the first StartSim.
THEOREM NothingHappensBeforeStart == Spec => []NothingBeforeStart
<1>1. TypeOK /\ ClockInv /\ FirstInv /\ [Next]_vars => FirstInv'
  BY FirstStep
<1>2. FirstInv => NothingBeforeStart
  BY DEF FirstInv, NothingBeforeStart
<1>3. QED
  BY <1>1, <1>2, FirstInit, TypeCorrect, ClockHolds, PTL DEF Spec
=============================================================================
