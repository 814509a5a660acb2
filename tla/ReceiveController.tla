-------------------------- MODULE ReceiveController --------------------------
(***************************************************************************)
(* The p_receive process of a controller and the VVC it watches, for one   *)
(* VVC.  While listening is enabled p_receive sends one receive command    *)
(* after the other.  It learns how a command fares from the transaction    *)
(* info of the VVC: a trigger, which is lost on a process that does not    *)
(* wait for it, and a status, which it reads when it has seen the trigger. *)
(* Then it asks for the result of a command by the command's index.        *)
(*                                                                         *)
(* The VVC is external.  It executes one command at a time, in the order   *)
(* in which they were sent; a trigger says that the transaction of the     *)
(* command began, another one that it completed, and before the latter the *)
(* result is in its result queue, until it is fetched.                     *)
(*                                                                         *)
(* A result is represented by the index of its command.  How its bytes get *)
(* to the queue of the server is in ReceivePath.                           *)
(***************************************************************************)
EXTENDS Integers, Sequences

CONSTANTS
    Switches,      \* values of enable in SetVvcListenEnable requests
    MaxResults     \* bound: commands that complete

ASSUME SwitchesAssumption == Switches \subseteq BOOLEAN
ASSUME MaxResultsAssumption == MaxResults \in Nat

VARIABLES
    listen,      \* cfg.listen_enable
    pc,          \* where p_receive is
    cmdIdx,      \* v_cmd_idx
    commands,    \* indices of the commands the VVC has not finished, in order
    lastIdx,     \* index of the last command the VVC has received
    status,      \* transaction_status of the first of commands
    results,     \* the VVC's result queue: index, and whether there is data
    failed,      \* has a fetch_result not found its result?
    produced,    \* history: indices of results with data, as they completed
    stored,      \* history: indices of results put into the server's queue
    late         \* history: results stored since listening was disabled

vvc == <<commands, lastIdx, status, results, produced>>
vars == <<listen, pc, cmdIdx, failed, stored, late, vvc>>

Init ==
    /\ listen = FALSE
    /\ pc = "clock"
    /\ cmdIdx = 0
    /\ commands = <<>>
    /\ lastIdx = 0
    /\ status = "INACTIVE"
    /\ results = {}
    /\ failed = FALSE
    /\ produced = <<>>
    /\ stored = <<>>
    /\ late = 0

\* A client's request, at any time
SetVvcListenEnable(enable) ==
    /\ listen' = enable
    /\ late' = IF enable THEN 0 ELSE late
    /\ UNCHANGED <<pc, cmdIdx, failed, stored, vvc>>

-----------------------------------------------------------------------------
(* p_receive                                                                *)

\* Mutant: once in the inner loop, p_receive does not ask whether to listen.
InnerLoop_Unasked(startNew) ==
    \/ /\ startNew
       /\ pc' = "sending"
       /\ commands' = Append(commands, lastIdx + 1)
       /\ lastIdx' = lastIdx + 1
       /\ UNCHANGED cmdIdx
    \/ /\ ~startNew
       /\ pc' = "trigger"
       /\ cmdIdx' = lastIdx
       /\ UNCHANGED <<commands, lastIdx>>

\* The condition of the inner loop, a foreign call, and its body up to the next
\* point where the simulator goes on: a receive command is sent if a new
\* transaction is to be started, else p_receive waits for the trigger again.
InnerLoop(startNew) ==
    \/ /\ ~listen
       /\ pc' = "clock"
       /\ UNCHANGED <<cmdIdx, commands, lastIdx>>
    \/ /\ listen /\ startNew
       /\ pc' = "sending"
       /\ commands' = Append(commands, lastIdx + 1)
       /\ lastIdx' = lastIdx + 1
       /\ UNCHANGED cmdIdx
    \/ /\ listen /\ ~startNew
       /\ pc' = "trigger"
       /\ cmdIdx' = lastIdx
       /\ UNCHANGED <<commands, lastIdx>>

\* Mutant: no transaction is started at the beginning of the inner loop.
ClockEdge_NoStart ==
    /\ pc = "clock"
    /\ InnerLoop(FALSE)
    /\ UNCHANGED <<listen, status, results, failed, produced, stored, late>>

\* The outer loop, at a clock edge
ClockEdge ==
    /\ pc = "clock"
    /\ InnerLoop(TRUE)
    /\ UNCHANGED <<listen, status, results, failed, produced, stored, late>>

\* Mutant: the index is the one of the command before.
AwaitTrigger_OldIndex ==
    /\ pc = "sending"
    /\ cmdIdx' = lastIdx - 1
    /\ pc' = "trigger"
    /\ UNCHANGED <<listen, failed, stored, late, vvc>>

\* The command has been sent: get_last_received_cmd_idx, and wait for a trigger.
AwaitTrigger ==
    /\ pc = "sending"
    /\ cmdIdx' = lastIdx
    /\ pc' = "trigger"
    /\ UNCHANGED <<listen, failed, stored, late, vvc>>

\* Mutant: a completed transaction is only followed by a new one.
SeeStatus_NoFetch ==
    /\ pc = "seen"
    /\ InnerLoop(status = "COMPLETED")
    /\ UNCHANGED <<listen, status, results, failed, produced, stored, late>>

\* Mutant: a transaction in progress is taken for an inactive one.
SeeStatus_StartAgain ==
    /\ pc = "seen"
    /\ \/ status = "COMPLETED" /\ pc' = "fetch" /\ UNCHANGED <<cmdIdx, commands, lastIdx>>
       \/ status # "COMPLETED" /\ InnerLoop(TRUE)
    /\ UNCHANGED <<listen, status, results, failed, produced, stored, late>>

\* The trigger rose: a completed transaction has a result, after an inactive one a
\* new one is started, one in progress needs more time.
SeeStatus ==
    /\ pc = "seen"
    /\ \/ status = "COMPLETED" /\ pc' = "fetch" /\ UNCHANGED <<cmdIdx, commands, lastIdx>>
       \/ status # "COMPLETED" /\ InnerLoop(status = "INACTIVE")
    /\ UNCHANGED <<listen, status, results, failed, produced, stored, late>>

\* fetch_result takes the result with the given index from the VVC, and its data, if
\* there are any, go to the server's queue.  If there is no such result the VVC
\* raises an alert, which need not end the simulation, and v_result_data is
\* anything: data or none.
FetchResult ==
    LET fetched == {r \in results : r.idx = cmdIdx} IN
    /\ pc = "fetch"
    /\ results' = results \ fetched
    /\ failed' = (failed \/ fetched = {})
    /\ \/ /\ fetched = {} \/ \E r \in fetched : r.data
          /\ stored' = Append(stored, cmdIdx)
          /\ late' = IF listen THEN 0 ELSE late + 1
       \/ /\ \A r \in fetched : ~r.data
          /\ UNCHANGED <<stored, late>>
    /\ InnerLoop(TRUE)
    /\ UNCHANGED <<listen, status, produced>>

-----------------------------------------------------------------------------
(* The VVC (external)                                                       *)

\* A trigger with status s.  If p_receive waits for it, it runs before the VVC
\* goes on; if not, the trigger is lost.
Trigger(s) ==
    /\ pc # "seen"
    /\ status' = s
    /\ pc' = IF pc = "trigger" THEN "seen" ELSE pc

StartTransaction ==
    /\ commands # <<>> /\ status = "INACTIVE"
    /\ Trigger("IN_PROGRESS")
    /\ UNCHANGED <<listen, cmdIdx, commands, lastIdx, results, failed, produced, stored, late>>

\* A receive takes clock cycles, so it does not complete during the delta cycles
\* in which p_receive runs after a trigger.  It may complete at the clock edge at
\* which p_receive sends a further command.
CompleteTransaction(data) ==
    /\ status = "IN_PROGRESS" /\ Head(commands) <= MaxResults
    /\ pc \in {"clock", "trigger"} \/ (pc = "sending" /\ Len(commands) > 1)
    /\ results' = results \cup {[idx |-> Head(commands), data |-> data]}
    /\ produced' = IF data THEN Append(produced, Head(commands)) ELSE produced
    /\ Trigger("COMPLETED")
    /\ UNCHANGED <<listen, cmdIdx, commands, lastIdx, failed, stored, late>>

\* The transaction info goes back to its default, without a trigger.
ResetTransaction ==
    /\ status = "COMPLETED" /\ pc # "seen"
    /\ status' = "INACTIVE"
    /\ commands' = Tail(commands)
    /\ UNCHANGED <<listen, pc, cmdIdx, lastIdx, results, failed, produced, stored, late>>

-----------------------------------------------------------------------------
ReceiveProcess == ClockEdge \/ AwaitTrigger \/ SeeStatus \/ FetchResult

Vvc ==
    \/ StartTransaction \/ ResetTransaction
    \/ \E data \in BOOLEAN : CompleteTransaction(data)

Next ==
    \/ \E enable \in Switches : SetVvcListenEnable(enable)
    \/ ReceiveProcess
    \/ Vvc

Spec == Init /\ [][Next]_vars

\* The simulator runs p_receive, at every clock edge and after every trigger, and
\* the VVC begins and ends its transactions.  Nothing makes data arrive.
FairSpec ==
    /\ Spec
    /\ WF_vars(ReceiveProcess)
    /\ WF_vars(StartTransaction) /\ WF_vars(ResetTransaction)

-----------------------------------------------------------------------------
(* Properties                                                               *)

Results == [idx : Nat, data : BOOLEAN]

\* The types of the variables.
TypeOK ==
    /\ listen \in BOOLEAN
    /\ pc \in {"clock", "sending", "trigger", "seen", "fetch"}
    /\ cmdIdx \in Nat /\ lastIdx \in Nat /\ late \in Nat
    /\ commands \in Seq(Nat)
    /\ status \in {"INACTIVE", "IN_PROGRESS", "COMPLETED"}
    /\ results \subseteq Results
    /\ failed \in BOOLEAN
    /\ produced \in Seq(Nat) /\ stored \in Seq(Nat)

\* p_receive never waits for a trigger that cannot come: while it waits the VVC
\* has a receive command, though listening is switched at any time, triggers are
\* missed and a new command is not sent every time round the loop.
NeverWaitsInVain ==
    pc \in {"sending", "trigger"} =>
        /\ commands # <<>>
        /\ Len(commands) > 1 \/ status # "COMPLETED"

\* p_receive asks for results that are there: the index it took from the VVC
\* before the wait belongs to the command whose completion ended the wait.
FetchFindsResult == ~failed

\* uvvm_cosim_uart_vvc_ctrl.vhd:141: "we still HAVE to fetch the result because
\* otherwise the VVC's result queue will keep growing".  A result in the VVC's
\* queue is the one that p_receive is about to fetch.
NoResultLeftBehind ==
    \A r \in results : pc \in {"seen", "fetch"} /\ r.idx = cmdIdx

\* After listening was disabled, the transaction in progress may still deliver its
\* result, and no other does.
AtMostOneLate == late <= 1

\* Listening takes effect: it is followed by a receive command at the VVC, unless
\* it is disabled again.
ListenTakesEffect == listen ~> (commands # <<>> \/ ~listen)

\* What reaches the server's queue is a reliable stream of the data the VVC has
\* received: in order, none lost, none twice, each in the end.
Stream == INSTANCE ReliableStream WITH
    Streams <- {"vvc"},
    input <- [s \in {"vvc"} |-> produced],
    output <- [s \in {"vvc"} |-> stored]

ImplementsStream == Stream!FairSpec
=============================================================================
