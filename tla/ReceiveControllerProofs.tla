----------------------- MODULE ReceiveControllerProofs -----------------------
(***************************************************************************)
(* Proofs about ReceiveController, for any number of results.              *)
(***************************************************************************)
EXTENDS ReceiveController, StreamFacts

-----------------------------------------------------------------------------
(* Types                                                                    *)

\* A transaction that is not inactive has a command, and p_receive waits only while
\* there is a command whose completion is still to come.
Waits ==
    /\ status # "INACTIVE" => commands # <<>>
    /\ NeverWaitsInVain

LEMMA TypeInit == Init => TypeOK
<1>1. <<>> \in Seq(Nat)
  BY EmptySeq
<1>2. Init => /\ listen \in BOOLEAN /\ failed \in BOOLEAN
              /\ pc \in {"clock", "sending", "trigger", "seen", "fetch"}
              /\ status \in {"INACTIVE", "IN_PROGRESS", "COMPLETED"}
  BY Zenon DEF Init
<1>3. Init => /\ cmdIdx \in Nat /\ lastIdx \in Nat /\ late \in Nat
              /\ commands \in Seq(Nat) /\ produced \in Seq(Nat) /\ stored \in Seq(Nat)
  BY <1>1 DEF Init
<1>4. Init => results \subseteq Results
  BY DEF Init
<1>5. QED
  BY <1>2, <1>3, <1>4 DEF TypeOK

\* Sending a command keeps the types of what it changes.
LEMMA SendTyped ==
    ASSUME TypeOK
    PROVE  Append(commands, lastIdx + 1) \in Seq(Nat) /\ lastIdx + 1 \in Nat
BY AppendProperties DEF TypeOK

LEMMA LoopTyped ==
    ASSUME TypeOK, NEW startNew \in BOOLEAN, InnerLoop(startNew)
    PROVE  /\ pc' \in {"clock", "sending", "trigger"}
           /\ cmdIdx' \in Nat /\ lastIdx' \in Nat /\ commands' \in Seq(Nat)
BY SendTyped DEF TypeOK, InnerLoop

LEMMA TypeStep == TypeOK /\ Waits /\ [Next]_vars => TypeOK'
<1> SUFFICES ASSUME TypeOK, Waits, [Next]_vars
             PROVE  TypeOK'
  OBVIOUS
<1>1. ASSUME NEW enable \in Switches, SetVvcListenEnable(enable)
      PROVE  TypeOK'
  BY <1>1, SwitchesAssumption DEF TypeOK, SetVvcListenEnable, vvc
<1>2. CASE ClockEdge
  BY <1>2, LoopTyped DEF TypeOK, ClockEdge
<1>3. CASE AwaitTrigger
  BY <1>3 DEF TypeOK, AwaitTrigger, vvc
<1>4. CASE SeeStatus
  BY <1>4, LoopTyped DEF TypeOK, SeeStatus
<1>5. CASE FetchResult
  <2>1. Append(stored, cmdIdx) \in Seq(Nat)
    BY AppendProperties DEF TypeOK
  <2>2. \/ stored' = Append(stored, cmdIdx) /\ late' = IF listen THEN 0 ELSE late + 1
        \/ stored' = stored /\ late' = late
    BY <1>5 DEF FetchResult
  <2>3. results' \subseteq results /\ failed' \in BOOLEAN /\ InnerLoop(TRUE)
        /\ UNCHANGED <<listen, status, produced>>
    BY <1>5 DEF TypeOK, FetchResult
  <2>4. results' \subseteq Results
    BY <2>3 DEF TypeOK
  <2>5. stored' \in Seq(Nat) /\ late' \in Nat
    <3>1. stored \in Seq(Nat) /\ late \in Nat
      BY DEF TypeOK
    <3>2. late' \in Nat
      BY <2>2, <3>1
    <3>3. stored' \in Seq(Nat)
      BY <2>1, <2>2, <3>1, Zenon
    <3>4. QED
      BY <3>2, <3>3
  <2>6. pc' \in {"clock", "sending", "trigger"} /\ cmdIdx' \in Nat /\ lastIdx' \in Nat
        /\ commands' \in Seq(Nat)
    BY <2>3, LoopTyped
  <2>7. QED
    BY <2>3, <2>4, <2>5, <2>6 DEF TypeOK
<1>6. CASE StartTransaction
  BY <1>6 DEF TypeOK, StartTransaction, Trigger
<1>7. ASSUME NEW data \in BOOLEAN, CompleteTransaction(data)
      PROVE  TypeOK'
  <2>1. commands # <<>>
    BY <1>7 DEF CompleteTransaction, Waits
  <2>2. Head(commands) \in Nat
    BY <2>1, HeadTailProperties DEF TypeOK
  <2>3. Append(produced, Head(commands)) \in Seq(Nat)
    BY <2>2, AppendProperties DEF TypeOK
  <2>4. results' \subseteq Results
    <3>1. [idx |-> Head(commands), data |-> data] \in Results
      BY <2>2 DEF Results
    <3>2. results' = results \cup {[idx |-> Head(commands), data |-> data]}
      BY <1>7 DEF CompleteTransaction
    <3>3. QED
      BY <3>1, <3>2 DEF TypeOK
  <2>5. produced' \in Seq(Nat)
    BY <1>7, <2>3 DEF TypeOK, CompleteTransaction
  <2>6. status' = "COMPLETED" /\ pc' \in {pc, "seen"}
    BY <1>7 DEF CompleteTransaction, Trigger
  <2>7. UNCHANGED <<listen, cmdIdx, commands, lastIdx, failed, stored, late>>
    BY <1>7 DEF CompleteTransaction
  <2>8. QED
    BY <2>4, <2>5, <2>6, <2>7 DEF TypeOK
<1>8. CASE ResetTransaction
  <2>1. Tail(commands) \in Seq(Nat)
    BY <1>8, HeadTailProperties DEF TypeOK, Waits, ResetTransaction
  <2>2. QED
    BY <1>8, <2>1 DEF TypeOK, ResetTransaction
<1>9. CASE UNCHANGED vars
  BY <1>9 DEF TypeOK, vars, vvc
<1>10. QED
  BY <1>1, <1>2, <1>3, <1>4, <1>5, <1>6, <1>7, <1>8, <1>9 DEF Next, ReceiveProcess, Vvc

LEMMA WaitsStep == TypeOK /\ Waits /\ [Next]_vars => Waits'
<1> SUFFICES ASSUME TypeOK, Waits, [Next]_vars
             PROVE  Waits'
  OBVIOUS
<1> USE DEF Waits, NeverWaitsInVain
<1>a. commands \in Seq(Nat) /\ Len(commands) \in Nat /\ (commands = <<>> <=> Len(commands) = 0)
  BY LenProperties, EmptySeq DEF TypeOK
<1>b. /\ Append(commands, lastIdx + 1) # <<>>
      /\ Len(Append(commands, lastIdx + 1)) = Len(commands) + 1
  <2>1. lastIdx + 1 \in Nat
    BY DEF TypeOK
  <2>2. QED
    BY <1>a, <2>1, AppendProperties
<1>1. ASSUME NEW enable \in Switches, SetVvcListenEnable(enable)
      PROVE  Waits'
  BY <1>1 DEF SetVvcListenEnable, vvc
<1>2. CASE ClockEdge
  BY <1>2, <1>a, <1>b DEF ClockEdge, InnerLoop
<1>3. CASE AwaitTrigger
  BY <1>3 DEF AwaitTrigger, vvc
<1>4. CASE SeeStatus
  BY <1>4, <1>a, <1>b DEF SeeStatus, InnerLoop
<1>5. CASE FetchResult
  BY <1>5, <1>a, <1>b DEF FetchResult, InnerLoop
<1>6. CASE StartTransaction
  BY <1>6 DEF StartTransaction, Trigger
<1>7. ASSUME NEW data \in BOOLEAN, CompleteTransaction(data)
      PROVE  Waits'
  <2>1. /\ status = "IN_PROGRESS" /\ status' = "COMPLETED" /\ commands' = commands
        /\ \/ pc = "clock" /\ pc' = "clock"
           \/ pc = "trigger" /\ pc' = "seen"
           \/ pc = "sending" /\ Len(commands) > 1 /\ pc' = "sending"
    BY <1>7 DEF CompleteTransaction, Trigger
  <2>2. QED
    BY <2>1
<1>8. CASE ResetTransaction
  <2>1. commands # <<>> /\ status = "COMPLETED"
    BY <1>8 DEF ResetTransaction
  <2> DEFINE rest == Tail(commands)
  <2>2. rest \in Seq(Nat) /\ Len(rest) = Len(commands) - 1
    BY <1>a, <2>1, HeadTailProperties
  <2> HIDE DEF rest
  <2>3. Len(commands) > 1 => rest # <<>>
    BY <1>a, <2>2, EmptySeq
  <2>4. commands' = Tail(commands) /\ pc' = pc /\ status' = "INACTIVE"
    BY <1>8 DEF ResetTransaction
  <2>5. QED
    BY <2>1, <2>3, <2>4 DEF rest
<1>9. CASE UNCHANGED vars
  BY <1>9 DEF vars, vvc
<1>10. QED
  BY <1>1, <1>2, <1>3, <1>4, <1>5, <1>6, <1>7, <1>8, <1>9 DEF Next, ReceiveProcess, Vvc

LEMMA WaitsHold == Spec => [](TypeOK /\ Waits)
<1>1. Init => TypeOK /\ Waits
  BY TypeInit DEF Init, Waits, NeverWaitsInVain
<1>2. TypeOK /\ Waits /\ [Next]_vars => (TypeOK /\ Waits)'
  BY TypeStep, WaitsStep
<1>3. QED
  BY <1>1, <1>2, PTL DEF Spec

\* The variables have their types in every reachable state.
THEOREM TypeCorrect == Spec => []TypeOK
BY WaitsHold, PTL

\* p_receive never waits for a trigger that cannot come, whatever clients switch
\* and whichever triggers it misses.
THEOREM WaitsForATriggerThatComes == Spec => []NeverWaitsInVain
<1>1. Waits => NeverWaitsInVain
  BY DEF Waits
<1>2. QED
  BY <1>1, WaitsHold, PTL

-----------------------------------------------------------------------------
(* After listening was disabled                                             *)

\* A result is only late when it is stored with listening disabled, and that takes
\* p_receive out of its inner loop.
LateInv ==
    /\ late \in {0, 1}
    /\ listen => late = 0
    /\ late = 1 => pc = "clock"

LEMMA LateStep == LateInv /\ [Next]_vars => LateInv'
<1> SUFFICES ASSUME LateInv, [Next]_vars
             PROVE  LateInv'
  OBVIOUS
<1> USE DEF LateInv
<1>1. ASSUME NEW enable \in Switches, SetVvcListenEnable(enable)
      PROVE  LateInv'
  BY <1>1, SwitchesAssumption DEF SetVvcListenEnable
<1>2. CASE ClockEdge
  BY <1>2 DEF ClockEdge, InnerLoop
<1>3. CASE AwaitTrigger \/ SeeStatus
  BY <1>3 DEF AwaitTrigger, SeeStatus, InnerLoop
<1>4. CASE FetchResult
  <2>1. pc = "fetch" /\ listen' = listen /\ (~listen => pc' = "clock")
    BY <1>4 DEF FetchResult, InnerLoop
  <2>2. late' = late \/ late' = IF listen THEN 0 ELSE late + 1
    BY <1>4 DEF FetchResult
  <2>3. QED
    BY <2>1, <2>2
<1>5. CASE Vvc
  BY <1>5 DEF Vvc, StartTransaction, CompleteTransaction, ResetTransaction, Trigger
<1>6. CASE UNCHANGED vars
  BY <1>6 DEF vars
<1>7. QED
  BY <1>1, <1>2, <1>3, <1>4, <1>5, <1>6 DEF Next, ReceiveProcess

\* Once listening is disabled, at most one more result reaches the server's queue.
THEOREM AtMostOneLateResult == Spec => []AtMostOneLate
<1>1. Init => LateInv
  BY DEF Init, LateInv
<1>2. LateInv => AtMostOneLate
  BY DEF LateInv, AtMostOneLate
<1>3. QED
  BY <1>1, <1>2, LateStep, PTL DEF Spec

-----------------------------------------------------------------------------
(* If listening is never disabled                                           *)

\* The VVC has the command sent last, and has not completed it ...
LastIsOpen == Len(commands) = 1 /\ status # "COMPLETED"
\* ... or is still busy with resetting the one before.
LastIsNext == Len(commands) = 2 /\ status = "COMPLETED"

LastResult == \E data \in BOOLEAN : results = {[idx |-> lastIdx, data |-> data]}

\* p_receive has one command outstanding, knows its index, and fetches its result
\* before it sends another one.
OneAtATime ==
    /\ ~failed
    /\ ~listen => pc = "clock"
    /\ commands # <<>> => commands[Len(commands)] = lastIdx
    /\ pc \in {"trigger", "seen", "fetch"} => cmdIdx = lastIdx
    /\ pc = "clock" => commands = <<>> /\ results = {}
    /\ pc \in {"sending", "trigger"} => (LastIsOpen \/ LastIsNext) /\ results = {}
    /\ pc = "seen" =>
          /\ Len(commands) = 1
          /\ \/ status = "IN_PROGRESS" /\ results = {}
             \/ status = "COMPLETED" /\ LastResult
    /\ pc = "fetch" =>
          /\ LastResult
          /\ \/ Len(commands) = 1 /\ status = "COMPLETED"
             \/ commands = <<>> /\ status = "INACTIVE"

LEMMA OneStep ==
    ASSUME Switches \subseteq {TRUE}, TypeOK, Waits, OneAtATime, [Next]_vars
    PROVE  OneAtATime'
<1> USE DEF OneAtATime, LastIsOpen, LastIsNext, LastResult
<1>a. commands \in Seq(Nat) /\ Len(commands) \in Nat /\ (commands = <<>> <=> Len(commands) = 0)
  BY LenProperties, EmptySeq DEF TypeOK
<1> DEFINE longer == Append(commands, lastIdx + 1)
<1>c. longer # <<>> /\ Len(longer) = Len(commands) + 1 /\ longer[Len(longer)] = lastIdx + 1
  <2>1. lastIdx + 1 \in Nat
    BY DEF TypeOK
  <2>2. QED
    BY <1>a, <2>1, AppendProperties
<1>d. status # "INACTIVE" => commands # <<>>
  BY DEF Waits
<1> HIDE DEF longer
<1>1. ASSUME NEW enable \in Switches, SetVvcListenEnable(enable)
      PROVE  OneAtATime'
  BY <1>1 DEF SetVvcListenEnable, vvc
<1>2. CASE ClockEdge
  <2>1. /\ pc = "clock" /\ UNCHANGED <<listen, status, results, failed>>
        /\ \/ ~listen /\ pc' = "clock" /\ UNCHANGED <<commands, lastIdx>>
           \/ /\ listen /\ pc' = "sending"
              /\ commands' = longer /\ lastIdx' = lastIdx + 1
    BY <1>2 DEF ClockEdge, InnerLoop, longer
  <2>2. QED
    BY <1>a, <1>c, <1>d, <2>1 DEF TypeOK
<1>3. CASE AwaitTrigger
  BY <1>3 DEF AwaitTrigger, vvc
<1>4. CASE SeeStatus
  BY <1>4 DEF SeeStatus, InnerLoop
<1>5. CASE FetchResult
  <2>1. {r \in results : r.idx = cmdIdx} = results /\ results # {}
    <3>1. pc = "fetch"
      BY <1>5 DEF FetchResult
    <3>2. PICK data \in BOOLEAN : results = {[idx |-> lastIdx, data |-> data]}
      BY <3>1
    <3>3. cmdIdx = lastIdx
      BY <3>1
    <3>4. QED
      BY <3>2, <3>3
  <2>2. results' = {} /\ ~failed'
    BY <1>5, <2>1 DEF FetchResult
  <2>3. pc = "fetch" /\ listen /\ pc' = "sending" /\ UNCHANGED <<listen, status>>
        /\ commands' = longer /\ lastIdx' = lastIdx + 1
    BY <1>5 DEF FetchResult, InnerLoop, longer
  <2>4. (LastIsOpen \/ LastIsNext)'
    <3>1. \/ Len(commands) = 1 /\ status = "COMPLETED"
          \/ Len(commands) = 0 /\ status = "INACTIVE"
      BY <1>a, <2>3
    <3>2. Len(commands') = Len(commands) + 1 /\ status' = status
      BY <1>c, <2>3
    <3>3. QED
      BY <3>1, <3>2
  <2>5. commands'[Len(commands')] = lastIdx'
    BY <1>c, <2>3
  <2>6. QED
    BY <2>2, <2>3, <2>4, <2>5
<1>6. CASE StartTransaction
  BY <1>6, <1>a DEF StartTransaction, Trigger
<1>7. ASSUME NEW data \in BOOLEAN, CompleteTransaction(data)
      PROVE  OneAtATime'
  <2>1. status = "IN_PROGRESS" /\ pc \in {"clock", "trigger", "sending"}
        /\ (pc = "sending" => Len(commands) > 1)
    BY <1>7 DEF CompleteTransaction
  <2>2. pc = "trigger" /\ Len(commands) = 1 /\ results = {}
    BY <1>a, <1>d, <2>1
  <2>3. Head(commands) = lastIdx
    BY <1>a, <2>2, HeadTailProperties
  <2>4. /\ pc' = "seen" /\ status' = "COMPLETED"
        /\ results' = {[idx |-> lastIdx, data |-> data]}
        /\ UNCHANGED <<listen, cmdIdx, commands, lastIdx, failed>>
    BY <1>7, <2>2, <2>3 DEF CompleteTransaction, Trigger
  <2>5. QED
    BY <2>2, <2>4
<1>8. CASE ResetTransaction
  <2> DEFINE rest == Tail(commands)
  <2>1. /\ status = "COMPLETED" /\ status' = "INACTIVE" /\ pc # "seen"
        /\ commands' = rest
        /\ UNCHANGED <<listen, pc, cmdIdx, lastIdx, results, failed>>
    BY <1>8 DEF ResetTransaction
  <2>2. /\ rest \in Seq(Nat) /\ Len(rest) = Len(commands) - 1
        /\ \A i \in 1..Len(rest) : rest[i] = commands[i + 1]
    BY <1>a, <1>d, <2>1, HeadTailProperties
  <2> HIDE DEF rest
  <2>3. rest = <<>> <=> Len(rest) = 0
    BY <2>2, EmptySeq
  <2>4. ASSUME Len(rest) = 1
        PROVE  rest[1] = commands[2]
    <3>1. 1 \in 1..Len(rest)
      BY <2>4
    <3>2. QED
      BY <2>2, <3>1
  <2>5. QED
    BY <1>a, <1>d, <2>1, <2>2, <2>3, <2>4
<1>9. CASE UNCHANGED vars
  BY <1>9 DEF vars, vvc
<1>10. QED
  BY <1>1, <1>2, <1>3, <1>4, <1>5, <1>6, <1>7, <1>8, <1>9 DEF Next, ReceiveProcess, Vvc

\* While clients only enable listening, p_receive fetches the result of every
\* command with the command's own index, and leaves none in the VVC, whatever
\* triggers it misses.
THEOREM FetchesItsResults ==
    ASSUME Switches \subseteq {TRUE}
    PROVE  Spec => [](FetchFindsResult /\ NoResultLeftBehind)
<1>1. Init => OneAtATime
  BY DEF Init, OneAtATime
<1>2. TypeOK /\ Waits /\ OneAtATime /\ [Next]_vars => OneAtATime'
  BY OneStep
<1>3. TypeOK /\ OneAtATime => FetchFindsResult /\ NoResultLeftBehind
  <2> SUFFICES ASSUME TypeOK, OneAtATime
               PROVE  FetchFindsResult /\ NoResultLeftBehind
    OBVIOUS
  <2>1. CASE results = {}
    BY <2>1 DEF OneAtATime, FetchFindsResult, NoResultLeftBehind
  <2>2. CASE results # {}
    <3>1. pc \in {"seen", "fetch"} /\ LastResult /\ cmdIdx = lastIdx
      BY <2>2 DEF OneAtATime, TypeOK
    <3>2. \A r \in results : r.idx = lastIdx
      BY <3>1 DEF LastResult
    <3>3. QED
      BY <3>1, <3>2 DEF OneAtATime, FetchFindsResult, NoResultLeftBehind
  <2>3. QED
    BY <2>1, <2>2
<1>4. QED
  BY <1>1, <1>2, <1>3, WaitsHold, PTL DEF Spec

\* A part of it: fetch_result never asks the VVC for a result that is not in its
\* queue, an alert in UVVM, while clients only enable listening.
THEOREM ResultIsThere ==
    ASSUME Switches \subseteq {TRUE}
    PROVE  Spec => []FetchFindsResult
BY FetchesItsResults, PTL
-----------------------------------------------------------------------------
(* If listening is never disabled: the stream of results                    *)

\* What was stored is what the VVC has produced, up to a result with data that is
\* still in the VVC: the one of the last command.
StoresInOrder ==
    produced = IF \E r \in results : r.data THEN Append(stored, lastIdx) ELSE stored

\* The histories do not change, or a result enters the stream, or the next one
\* leaves it; and StoresInOrder holds again.
NewResult ==
    /\ lastIdx \in Nat
    /\ produced' = Append(produced, lastIdx) /\ stored' = stored

OldResult ==
    /\ produced' = produced /\ stored' = produced
    /\ produced = Append(stored, lastIdx)

LEMMA HistoryStep ==
    ASSUME Switches \subseteq {TRUE}, TypeOK, Waits, OneAtATime, StoresInOrder, [Next]_vars
    PROVE  /\ StoresInOrder'
           /\ UNCHANGED <<produced, stored>> \/ NewResult \/ OldResult
<1>a. commands \in Seq(Nat) /\ Len(commands) \in Nat /\ (commands = <<>> <=> Len(commands) = 0)
  BY LenProperties, EmptySeq DEF TypeOK
<1>b. status # "INACTIVE" => commands # <<>>
  BY DEF Waits
<1>1. CASE UNCHANGED <<produced, stored, results, lastIdx>>
  BY <1>1 DEF StoresInOrder
<1>2. CASE UNCHANGED <<produced, stored, results>> /\ results = {}
  BY <1>2 DEF StoresInOrder
<1>3. ASSUME NEW enable \in Switches, SetVvcListenEnable(enable)
      PROVE  UNCHANGED <<produced, stored, results, lastIdx>>
  BY <1>3 DEF SetVvcListenEnable, vvc
<1>4. CASE ClockEdge
  BY <1>2, <1>4 DEF ClockEdge, OneAtATime
<1>5. CASE AwaitTrigger
  BY <1>1, <1>5 DEF AwaitTrigger, vvc
<1>6. CASE SeeStatus
  <2>1. pc = "seen" /\ UNCHANGED <<produced, stored, results>>
    BY <1>6 DEF SeeStatus
  <2>2. CASE status = "COMPLETED"
    BY <1>1, <1>6, <2>1, <2>2 DEF SeeStatus
  <2>3. CASE status # "COMPLETED"
    BY <1>2, <2>1, <2>3 DEF OneAtATime
  <2>4. QED
    BY <2>2, <2>3
<1>7. CASE FetchResult
  <2>1. pc = "fetch" /\ produced' = produced
    BY <1>7 DEF FetchResult
  <2>2. PICK data \in BOOLEAN : results = {[idx |-> lastIdx, data |-> data]}
    BY <2>1 DEF OneAtATime, LastResult
  <2>3. cmdIdx = lastIdx
    BY <2>1 DEF OneAtATime
  <2>4. {r \in results : r.idx = cmdIdx} = results
    BY <2>2, <2>3
  <2>5. results' = {}
    BY <1>7, <2>4 DEF FetchResult
  <2>6. IF data THEN stored' = Append(stored, lastIdx) ELSE stored' = stored
    <3> DEFINE full == \E r \in results : r.data
    <3>1. full <=> data
      BY <2>2
    <3>2. \/ (results = {} \/ full) /\ stored' = Append(stored, cmdIdx)
          \/ ~full /\ stored' = stored
      <4>1. (\A r \in results : ~r.data) <=> ~full
        OBVIOUS
      <4>2. QED
        BY <1>7, <2>4, <4>1 DEF FetchResult
    <3>3. results # {}
      BY <2>2
    <3> HIDE DEF full
    <3>4. QED
      BY <2>3, <3>1, <3>2, <3>3
  <2>7. produced = IF data THEN Append(stored, lastIdx) ELSE stored
    BY <2>2 DEF StoresInOrder
  <2>8. stored' = produced'
    BY <2>1, <2>6, <2>7
  <2>9. StoresInOrder'
    BY <2>5, <2>8 DEF StoresInOrder
  <2>10. QED
    BY <2>1, <2>6, <2>7, <2>8, <2>9 DEF OldResult
<1>8. CASE StartTransaction
  BY <1>1, <1>8 DEF StartTransaction
<1>9. ASSUME NEW data \in BOOLEAN, CompleteTransaction(data)
      PROVE  StoresInOrder' /\ (UNCHANGED <<produced, stored>> \/ NewResult)
  <2>1. status = "IN_PROGRESS" /\ pc \in {"clock", "trigger", "sending"}
        /\ (pc = "sending" => Len(commands) > 1)
    BY <1>9 DEF CompleteTransaction
  <2>2. pc = "trigger" /\ Len(commands) = 1 /\ results = {}
    BY <1>a, <1>b, <2>1 DEF OneAtATime, LastIsOpen, LastIsNext
  <2>3. Head(commands) = lastIdx
    BY <1>a, <2>2, HeadTailProperties DEF OneAtATime
  <2>4. /\ results' = {[idx |-> lastIdx, data |-> data]}
        /\ produced' = IF data THEN Append(produced, lastIdx) ELSE produced
        /\ UNCHANGED <<stored, lastIdx>>
    BY <1>9, <2>2, <2>3 DEF CompleteTransaction
  <2>5. produced = stored /\ lastIdx \in Nat
    BY <2>2 DEF StoresInOrder, TypeOK
  <2>6. (\E r \in results' : r.data) <=> data
    BY <2>4
  <2>7. QED
    BY <2>4, <2>5, <2>6 DEF StoresInOrder, NewResult
<1>10. CASE ResetTransaction
  BY <1>1, <1>10 DEF ResetTransaction
<1>11. CASE UNCHANGED vars
  BY <1>1, <1>11 DEF vars, vvc
<1>12. QED
  BY <1>1, <1>3, <1>4, <1>5, <1>6, <1>7, <1>8, <1>9, <1>10, <1>11
     DEF Next, ReceiveProcess, Vvc

LEMMA ResultStep ==
    ASSUME Switches \subseteq {TRUE}, TypeOK, Waits, OneAtATime, StoresInOrder, [Next]_vars
    PROVE  [Stream!Next]_(Stream!vars)
<1> DEFINE in == [s \in {"vvc"} |-> produced]  out == [s \in {"vvc"} |-> stored]
           one == <<lastIdx>>
<1>a. produced \in Seq(Nat) /\ stored \in Seq(Nat)
  BY DEF TypeOK
<1>1. CASE UNCHANGED <<produced, stored>>
  BY <1>1 DEF Stream!vars
<1>2. CASE NewResult
  <2>1. one \in Seq(Nat) /\ one # <<>> /\ produced' = produced \o one
    BY <1>2, <1>a, AppendIsConcat DEF NewResult
  <2> HIDE DEF one
  <2>2. Len(produced') > Len(produced) /\ SubSeq(produced', 1, Len(produced)) = produced
    BY <1>a, <2>1, PutBehindExtends
  <2>3. Stream!Enter("vvc")
    BY <1>2, <2>2 DEF NewResult, Stream!Enter, Stream!Extends
  <2>4. QED
    BY <2>3 DEF Stream!Next
<1>3. CASE OldResult
  <2>1. Len(produced) = Len(stored) + 1 /\ Len(stored) \in Nat
    BY <1>3, <1>a, LenProperties DEF OldResult, TypeOK
  <2>2. stored' = SubSeq(produced, 1, Len(stored) + 1)
    BY <1>3, <1>a, <2>1, SubSeqFull DEF OldResult
  <2>3. 1 \in 1..(Len(produced) - Len(stored))
    BY <2>1
  <2>4. Stream!Leave("vvc", 1)
    BY <1>3, <2>2 DEF OldResult, Stream!Leave
  <2>5. Stream!LeaveSome("vvc")
    BY <2>3, <2>4 DEF Stream!LeaveSome
  <2>6. QED
    BY <2>5 DEF Stream!Next
<1>4. QED
  BY <1>1, <1>2, <1>3, HistoryStep

\* While clients only enable listening, what reaches the server's queue is a
\* reliable stream of the data the VVC has received: in order, none lost before a
\* later one, none twice.  That each gets there in the end is left to TLC.
THEOREM ResultsAreAStream ==
    ASSUME Switches \subseteq {TRUE}
    PROVE  Spec => Stream!Spec
<1>1. Init => OneAtATime /\ StoresInOrder
  BY DEF Init, OneAtATime, StoresInOrder
<1>2. Init => Stream!Init
  BY DEF Init, Stream!Init
<1>3. TypeOK /\ Waits /\ OneAtATime /\ StoresInOrder /\ [Next]_vars
      => (OneAtATime /\ StoresInOrder)' /\ [Stream!Next]_(Stream!vars)
  BY OneStep, HistoryStep, ResultStep
<1>4. QED
  BY <1>1, <1>2, <1>3, WaitsHold, PTL DEF Spec, Stream!Spec

=============================================================================
