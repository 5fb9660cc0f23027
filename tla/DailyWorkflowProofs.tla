------------------------- MODULE DailyWorkflowProofs -------------------------
(***************************************************************************)
(* What holds of the files of a run for every workflow definition: for any *)
(* number of steps, any retry policies and failure actions, any executors  *)
(* and any death or failing write.                                         *)
(***************************************************************************)
EXTENDS DailyWorkflow, TLAPS

-----------------------------------------------------------------------------
(* The inductive invariant: the promises that the files keep by themselves *)
(* (a process that died has only files left), and what the loop knows      *)
(* between two of its statements.                                          *)

Preparing == {"write_execution", "write_steps", "start_event"}
Trying == {"execute", "record_step", "record_execution", "handle"}
Loop == {"begin", "record_failure", "advance"} \cup Trying
Closing == {"end_event", "alert", "summarize", "done"}

(* Step s has started and no failure has ended it.                         *)
Live(r, s) ==
    /\ r \in RunStep
    /\ r.status \in {"running"} \cup StepVerdict
    /\ r.manualStop <=> r.status = "attention_required"
    /\ r.attempts <= Granted(s)

(* A step that is behind: ended well, linked and, if it asked for it, noted *)
(* among the reasons for attention.                                        *)
EndedWell(s) ==
    /\ Live(stepFile[s], s) /\ stepFile[s].status \in StepVerdict
    /\ s \in attention <=> stepFile[s].status = "attention_required"

NothingReported == ended = None /\ alerts = {} /\ summary = None

PreparingInv ==
    /\ execStatus \in {"running", None}
    /\ execLinks = {} /\ links = {} /\ attention = {} /\ failures = {} /\ verdict = None
    /\ \A s \in Steps : stepFile[s] \in {None, Queued}
    /\ \A s \in Steps : pc = "start_event" \/ (pc = "write_steps" /\ s < step) =>
                          stepFile[s] = Queued
    /\ (pc # "write_steps" => step = 1) /\ attempt = 1
    /\ pc # "write_execution" => execStatus = "running"
    /\ NothingReported

(* What every statement of the loop relies on.                             *)
LoopInv ==
    /\ execStatus = "running"
    /\ execLinks \subseteq links /\ links \subseteq 1..step /\ 1..(step - 1) \subseteq execLinks
    /\ \A s \in 1..(step - 1) : EndedWell(s)
    /\ \A s \in (step + 1)..NumSteps : stepFile[s] = Queued /\ s \notin attention
    /\ attempt = 1 \/ step \in AutoRetry
    /\ NothingReported

(* The current step has not failed yet.                                    *)
TryingInv ==
    /\ verdict = None /\ failures = {}
    /\ step \notin attention
    /\ pc = "begin" => stepFile[step] = Queued /\ step \notin links
    /\ pc # "begin" => Live(current, step) /\ Live(stepFile[step], step)
    /\ pc \in {"record_step", "record_execution"} => current.status \in StepVerdict
    /\ pc = "record_execution" => stepFile[step] = current /\ step \in links
    /\ pc = "handle" => raised

(* The current step ended well, or made the run fail.                      *)
EndedInv ==
    IF verdict = None
      THEN /\ pc = "advance"
           /\ failures = {}
           /\ EndedWell(step) /\ step \in execLinks
      ELSE /\ verdict = VerdictOf(FailureAction[step])
           /\ failures = {step} /\ raised
           /\ stepFile[step] = FailedStep(step, Granted(step))

ClosingInv ==
    /\ execStatus = verdict /\ verdict \in Verdict
    /\ verdict = "succeeded" => attention = {} /\ failures = {}
    /\ ended = IF pc = "end_event" THEN None ELSE EventOf(verdict)
    /\ alerts = IF pc \in {"end_event", "alert"} THEN {} ELSE AlertsOf(verdict)
    /\ pc # "done" => summary = None

FilesInv ==
    /\ StepsStartInOrder /\ VerdictExplained /\ AttentionCarriesARequirement
    /\ OutputsAreLinked /\ MonitoringAgrees /\ FailsOnlyAfterItsAttempts

PhaseInv ==
    /\ pc \in Preparing => PreparingInv
    /\ pc \in Loop => LoopInv
    /\ pc \in {"begin"} \cup Trying => TryingInv
    /\ pc \in {"record_failure", "advance"} => EndedInv
    /\ pc \in Closing => ClosingInv

IInv == TypeOK /\ FilesInv /\ PhaseInv

-----------------------------------------------------------------------------
(* There is a first step, every step may be tried once, and every step but *)
(* the last has a successor.                                               *)
LEMMA StepsTyped ==
    /\ 1 \in Steps /\ NumSteps \in Nat
    /\ \A s \in Steps : s \in Nat /\ 1 \in 1..MaxAttempts[s]
    /\ \A s \in Steps : s < NumSteps => s + 1 \in Steps
BY WorkflowAssumption DEF Steps

(* Nothing is written yet. *)
LEMMA InitTyped == Init => TypeOK
<1> SUFFICES ASSUME Init PROVE TypeOK
  OBVIOUS
<1>1. stepFile \in [Steps -> RunStep \cup {None}]
  BY DEF Init
<1>2. current \in RunStep
  BY DEF Init, Queued, RunStep, WorkflowStatus
<1>3. QED
  BY <1>1, <1>2, StepsTyped DEF Init, TypeOK, Control

(* Every step keeps the files and the local variables well typed; that the *)
(* summary has a verdict to record is known from the invariant.            *)
LEMMA TypeKept ==
    ASSUME TypeOK, pc \in Closing => verdict \in Verdict, [Next]_vars
    PROVE  TypeOK'
<1> USE DEF TypeOK, files, monitoring, locals, RunStep, WorkflowStatus, Verdict, Control,
            TerminalEvent, Alert, Closing
<1>1. CASE WriteExecution
  BY <1>1 DEF WriteExecution
<1>2. CASE WriteQueuedStep
  BY <1>2, StepsTyped DEF WriteQueuedStep, Queued
<1>3. CASE RecordStartEvent
  BY <1>3 DEF RecordStartEvent
<1>4. CASE BeginStep
  BY <1>4, StepsTyped DEF BeginStep, Queued
<1>5. CASE ExecutorReturns
  BY <1>5, WorkflowAssumption DEF ExecutorReturns, StepVerdict, Steps
<1>6. CASE ExecutorRaises
  BY <1>6 DEF ExecutorRaises
<1>7. CASE RecordStep
  BY <1>7 DEF RecordStep
<1>8. CASE RecordExecution
  BY <1>8 DEF RecordExecution
<1>9. CASE WriteRaises
  BY <1>9 DEF WriteRaises
<1>10. CASE Retry
  <2>1. attempt \in Nat /\ MaxAttempts[step] \in Nat
    BY StepsTyped, WorkflowAssumption
  <2>2. attempt' \in 1..MaxAttempts[step] /\ step' = step
    BY <1>10, <2>1 DEF Retry, MayRetry, NextAttempt
  <2>3. current' \in RunStep
    BY <1>10, <2>1 DEF Retry
  <2> HIDE DEF RunStep
  <2>4. QED
    BY <1>10, <2>2, <2>3 DEF Retry
<1>11. CASE GiveUp
  BY <1>11 DEF GiveUp, FailedStep, VerdictOf
<1>12. CASE RecordFailure
  BY <1>12 DEF RecordFailure
<1>13. CASE NextStep
  BY <1>13, StepsTyped DEF NextStep
<1>14. CASE FinishExecution
  BY <1>14 DEF FinishExecution, FinalVerdict, FinalLinks
<1>15. CASE RecordTerminalEvent
  BY <1>15 DEF RecordTerminalEvent, EventOf
<1>16. CASE RecordAlerts
  BY <1>16 DEF RecordAlerts, AlertsOf
<1>17. CASE RecordRunSummary
  BY <1>17 DEF RecordRunSummary, RunSummary
<1>18. CASE Die
  BY <1>18 DEF Die
<1>19. CASE UNCHANGED vars
  BY <1>19 DEF vars
<1>20. QED
  BY <1>1, <1>2, <1>3, <1>4, <1>5, <1>6, <1>7, <1>8, <1>9, <1>10, <1>11, <1>12, <1>13, <1>14,
     <1>15, <1>16, <1>17, <1>18, <1>19 DEF Next, Advance

-----------------------------------------------------------------------------
(* Every step keeps the invariant: first the statements that only move the *)
(* local variables, then each statement that writes a file.                *)

(* The promises about the files mention nothing else.                      *)
LEMMA FilesKept ==
    ASSUME FilesInv, UNCHANGED <<stepFile, execStatus, execLinks, ended, alerts, summary, failures>>
    PROVE  FilesInv'
BY DEF FilesInv, StepsStartInOrder, VerdictExplained, AttentionCarriesARequirement,
       OutputsAreLinked, MonitoringAgrees, FailsOnlyAfterItsAttempts, Written, Status, Concluded

(* A process that dies leaves the files as they are.                       *)
LEMMA DieKeeps ==
    ASSUME IInv, Die
    PROVE  FilesInv' /\ PhaseInv'
<1>1. FilesInv'
  BY FilesKept DEF IInv, Die, files, locals
<1>2. PhaseInv'
  BY DEF Die, PhaseInv, Preparing, Loop, Trying, Closing
<1>3. QED
  BY <1>1, <1>2

LEMMA StutterKeeps ==
    ASSUME IInv, UNCHANGED vars
    PROVE  IInv'
<1>1. TypeOK' /\ FilesInv'
  BY TypeKept, FilesKept DEF IInv, vars, files, locals, PhaseInv, ClosingInv
<1>2. PhaseInv'
  BY DEF IInv, vars, files, monitoring, locals, PhaseInv, PreparingInv, LoopInv, TryingInv, EndedInv,
         ClosingInv, NothingReported, EndedWell, Live, FailedStep, Granted
<1>3. QED
  BY <1>1, <1>2 DEF IInv

(* Nothing has started while the files of the run are prepared.            *)
LEMMA PreparingFiles == PreparingInv => FilesInv
<1> SUFFICES ASSUME PreparingInv PROVE FilesInv
  OBVIOUS
<1>1. \A s \in Steps : Written(s) => stepFile[s] = Queued
  BY DEF PreparingInv, Written
<1>2. execStatus \notin Verdict
  BY NoneAssumption DEF PreparingInv, Verdict, WorkflowStatus
<1>3. StepsStartInOrder /\ AttentionCarriesARequirement /\ FailsOnlyAfterItsAttempts
  BY <1>1, StepsTyped, WorkflowAssumption DEF StepsStartInOrder, AttentionCarriesARequirement,
     FailsOnlyAfterItsAttempts, Granted, Status, Queued, PreparingInv
<1>4. VerdictExplained /\ OutputsAreLinked /\ MonitoringAgrees
  BY <1>1, <1>2 DEF VerdictExplained, OutputsAreLinked, MonitoringAgrees, Concluded, Status,
     Queued, PreparingInv, NothingReported
<1>5. QED
  BY <1>3, <1>4 DEF FilesInv

LEMMA PreparationKeeps ==
    ASSUME IInv, WriteExecution \/ WriteQueuedStep \/ RecordStartEvent, TypeOK'
    PROVE  FilesInv' /\ PhaseInv'
<1> USE DEF monitoring, locals
<1>1. pc \in Preparing /\ PreparingInv /\ TypeOK
  BY DEF WriteExecution, WriteQueuedStep, RecordStartEvent, Preparing, IInv, PhaseInv
<1>2. CASE WriteExecution \/ WriteQueuedStep
  <2>1. \A s \in Steps : stepFile'[s] \in {None, Queued}
    BY <1>1, <1>2 DEF WriteExecution, WriteQueuedStep, PreparingInv, TypeOK
  <2>2. \A s \in Steps : pc' = "start_event" \/ (pc' = "write_steps" /\ s < step') =>
                          stepFile'[s] = Queued
    <3>1. CASE WriteExecution
      <4>1. \A s \in Steps : ~ (s < 1)
        BY DEF Steps
      <4>2. QED
        BY <1>1, <3>1, <4>1 DEF WriteExecution, PreparingInv
    <3>2. CASE WriteQueuedStep /\ step < NumSteps
      <4>1. \A s \in Steps : s < step + 1 => s < step \/ s = step
        BY <1>1, StepsTyped DEF TypeOK
      <4>2. QED
        BY <1>1, <3>2, <4>1 DEF WriteQueuedStep, PreparingInv, TypeOK
    <3>3. CASE WriteQueuedStep /\ ~ (step < NumSteps)
      <4>1. \A s \in Steps : s < step \/ s = step
        BY <1>1, <3>3, StepsTyped DEF Steps, TypeOK
      <4>2. QED
        BY <1>1, <3>3, <4>1 DEF WriteQueuedStep, PreparingInv, TypeOK
    <3>4. QED
      BY <1>2, <3>1, <3>2, <3>3
  <2>3. PreparingInv'
    <3>1. CASE WriteExecution
      BY <1>1, <2>1, <2>2, <3>1 DEF WriteExecution, PreparingInv, NothingReported
    <3>2. CASE WriteQueuedStep
      BY <1>1, <2>1, <2>2, <3>2 DEF WriteQueuedStep, PreparingInv, NothingReported
    <3>3. QED
      BY <1>2, <3>1, <3>2
  <2>4. pc' \in Preparing
    BY <1>1, <1>2 DEF WriteExecution, WriteQueuedStep, Preparing
  <2>5. FilesInv'
    BY <2>3, PreparingFiles, PTL
  <2>6. PhaseInv'
    BY <2>3, <2>4 DEF PhaseInv, Preparing, Loop, Trying, Closing
  <2>7. QED
    BY <2>5, <2>6
<1>3. CASE RecordStartEvent
  <2>1. FilesInv'
    BY <1>3, FilesKept DEF IInv, RecordStartEvent
  <2>2. step = 1 /\ \A s \in Steps : stepFile[s] = Queued
    BY <1>1, <1>3 DEF RecordStartEvent, PreparingInv
  <2>3. LoopInv'
    <3>1. 1..(step - 1) = {} /\ (step + 1)..NumSteps \subseteq Steps
      BY <2>2, StepsTyped DEF Steps
    <3>2. execStatus = "running" /\ execLinks = {} /\ links = {} /\ attention = {}
          /\ attempt = 1
      BY <1>1, <1>3 DEF RecordStartEvent, PreparingInv, TypeOK
    <3>3. QED
      BY <1>1, <1>3, <2>2, <3>1, <3>2 DEF RecordStartEvent, PreparingInv, LoopInv, NothingReported
  <2>4. TryingInv'
    BY <1>1, <1>3, <2>2, StepsTyped DEF RecordStartEvent, PreparingInv, TryingInv, NothingReported
  <2>5. PhaseInv'
    BY <1>3, <2>3, <2>4 DEF RecordStartEvent, PhaseInv, Preparing, Loop, Trying, Closing
  <2>6. QED
    BY <2>1, <2>5
<1>4. QED
  BY <1>2, <1>3

(* What the other steps look like while the loop works on one.             *)
LEMMA OtherSteps ==
    ASSUME TypeOK, LoopInv
    PROVE  /\ step \in Steps
           /\ \A s \in Steps : s # step => EndedWell(s) \/ stepFile[s] = Queued
           /\ \A s, t \in Steps : s < t /\ stepFile[t] # Queued =>
                s \in 1..(step - 1) /\ s \in execLinks /\ EndedWell(s)
           /\ \A s \in Steps : EndedWell(s) => stepFile[s] # None
           /\ \A s \in links : s = step \/ (s \in Steps /\ EndedWell(s))
           /\ \A s \in Steps : Granted(s) \in Nat \ {0}
           /\ Queued \in RunStep /\ Queued.status = "queued" /\ Queued.attempts = 0
           /\ ~ Queued.manualStop
           /\ execStatus = "running" /\ ~ Concluded
<1>1. /\ step \in Steps /\ step \in Nat
      /\ \A s \in Steps : s \in 1..(step - 1) \/ s = step \/ s \in (step + 1)..NumSteps
  BY StepsTyped DEF TypeOK, Steps
<1>2. \A s \in Steps : s # step => EndedWell(s) \/ stepFile[s] = Queued
  BY <1>1 DEF LoopInv
<1>3. \A s, t \in Steps : s < t /\ stepFile[t] # Queued => s \in 1..(step - 1)
  BY <1>1 DEF LoopInv, Steps
<1>4. \A s, t \in Steps : s < t /\ stepFile[t] # Queued =>
        s \in 1..(step - 1) /\ s \in execLinks /\ EndedWell(s)
  BY <1>3 DEF LoopInv
<1>5. \A s \in Steps : EndedWell(s) => stepFile[s] # None
  BY NoneAssumption DEF EndedWell, Live
<1>6. \A s \in links : s = step \/ (s \in Steps /\ EndedWell(s))
  BY <1>1 DEF LoopInv, TypeOK
<1>7. \A s \in Steps : Granted(s) \in Nat \ {0}
  BY WorkflowAssumption DEF Granted, Steps
<1>8. Queued \in RunStep /\ Queued.status = "queued" /\ Queued.attempts = 0 /\ ~ Queued.manualStop
  BY DEF Queued, RunStep, WorkflowStatus
<1>9. execStatus = "running" /\ ~ Concluded
  BY DEF LoopInv, Concluded, Verdict
<1>10. QED
  BY <1>1, <1>2, <1>4, <1>5, <1>6, <1>7, <1>8, <1>9

(* The loop writes one step at a time, in order, and so keeps the promises *)
(* as long as the current step has not failed ...                          *)
LEMMA RunningFiles ==
    ASSUME TypeOK, LoopInv, failures = {},
           Live(stepFile[step], step) \/ (stepFile[step] = Queued /\ step \notin links)
    PROVE  FilesInv
<1>1. \A s \in Steps : Live(stepFile[s], s) \/ stepFile[s] = Queued
  BY OtherSteps DEF EndedWell
<1>2. StepsStartInOrder
  <2>1. \A s \in Steps : \A d \in 1..(s - 1) : d \in Steps /\ d < s
    BY StepsTyped DEF Steps
  <2>2. QED
    BY <2>1, OtherSteps DEF StepsStartInOrder, EndedWell, Written, Status
<1>3. AttentionCarriesARequirement /\ FailsOnlyAfterItsAttempts
  BY <1>1, OtherSteps DEF AttentionCarriesARequirement, FailsOnlyAfterItsAttempts, Live, Status,
     StepVerdict, RunStep
<1>4. OutputsAreLinked
  <2>1. \A s \in execLinks : s \in Steps /\ Live(stepFile[s], s)
    BY OtherSteps DEF LoopInv, EndedWell
  <2>2. \A s \in execLinks : Written(s) /\ Status(s) # "queued"
    BY <2>1, NoneAssumption DEF Live, Written, Status, StepVerdict
  <2>3. QED
    BY <2>2, OtherSteps DEF OutputsAreLinked, Status
<1>5. VerdictExplained /\ MonitoringAgrees
  BY OtherSteps DEF VerdictExplained, MonitoringAgrees, LoopInv, NothingReported
<1>6. QED
  BY <1>2, <1>3, <1>4, <1>5 DEF FilesInv

(* ... and when it has: it then used up its attempts.                      *)
LEMMA FailedFiles ==
    ASSUME TypeOK, LoopInv, failures = {step}, stepFile[step] = FailedStep(step, Granted(step))
    PROVE  FilesInv
<1>1. /\ stepFile[step].status \in {"failed", "attention_required"}
      /\ stepFile[step].status = "attention_required" => stepFile[step].manualStop
      /\ stepFile[step].attempts = Granted(step)
      /\ stepFile[step] # None
  <2>1. FailedStep(step, Granted(step)) \in RunStep
    BY OtherSteps DEF FailedStep, TypeOK, RunStep, WorkflowStatus
  <2>2. stepFile[step] # None
    BY <2>1, NoneAssumption
  <2>3. CASE FailureAction[step] = "attention_required_stop"
    <3>1. stepFile[step] = [status |-> "attention_required", attempts |-> Granted(step),
                            manualStop |-> TRUE]
      BY <2>3 DEF FailedStep
    <3>2. QED
      BY <2>2, <3>1
  <2>4. CASE FailureAction[step] # "attention_required_stop"
    <3>1. stepFile[step].status = "failed" /\ stepFile[step].attempts = Granted(step)
      BY <2>4 DEF FailedStep
    <3>2. QED
      BY <2>2, <3>1
  <2>5. QED
    BY <2>3, <2>4
<1>2. \A s \in Steps : s # step => Live(stepFile[s], s) \/ stepFile[s] = Queued
  BY OtherSteps DEF EndedWell
<1>3. StepsStartInOrder
  <2>1. \A s \in Steps : \A d \in 1..(s - 1) : d \in Steps /\ d < s
    BY StepsTyped DEF Steps
  <2>2. \A d \in 1..(step - 1) : d # step
    BY OtherSteps DEF Steps
  <2>3. QED
    BY <2>1, <2>2, OtherSteps DEF StepsStartInOrder, EndedWell, Written, Status
<1>4. AttentionCarriesARequirement /\ FailsOnlyAfterItsAttempts
  BY <1>1, <1>2, OtherSteps DEF AttentionCarriesARequirement, FailsOnlyAfterItsAttempts, Live, Status,
     StepVerdict, RunStep
<1>5. OutputsAreLinked
  <2>1. \A s \in execLinks : s = step \/ (s \in Steps /\ Live(stepFile[s], s))
    BY OtherSteps DEF LoopInv, EndedWell
  <2>2. \A s \in execLinks : Written(s) /\ Status(s) # "queued"
    BY <1>1, <2>1, NoneAssumption DEF Live, Written, Status, StepVerdict
  <2>3. QED
    BY <2>2, OtherSteps DEF OutputsAreLinked, Status
<1>6. VerdictExplained /\ MonitoringAgrees
  BY OtherSteps DEF VerdictExplained, MonitoringAgrees, LoopInv, NothingReported
<1>7. QED
  BY <1>3, <1>4, <1>5, <1>6 DEF FilesInv

(* So the loop keeps the promises whatever statement it has reached.       *)
LEMMA LoopFiles == TypeOK /\ LoopInv /\ (TryingInv \/ EndedInv) => FilesInv
<1> SUFFICES ASSUME TypeOK, LoopInv, TryingInv \/ EndedInv PROVE FilesInv
  OBVIOUS
<1>1. CASE TryingInv
  BY <1>1, RunningFiles DEF TryingInv
<1>2. CASE EndedInv /\ verdict = None
  BY <1>2, RunningFiles DEF EndedInv, EndedWell
<1>3. CASE EndedInv /\ verdict # None
  BY <1>3, FailedFiles DEF EndedInv
<1>4. QED
  BY <1>1, <1>2, <1>3

(* From here on it is enough to say how a statement leaves the loop.       *)
LEMMA LoopStep ==
    ASSUME TypeOK', LoopInv',
           \/ pc' \in {"begin"} \cup Trying /\ TryingInv'
           \/ pc' \in {"record_failure", "advance"} /\ EndedInv'
    PROVE  FilesInv' /\ PhaseInv'
<1>1. FilesInv'
  BY LoopFiles, PTL
<1>2. PhaseInv'
  BY DEF PhaseInv, Preparing, Loop, Trying, Closing
<1>3. QED
  BY <1>1, <1>2

(* The steps but the current one are as they were.                         *)
LEMMA OthersKept ==
    ASSUME TypeOK, LoopInv, step' = step, attempt' = 1 \/ step \in AutoRetry,
           UNCHANGED <<execStatus, ended, alerts, summary>>,
           links' \in {links, links \cup {step}}, execLinks' \in {execLinks, links},
           \A s \in Steps : s # step => stepFile'[s] = stepFile[s] /\ (s \in attention' <=> s \in attention)
    PROVE  LoopInv'
<1>1. step \in Nat \ {0} /\ \A s \in 1..(step - 1) : s # step /\ s \in Steps
  BY StepsTyped DEF TypeOK, Steps
<1>2. \A s \in (step + 1)..NumSteps : s # step /\ s \in Steps
  BY StepsTyped DEF TypeOK, Steps
<1>3. execLinks' \subseteq links' /\ links' \subseteq 1..step /\ 1..(step - 1) \subseteq execLinks'
  BY <1>1 DEF LoopInv
<1>4. \A s \in 1..(step - 1) : EndedWell(s)'
  BY <1>1 DEF LoopInv, EndedWell, Live, Granted
<1>5. QED
  BY <1>2, <1>3, <1>4 DEF LoopInv, NothingReported

(* What an executor returns is the status of a step that has not failed.   *)
LEMMA InMemoryKeeps ==
    ASSUME IInv, ExecutorReturns \/ ExecutorRaises \/ WriteRaises, TypeOK'
    PROVE  FilesInv' /\ PhaseInv'
<1> USE DEF files, locals
<1>1. pc \in Trying /\ pc' \in Trying /\ TypeOK /\ LoopInv /\ TryingInv
  BY DEF ExecutorReturns, ExecutorRaises, WriteRaises, Trying, Loop, IInv, PhaseInv
<1>2. LoopInv'
  BY <1>1, OthersKept DEF ExecutorReturns, ExecutorRaises, WriteRaises, LoopInv
<1>3. CASE ExecutorReturns
  <2>1. PICK status \in Returns[step] :
          current' = [status |-> status, attempts |-> attempt,
                      manualStop |-> status = "attention_required"]
    BY <1>3 DEF ExecutorReturns
  <2>2. status \in StepVerdict
    BY <1>1, WorkflowAssumption DEF TypeOK
  <2>3. attempt <= Granted(step)
    BY <1>1, WorkflowAssumption DEF LoopInv, Granted, TypeOK, Steps
  <2>4. current' \in RunStep
    BY <1>1, <1>3 DEF IInv, TypeOK
  <2>5. Live(current, step)' /\ current'.status \in StepVerdict
    BY <1>3, <2>1, <2>2, <2>3, <2>4 DEF ExecutorReturns, Live, Granted
  <2>6. TryingInv'
    BY <1>1, <1>3, <2>5 DEF ExecutorReturns, TryingInv, Live, Granted, Trying
  <2>7. QED
    BY <1>1, <1>2, <2>6, LoopStep
<1>4. CASE ExecutorRaises \/ WriteRaises
  <2>1. TryingInv'
    BY <1>1, <1>4 DEF ExecutorRaises, WriteRaises, TryingInv, Live, Granted, Trying
  <2>2. QED
    BY <1>1, <1>2, <2>1, LoopStep
<1>5. QED
  BY <1>3, <1>4

LEMMA BeginStepKeeps ==
    ASSUME IInv, BeginStep, TypeOK'
    PROVE  FilesInv' /\ PhaseInv'
<1> USE DEF files, monitoring
<1>1. TypeOK /\ LoopInv /\ TryingInv
  BY DEF BeginStep, Trying, Loop, IInv, PhaseInv
<1>2. LoopInv'
  BY <1>1, OthersKept DEF BeginStep, TypeOK
<1>3. /\ current' = [status |-> "running", attempts |-> 0, manualStop |-> FALSE]
      /\ stepFile'[step] = current' /\ step' = step
  BY <1>1 DEF BeginStep, Queued, TypeOK
<1>4. Live(current, step)' /\ Live(stepFile[step], step)'
  <2>1. Granted(step) \in Nat
    BY <1>1, OtherSteps
  <2>2. /\ current' \in RunStep /\ current'.status = "running" /\ ~ current'.manualStop
        /\ current'.attempts = 0
    BY <1>3 DEF RunStep, WorkflowStatus
  <2>3. Live(current, step)'
    BY <1>3, <2>1, <2>2 DEF Live, Granted
  <2>4. QED
    BY <1>3, <2>3 DEF Live, Granted
<1>5. TryingInv' /\ pc' \in Trying
  BY <1>1, <1>3, <1>4 DEF BeginStep, TryingInv, Trying
<1>6. QED
  BY <1>2, <1>5, LoopStep

LEMMA RecordStepKeeps ==
    ASSUME IInv, RecordStep, TypeOK'
    PROVE  FilesInv' /\ PhaseInv'
<1> USE DEF files, monitoring
<1>1. TypeOK /\ LoopInv /\ TryingInv
  BY DEF RecordStep, Trying, Loop, IInv, PhaseInv
<1>2. LoopInv'
  BY <1>1, OthersKept DEF RecordStep, TypeOK, LoopInv
<1>3. stepFile'[step] = current /\ UNCHANGED <<step, current>> /\ step \in links'
  BY <1>1 DEF RecordStep, TypeOK
<1>4. Live(current, step) /\ current.status \in StepVerdict
  BY <1>1 DEF RecordStep, TryingInv
<1>5. TryingInv' /\ pc' \in Trying
  BY <1>1, <1>3, <1>4 DEF RecordStep, TryingInv, Trying, Live, Granted
<1>6. QED
  BY <1>2, <1>5, LoopStep

LEMMA RecordExecutionKeeps ==
    ASSUME IInv, RecordExecution, TypeOK'
    PROVE  FilesInv' /\ PhaseInv'
<1> USE DEF files, monitoring
<1>1. TypeOK /\ LoopInv /\ TryingInv
  BY DEF RecordExecution, Trying, Loop, IInv, PhaseInv
<1>2. LoopInv'
  BY <1>1, OthersKept DEF RecordExecution, LoopInv
<1>3. /\ stepFile[step] = current /\ step \in links /\ step \notin attention
      /\ Live(current, step) /\ current.status \in StepVerdict
      /\ verdict = None /\ failures = {}
  BY <1>1 DEF RecordExecution, TryingInv
<1>4. EndedInv' /\ pc' = "advance"
  BY <1>3 DEF RecordExecution, EndedInv, EndedWell, Live, Granted
<1>5. QED
  BY <1>2, <1>4, LoopStep

LEMMA RetryKeeps ==
    ASSUME IInv, Retry, TypeOK'
    PROVE  FilesInv' /\ PhaseInv'
<1> USE DEF files, monitoring
<1>1. TypeOK /\ LoopInv /\ TryingInv
  BY DEF Retry, Trying, Loop, IInv, PhaseInv
<1>2. LoopInv'
  BY <1>1, OthersKept DEF Retry, MayRetry, TypeOK, LoopInv
<1>3. /\ current' = [current EXCEPT !.attempts = attempt]
      /\ stepFile'[step] = current' /\ step' = step
  BY <1>1 DEF Retry, TypeOK
<1>4. Live(current, step)
  BY <1>1 DEF Retry, TryingInv
<1>5. attempt <= Granted(step) /\ attempt \in Nat
  BY <1>1, WorkflowAssumption DEF LoopInv, Granted, TypeOK, Steps
<1>6. Live(current, step)' /\ Live(stepFile[step], step)'
  BY <1>3, <1>4, <1>5 DEF Live, RunStep, Granted
<1>7. TryingInv' /\ pc' \in Trying
  BY <1>1, <1>3, <1>6 DEF Retry, TryingInv, Trying
<1>8. QED
  BY <1>2, <1>7, LoopStep

LEMMA GiveUpKeeps ==
    ASSUME IInv, GiveUp, TypeOK'
    PROVE  FilesInv' /\ PhaseInv'
<1> USE DEF files, monitoring
<1>1. TypeOK /\ LoopInv /\ TryingInv
  BY DEF GiveUp, Trying, Loop, IInv, PhaseInv
<1>2. LoopInv'
  BY <1>1, OthersKept DEF GiveUp, TypeOK, LoopInv
<1>3. attempt = Granted(step)
  BY <1>1, WorkflowAssumption DEF GiveUp, MayRetry, LoopInv, Granted, TypeOK, Steps
<1>4. stepFile'[step] = FailedStep(step, Granted(step)) /\ current' = FailedStep(step, Granted(step))
      /\ step' = step
  BY <1>1, <1>3 DEF GiveUp, TypeOK
<1>5. FailedStep(step, Granted(step)) = FailedStep(step, Granted(step))'
  BY <1>4 DEF FailedStep, Granted
<1>6. verdict' = VerdictOf(FailureAction[step]) /\ verdict' # None /\ failures' = {step} /\ raised'
  BY <1>1, NoneAssumption DEF GiveUp, TryingInv, VerdictOf, WorkflowStatus
<1>7. EndedInv' /\ pc' = "record_failure"
  BY <1>4, <1>5, <1>6 DEF GiveUp, EndedInv
<1>8. QED
  BY <1>2, <1>7, LoopStep

LEMMA RecordFailureKeeps ==
    ASSUME IInv, RecordFailure, TypeOK'
    PROVE  FilesInv' /\ PhaseInv'
<1> USE DEF monitoring, locals
<1>1. TypeOK /\ LoopInv /\ EndedInv /\ verdict # None
  BY DEF RecordFailure, Loop, IInv, PhaseInv, EndedInv
<1>2. LoopInv'
  BY <1>1, OthersKept DEF RecordFailure, LoopInv
<1>3. EndedInv' /\ pc' = "advance"
  BY <1>1 DEF RecordFailure, EndedInv, FailedStep, Granted
<1>4. QED
  BY <1>2, <1>3, LoopStep

(* The loop only goes on from a step that ended well.                      *)
LEMMA NextStepKeeps ==
    ASSUME IInv, NextStep, TypeOK'
    PROVE  FilesInv' /\ PhaseInv'
<1> USE DEF files
<1>1. TypeOK /\ LoopInv /\ EndedInv
  BY DEF NextStep, Loop, IInv, PhaseInv
<1>2. verdict = None
  <2>1. \A action : VerdictOf(action) \in {"failed", "partial", "attention_required"}
    BY DEF VerdictOf
  <2>2. QED
    BY <1>1, <2>1 DEF NextStep, Stops, EndedInv
<1>3. EndedWell(step) /\ step \in execLinks /\ failures = {}
  BY <1>1, <1>2 DEF EndedInv
<1>4. /\ step \in Nat \ {0} /\ NumSteps \in Nat /\ step' = step + 1 /\ step < NumSteps
      /\ 1..(step' - 1) = 1..(step - 1) \cup {step}
      /\ (step' + 1)..NumSteps \subseteq (step + 1)..NumSteps
      /\ step' \in (step + 1)..NumSteps /\ links \subseteq 1..step'
  BY <1>1, StepsTyped DEF NextStep, TypeOK, Steps, LoopInv
<1>5. \A s \in 1..(step' - 1) : EndedWell(s)'
  <2>1. \A s \in 1..(step' - 1) : EndedWell(s)
    BY <1>1, <1>3, <1>4 DEF LoopInv
  <2>2. QED
    BY <2>1 DEF NextStep, EndedWell, Live, Granted
<1>6. LoopInv'
  BY <1>1, <1>3, <1>4, <1>5 DEF NextStep, LoopInv, NothingReported
<1>7. TryingInv' /\ pc' = "begin"
  <2>1. stepFile[step'] = Queued /\ step' \notin attention
    BY <1>1, <1>4 DEF LoopInv
  <2>2. step' \notin links
    BY <1>1, <1>4 DEF LoopInv
  <2>3. QED
    BY <1>2, <1>3, <2>1, <2>2 DEF NextStep, TryingInv
<1>8. QED
  BY <1>6, <1>7, LoopStep

(* The execution concludes with a verdict that the step files explain.     *)
LEMMA FinishExecutionKeeps ==
    ASSUME IInv, FinishExecution, TypeOK'
    PROVE  FilesInv' /\ PhaseInv'
<1> USE DEF files, monitoring
<1>1. TypeOK /\ LoopInv /\ EndedInv /\ FilesInv /\ pc = "advance"
  BY DEF FinishExecution, Loop, IInv, PhaseInv
<1>2. /\ execStatus' = FinalVerdict /\ verdict' = FinalVerdict /\ execLinks' = links
      /\ UNCHANGED <<stepFile, ended, alerts, summary, failures, attention>> /\ pc' = "end_event"
  BY DEF FinishExecution, FinalLinks
<1>3. FinalVerdict \in Verdict
  BY <1>1 DEF FinalVerdict, TypeOK, Verdict
<1>4. FinalVerdict = "succeeded" => attention = {} /\ failures = {}
  <2>1. \A action : VerdictOf(action) # "succeeded"
    BY DEF VerdictOf
  <2>2. QED
    BY <1>1, <2>1 DEF FinalVerdict, EndedInv
<1>5. PhaseInv'
  <2>1. ClosingInv'
    BY <1>1, <1>2, <1>3, <1>4 DEF ClosingInv, LoopInv, NothingReported
  <2>2. QED
    BY <1>2, <2>1 DEF PhaseInv, Preparing, Loop, Trying, Closing
<1>6. StepsStartInOrder' /\ AttentionCarriesARequirement' /\ FailsOnlyAfterItsAttempts'
  BY <1>1, <1>2 DEF FilesInv, StepsStartInOrder, AttentionCarriesARequirement,
     FailsOnlyAfterItsAttempts, Written, Status
<1>7. MonitoringAgrees'
  BY <1>1, <1>2 DEF MonitoringAgrees, LoopInv, NothingReported
<1>8. CASE verdict = None
  <2>1. step = NumSteps /\ \A s \in Steps : EndedWell(s)
    <3>1. step = NumSteps
      BY <1>8, NoneAssumption DEF FinishExecution, Stops, WorkflowStatus
    <3>2. \A s \in Steps : s = step \/ s \in 1..(step - 1)
      BY <3>1, StepsTyped DEF Steps
    <3>3. QED
      BY <1>1, <1>8, <3>1, <3>2 DEF LoopInv, EndedInv
  <2>2. \A s \in Steps : /\ Status(s) \in {"succeeded", "attention_required"}
                         /\ s \in attention <=> Status(s) = "attention_required"
                         /\ Written(s)
    BY <2>1, NoneAssumption DEF EndedWell, Live, Status, StepVerdict, Written
  <2>3. FinalVerdict = IF attention # {} THEN "attention_required" ELSE "succeeded"
    BY <1>8 DEF FinalVerdict
  <2>4. attention # {} <=> \E s \in Steps : Status(s) = "attention_required"
    BY <1>1, <2>2 DEF TypeOK
  <2>5. VerdictExplained'
    BY <1>2, <2>2, <2>3, <2>4 DEF VerdictExplained, Concluded, Status
  <2>6. OutputsAreLinked'
    <3>1. links \subseteq Steps /\ Steps \subseteq links
      <4>1. \A s \in Steps : s = step \/ s \in 1..(step - 1)
        BY <2>1, StepsTyped DEF Steps
      <4>2. QED
        BY <1>1, <1>8, <4>1 DEF LoopInv, EndedInv, TypeOK
    <3>2. QED
      BY <1>2, <2>2, <3>1 DEF OutputsAreLinked, Written, Status
  <2>7. QED
    BY <1>5, <1>6, <1>7, <2>5, <2>6 DEF FilesInv
<1>9. CASE verdict # None
  <2>1. /\ FinalVerdict = VerdictOf(FailureAction[step])
        /\ stepFile[step] = FailedStep(step, Granted(step))
    BY <1>1, <1>9 DEF FinalVerdict, EndedInv
  <2>2. /\ Status(step) = IF FailureAction[step] = "attention_required_stop"
                            THEN "attention_required" ELSE "failed"
        /\ Written(step)
    <3>1. FailedStep(step, Granted(step)) \in RunStep
      BY <1>1, OtherSteps DEF FailedStep, TypeOK, RunStep, WorkflowStatus
    <3>2. Written(step)
      BY <2>1, <3>1, NoneAssumption DEF Written
    <3>3. QED
      BY <2>1, <3>2 DEF Status, FailedStep
  <2>3. \A s \in Steps : s # step => Status(s) \in {"queued", "running", "succeeded", "attention_required"}
    BY <1>1, OtherSteps DEF EndedWell, Live, Status, StepVerdict
  <2>4. step \in Steps /\ FailureAction[step] \in FailureActions
    BY <1>1, WorkflowAssumption DEF TypeOK
  <2>5. VerdictExplained'
    BY <1>2, <2>1, <2>2, <2>3, <2>4 DEF VerdictExplained, Concluded, Status, VerdictOf, FailureActions
  <2>6. OutputsAreLinked'
    <3>1. \A s \in links : Written(s) /\ Status(s) # "queued"
      BY <1>1, <2>2, OtherSteps, NoneAssumption DEF EndedWell, Live, Status, StepVerdict, Written
    <3>2. \A s, t \in Steps : s < t /\ Written(t) /\ Status(t) # "queued" => s \in links
      BY <1>1 DEF FilesInv, OutputsAreLinked, LoopInv
    <3>3. \A s \in Steps : Status(s) = "succeeded" => s \in links
      <4>1. \A s \in Steps : s \in 1..(step - 1) \/ s = step \/ s \in (step + 1)..NumSteps
        BY <2>4, StepsTyped DEF Steps
      <4>2. QED
        BY <1>1, <2>2, <4>1, OtherSteps DEF LoopInv, Status
    <3>4. QED
      BY <1>2, <3>1, <3>2, <3>3 DEF OutputsAreLinked, Written, Status
  <2>7. QED
    BY <1>5, <1>6, <1>7, <2>5, <2>6 DEF FilesInv
<1>10. QED
  BY <1>8, <1>9

(* What monitoring writes agrees with the execution that has concluded.    *)
LEMMA ClosingKeeps ==
    ASSUME IInv, RecordTerminalEvent \/ RecordAlerts \/ RecordRunSummary, TypeOK'
    PROVE  FilesInv' /\ PhaseInv'
<1> USE DEF locals
<1>1. /\ ClosingInv /\ pc \in Closing /\ pc' \in Closing
      /\ UNCHANGED <<stepFile, execStatus, execLinks, failures, attention, verdict>>
  BY DEF RecordTerminalEvent, RecordAlerts, RecordRunSummary, Closing, IInv, PhaseInv
<1>2. ClosingInv'
  BY <1>1 DEF RecordTerminalEvent, RecordAlerts, RecordRunSummary, ClosingInv, EventOf, AlertsOf
<1>3. PhaseInv'
  BY <1>1, <1>2 DEF PhaseInv, Preparing, Loop, Trying, Closing
<1>4. /\ StepsStartInOrder' /\ AttentionCarriesARequirement' /\ FailsOnlyAfterItsAttempts'
      /\ VerdictExplained' /\ OutputsAreLinked'
  BY <1>1 DEF IInv, FilesInv, StepsStartInOrder, AttentionCarriesARequirement,
     FailsOnlyAfterItsAttempts, VerdictExplained, OutputsAreLinked, Written, Status, Concluded
<1>5. MonitoringAgrees'
  <2>1. execStatus' = verdict /\ verdict \in Verdict /\ Concluded'
    BY <1>1 DEF ClosingInv, Concluded
  <2>2. /\ ended' \in {None, EventOf(verdict)} /\ (alerts' # {} => ended' = EventOf(verdict))
        /\ alerts' \in {{}, AlertsOf(verdict)} /\ (summary' # None => alerts' = AlertsOf(verdict))
    BY <1>1, <1>2 DEF ClosingInv
  <2>3. summary' # None => summary' = [status |-> verdict, attention |-> attention, failures |-> failures]
    BY <1>1 DEF RecordTerminalEvent, RecordAlerts, RecordRunSummary, ClosingInv
  <2>4. QED
    BY <1>1, <2>1, <2>2, <2>3, NoneAssumption DEF MonitoringAgrees, ClosingInv, EventOf, AlertsOf, Verdict
<1>6. QED
  BY <1>3, <1>4, <1>5 DEF FilesInv

-----------------------------------------------------------------------------
(* The invariant, and what it says of every run.                           *)

LEMMA InitIInv == Init => IInv
<1> SUFFICES ASSUME Init PROVE IInv
  OBVIOUS
<1>1. TypeOK
  BY InitTyped
<1>2. PreparingInv /\ pc = "write_execution"
  BY DEF Init, PreparingInv, NothingReported
<1>3. FilesInv
  BY <1>2, PreparingFiles
<1>4. PhaseInv
  BY <1>2 DEF PhaseInv, Preparing, Loop, Trying, Closing
<1>5. QED
  BY <1>1, <1>3, <1>4 DEF IInv

LEMMA NextIInv == IInv /\ [Next]_vars => IInv'
<1> SUFFICES ASSUME IInv, [Next]_vars PROVE IInv'
  OBVIOUS
<1>1. TypeOK'
  BY TypeKept DEF IInv, PhaseInv, ClosingInv
<1>2. CASE UNCHANGED vars
  BY <1>2, StutterKeeps
<1>3. CASE Die
  BY <1>1, <1>3, DieKeeps DEF IInv
<1>4. CASE WriteExecution \/ WriteQueuedStep \/ RecordStartEvent
  BY <1>1, <1>4, PreparationKeeps DEF IInv
<1>5. CASE ExecutorReturns \/ ExecutorRaises \/ WriteRaises
  BY <1>1, <1>5, InMemoryKeeps DEF IInv
<1>6. CASE BeginStep \/ RecordStep \/ RecordExecution
  BY <1>1, <1>6, BeginStepKeeps, RecordStepKeeps, RecordExecutionKeeps DEF IInv
<1>7. CASE Retry \/ GiveUp \/ RecordFailure
  BY <1>1, <1>7, RetryKeeps, GiveUpKeeps, RecordFailureKeeps DEF IInv
<1>8. CASE NextStep \/ FinishExecution
  BY <1>1, <1>8, NextStepKeeps, FinishExecutionKeeps DEF IInv
<1>9. CASE RecordTerminalEvent \/ RecordAlerts \/ RecordRunSummary
  BY <1>1, <1>9, ClosingKeeps DEF IInv
<1>10. QED
  BY <1>2, <1>3, <1>4, <1>5, <1>6, <1>7, <1>8, <1>9 DEF Next, Advance

(* The inductive invariant holds in every reachable state. *)
THEOREM Invariance == Spec => []IInv
BY InitIInv, NextIInv, PTL DEF Spec

(* The files and the local variables of a run are always well typed.       *)
THEOREM TypeCorrect == Spec => []TypeOK
<1>1. IInv => TypeOK
  BY DEF IInv
<1>2. QED
  BY <1>1, Invariance, PTL

(* In a workflow of any length a step only starts after every earlier one  *)
(* ended without a failure.                                                *)
THEOREM StepsAlwaysStartInOrder == Spec => []StepsStartInOrder
<1>1. IInv => StepsStartInOrder
  BY DEF IInv, FilesInv
<1>2. QED
  BY <1>1, Invariance, PTL

(* Whatever the failure actions of its steps, the verdict of a run that    *)
(* concluded is the one its step files explain.                            *)
THEOREM VerdictsAreExplained == Spec => []VerdictExplained
<1>1. IInv => VerdictExplained
  BY DEF IInv, FilesInv
<1>2. QED
  BY <1>1, Invariance, PTL

(* A step file that asks for attention always carries a requirement.       *)
THEOREM AttentionIsExplained == Spec => []AttentionCarriesARequirement
<1>1. IInv => AttentionCarriesARequirement
  BY DEF IInv, FilesInv
<1>2. QED
  BY <1>1, Invariance, PTL

(* Wherever a run dies, its execution file links what its steps produced.  *)
THEOREM OutputsAreAlwaysLinked == Spec => []OutputsAreLinked
<1>1. IInv => OutputsAreLinked
  BY DEF IInv, FilesInv
<1>2. QED
  BY <1>1, Invariance, PTL

(* No event, alert or summary ever contradicts the execution file.         *)
THEOREM MonitoringAlwaysAgrees == Spec => []MonitoringAgrees
<1>1. IInv => MonitoringAgrees
  BY DEF IInv, FilesInv
<1>2. QED
  BY <1>1, Invariance, PTL

(* No step exceeds the attempts its policy grants, or fails before them.   *)
THEOREM AttemptsAreBounded == Spec => []FailsOnlyAfterItsAttempts
<1>1. IInv => FailsOnlyAfterItsAttempts
  BY DEF IInv, FilesInv
<1>2. QED
  BY <1>1, Invariance, PTL
=============================================================================
