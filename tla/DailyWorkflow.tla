---------------------------- MODULE DailyWorkflow ----------------------------
(***************************************************************************)
(* One run of DailyOrchestrationService.run_daily_workflow                 *)
(* (services/daily_orchestration/service.py): a synchronous loop over the  *)
(* steps of a workflow definition that keeps its decisions in memory and   *)
(* records them in one file per step, one file for the execution, and the  *)
(* monitoring files of the run.  Every write is a step of this module, so  *)
(* that the process can die, or a write can raise, between any two.        *)
(*                                                                         *)
(* The definition of the workflow is a parameter: its number of steps,     *)
(* their retry policies, their failure actions and what their executors    *)
(* may return.  MCDailyWorkflow gives it the values of definitions.py.     *)
(***************************************************************************)
EXTENDS Integers, FiniteSets

CONSTANTS
    NumSteps,       \* steps of the workflow definition
    MaxAttempts,    \* RetryPolicy.max_attempts of every step
    AutoRetry,      \* the steps with automatic_retry_enabled
    FailureAction,  \* what a step that exhausts its attempts does to the run
    Returns,        \* the statuses the executor of a step may return
    WritesMayFail,  \* TRUE: a write inside the try of the loop may raise
    MayDie,         \* TRUE: the process may die, or raise outside the try
    None            \* a file that is missing, a verdict not yet reached

Steps == 1..NumSteps

FailureActions == {"fail_workflow", "attention_required_stop", "partial_continue"}
WorkflowStatus == {"queued", "running", "succeeded", "failed", "partial",
                   "attention_required"}
StepVerdict == {"succeeded", "attention_required"}
Verdict == {"succeeded", "failed", "partial", "attention_required"}
TerminalEvent == {"run_completed", "run_failed", "attention_required"}
Alert == {"workflow_failed", "attention_required"}

(* RetryPolicy: retries that are automatic have an attempt left to make.   *)
ASSUME WorkflowAssumption ==
    /\ NumSteps \in Nat \ {0}
    /\ MaxAttempts \in [Steps -> Nat \ {0}]
    /\ AutoRetry \subseteq Steps
    /\ FailureAction \in [Steps -> FailureActions]
    /\ Returns \in [Steps -> (SUBSET StepVerdict) \ {{}}]
    /\ WritesMayFail \in BOOLEAN /\ MayDie \in BOOLEAN

RunStep == [status : WorkflowStatus, attempts : Nat, manualStop : BOOLEAN]
RunSummary == [status : Verdict, attention : SUBSET Steps, failures : SUBSET Steps]

ASSUME NoneAssumption ==
    None \notin WorkflowStatus \cup TerminalEvent \cup RunStep \cup RunSummary

VARIABLES
    (* the files of the run *)
    stepFile,     \* run_steps/
    execStatus,   \* workflow_executions/ : its status ...
    execLinks,    \* ... and the steps whose outputs it links
    started,      \* pipeline_events/ : the RUN_STARTED event
    ended,        \* pipeline_events/ : the terminal event
    alerts,       \* alert_records/ of this run
    summary,      \* run_summaries/
    (* the local variables of run_daily_workflow *)
    pc, step, attempt,
    current,      \* the RunStep the loop works on
    settled,      \* outcome is not None
    raised,       \* step_error is not None
    verdict,      \* workflow_status
    links,        \* the steps in child_run_summary_ids and produced_artifact_ids
    attention,    \* the steps with an attention reason
    failures      \* the steps with a failure message

files == <<stepFile, execStatus, execLinks, started, ended, alerts, summary>>
monitoring == <<started, ended, alerts, summary>>
locals == <<step, attempt, current, settled, raised, verdict, links, attention, failures>>
vars == <<files, pc, locals>>

Control == {"write_execution", "write_steps", "start_event", "begin", "execute",
            "record_step", "record_execution", "handle", "record_failure",
            "advance", "end_event", "alert", "summarize", "done", "dead"}

TypeOK ==
    /\ stepFile \in [Steps -> RunStep \cup {None}]
    /\ execStatus \in {"running", None} \cup Verdict
    /\ execLinks \subseteq Steps
    /\ started \in BOOLEAN
    /\ ended \in TerminalEvent \cup {None}
    /\ alerts \subseteq Alert
    /\ summary \in RunSummary \cup {None}
    /\ pc \in Control
    /\ step \in Steps
    /\ attempt \in 1..MaxAttempts[step]
    /\ current \in RunStep
    /\ settled \in BOOLEAN /\ raised \in BOOLEAN
    /\ verdict \in Verdict \cup {None}
    /\ links \subseteq Steps /\ attention \subseteq Steps /\ failures \subseteq Steps

Queued == [status |-> "queued", attempts |-> 0, manualStop |-> FALSE]

Init ==
    /\ stepFile = [s \in Steps |-> None]
    /\ execStatus = None /\ execLinks = {}
    /\ started = FALSE /\ ended = None /\ alerts = {} /\ summary = None
    /\ pc = "write_execution" /\ step = 1 /\ attempt = 1
    /\ current = Queued
    /\ settled = FALSE /\ raised = FALSE
    /\ verdict = None
    /\ links = {} /\ attention = {} /\ failures = {}

-----------------------------------------------------------------------------
(* Before the loop: the execution, the queued steps, the start event.      *)

WriteExecution ==
    /\ pc = "write_execution"
    /\ execStatus' = "running"
    /\ pc' = "write_steps"
    /\ UNCHANGED <<stepFile, execLinks, monitoring, locals>>

(* The next step without a file; the last one leads to the start event.    *)
WriteQueuedStep ==
    /\ pc = "write_steps"
    /\ stepFile' = [stepFile EXCEPT ![step] = Queued]
    /\ IF step < NumSteps THEN step' = step + 1 /\ pc' = pc
                          ELSE step' = 1 /\ pc' = "start_event"
    /\ attempt' = 1
    /\ UNCHANGED <<execStatus, execLinks, monitoring, current, settled, raised,
                   verdict, links, attention, failures>>

RecordStartEvent ==
    /\ pc = "start_event"
    /\ started' = TRUE
    /\ pc' = "begin"
    /\ UNCHANGED <<stepFile, execStatus, execLinks, ended, alerts, summary, locals>>

-----------------------------------------------------------------------------
(* The loop.                                                               *)

BeginStep ==
    /\ pc = "begin"
    /\ current' = [Queued EXCEPT !.status = "running"]
    /\ stepFile' = [stepFile EXCEPT ![step] = current']
    /\ attempt' = 1 /\ settled' = FALSE /\ raised' = FALSE
    /\ pc' = "execute"
    /\ UNCHANGED <<execStatus, execLinks, monitoring, step, verdict, links, attention,
                   failures>>

(* An executor whose status asks for attention also carries the manual     *)
(* intervention requirement (executors.py).                                *)
ExecutorReturns ==
    /\ pc = "execute"
    /\ \E status \in Returns[step] :
         current' = [status |-> status, attempts |-> attempt,
                     manualStop |-> status = "attention_required"]
    /\ settled' = TRUE
    /\ pc' = "record_step"
    /\ UNCHANGED <<files, step, attempt, raised, verdict, links, attention, failures>>

ExecutorRaises ==
    /\ pc = "execute"
    /\ raised' = TRUE
    /\ pc' = "handle"
    /\ UNCHANGED <<files, step, attempt, current, settled, verdict, links, attention,
                   failures>>

(* The outputs are linked in memory between the two writes of the try.     *)
RecordStep ==
    /\ pc = "record_step"
    /\ stepFile' = [stepFile EXCEPT ![step] = current]
    /\ links' = links \cup {step}
    /\ pc' = "record_execution"
    /\ UNCHANGED <<execStatus, execLinks, monitoring, step, attempt, current, settled,
                   raised, verdict, attention, failures>>

RecordExecution ==
    /\ pc = "record_execution"
    /\ execLinks' = links
    /\ attention' = attention \cup (IF current.status = "attention_required"
                                      THEN {step} ELSE {})
    /\ pc' = "advance"
    /\ UNCHANGED <<stepFile, execStatus, monitoring, step, attempt, current, settled,
                   raised, verdict, links, failures>>

(* A write of the try that raises is handled like a failure of the step.   *)
WriteRaises ==
    /\ WritesMayFail
    /\ pc \in {"record_step", "record_execution"}
    /\ raised' = TRUE
    /\ pc' = "handle"
    /\ UNCHANGED <<files, step, attempt, current, settled, verdict, links, attention,
                   failures>>

\* Mutant: the last attempt the policy grants is never made.
MayRetryOffByOne == step \in AutoRetry /\ attempt + 1 < MaxAttempts[step]

MayRetry == step \in AutoRetry /\ attempt < MaxAttempts[step]

\* Mutant: the attempts are not counted.
NextAttemptForgotten == attempt

NextAttempt == attempt + 1

(* The retry keeps the status the step has, a status that an attempt whose *)
(* record failed already settled included.                                 *)
Retry ==
    /\ pc = "handle" /\ MayRetry
    /\ current' = [current EXCEPT !.attempts = attempt]
    /\ stepFile' = [stepFile EXCEPT ![step] = current']
    /\ attempt' = NextAttempt
    /\ pc' = "execute"
    /\ UNCHANGED <<execStatus, execLinks, monitoring, step, settled, raised, verdict,
                   links, attention, failures>>

VerdictOf(action) ==
    CASE action = "fail_workflow" -> "failed"
      [] action = "attention_required_stop" -> "attention_required"
      [] OTHER -> "partial"

\* Mutant: a step that stops the run for attention does not say what to do.
FailedStepWithoutRequirement(s, tries) ==
    [status |-> IF FailureAction[s] = "attention_required_stop" THEN "attention_required"
                                                                ELSE "failed",
     attempts |-> tries, manualStop |-> current.manualStop]

(* Only a step that stops the run for attention is not recorded as failed. *)
FailedStep(s, tries) ==
    LET stop == FailureAction[s] = "attention_required_stop" IN
    [status |-> IF stop THEN "attention_required" ELSE "failed",
     attempts |-> tries, manualStop |-> stop \/ current.manualStop]

GiveUp ==
    /\ pc = "handle" /\ ~ MayRetry
    /\ failures' = failures \cup {step}
    /\ verdict' = VerdictOf(FailureAction[step])
    /\ attention' = attention \cup (IF FailureAction[step] = "attention_required_stop"
                                      THEN {step} ELSE {})
    /\ current' = FailedStep(step, attempt)
    /\ stepFile' = [stepFile EXCEPT ![step] = current']
    /\ pc' = "record_failure"
    /\ UNCHANGED <<execStatus, execLinks, monitoring, step, attempt, settled, raised, links>>

RecordFailure ==
    /\ pc = "record_failure"
    /\ execLinks' = links
    /\ pc' = "advance"
    /\ UNCHANGED <<stepFile, execStatus, monitoring, locals>>

\* Mutant: the loop runs to its end whatever a step did.
StopsNever == FALSE

(* No executor asks to stop the workflow (stop_workflow stays False).      *)
Stops == verdict \in {"failed", "partial", "attention_required"} /\ (~ settled \/ raised)

NextStep ==
    /\ pc = "advance" /\ ~ Stops /\ step < NumSteps
    /\ step' = step + 1
    /\ attempt' = 1
    /\ pc' = "begin"
    /\ UNCHANGED <<files, current, settled, raised, verdict, links, attention, failures>>

\* Mutant: what a step said about attention is lost at the end.
FinalVerdictWithoutAttention == IF verdict # None THEN verdict ELSE "succeeded"

\* Mutant: a run without a failure has no verdict at the end.
FinalVerdictUnset == verdict

FinalVerdict ==
    IF verdict # None THEN verdict
    ELSE IF attention # {} THEN "attention_required" ELSE "succeeded"

\* Mutant: the last record of the execution leaves the links of the last step out.
FinalLinksWithoutLastStep == links \ {step}

FinalLinks == links

FinishExecution ==
    /\ pc = "advance" /\ (Stops \/ step = NumSteps)
    /\ verdict' = FinalVerdict
    /\ execStatus' = FinalVerdict /\ execLinks' = FinalLinks
    /\ pc' = "end_event"
    /\ UNCHANGED <<stepFile, monitoring, step, attempt, current, settled, raised, links,
                   attention, failures>>

-----------------------------------------------------------------------------
(* After the loop: the terminal event, the alert and the summary of the run *)
(* (MonitoringService.record_pipeline_event and record_run_summary).       *)

\* Mutant: the event of a run that stopped for attention reports a completion.
EventOfOnlyFailures(status) ==
    IF status = "failed" THEN "run_failed" ELSE "run_completed"

EventOf(status) ==
    CASE status = "failed" -> "run_failed"
      [] status = "attention_required" -> "attention_required"
      [] OTHER -> "run_completed"

RecordTerminalEvent ==
    /\ pc = "end_event"
    /\ ended' = EventOf(verdict)
    /\ pc' = "alert"
    /\ UNCHANGED <<stepFile, execStatus, execLinks, started, alerts, summary, locals>>

AlertsOf(status) ==
    CASE status = "failed" -> {"workflow_failed"}
      [] status = "attention_required" -> {"attention_required"}
      [] OTHER -> {}

RecordAlerts ==
    /\ pc = "alert"
    /\ alerts' = AlertsOf(verdict)
    /\ pc' = "summarize"
    /\ UNCHANGED <<stepFile, execStatus, execLinks, started, ended, summary, locals>>

RecordRunSummary ==
    /\ pc = "summarize"
    /\ summary' = [status |-> verdict, attention |-> attention, failures |-> failures]
    /\ pc' = "done"
    /\ UNCHANGED <<stepFile, execStatus, execLinks, started, ended, alerts, locals>>

(* The process dies, or a write outside the try raises: nothing resumes    *)
(* the run.                                                                *)
Die ==
    /\ MayDie
    /\ pc \notin {"done", "dead"}
    /\ pc' = "dead"
    /\ UNCHANGED <<files, locals>>

Advance ==
    \/ WriteExecution \/ WriteQueuedStep \/ RecordStartEvent
    \/ BeginStep \/ ExecutorReturns \/ ExecutorRaises
    \/ RecordStep \/ RecordExecution \/ WriteRaises
    \/ Retry \/ GiveUp \/ RecordFailure
    \/ NextStep \/ FinishExecution
    \/ RecordTerminalEvent \/ RecordAlerts \/ RecordRunSummary

Next == Advance \/ Die

Spec == Init /\ [][Next]_vars

(* The run is one synchronous call: as long as its process lives, it goes  *)
(* on to its next statement.                                               *)
FairSpec == Spec /\ WF_vars(Advance)

-----------------------------------------------------------------------------
(* What a reader of the files may rely on.                                 *)

Written(s) == stepFile[s] # None
Status(s) == stepFile[s].status
Concluded == execStatus \in Verdict

(* A step only starts once every step before it, and so every step it      *)
(* depends on, has ended without a failure: run_daily_workflow breaks its  *)
(* loop at the first failure whatever the action of the step that failed.  *)
StepsStartInOrder ==
    \A s \in Steps : Written(s) /\ Status(s) # "queued" =>
        \A d \in 1..(s - 1) :
            Written(d) /\ Status(d) \in StepVerdict /\ d \notin failures

(* The execution file of a run that concluded and its step files, written  *)
(* one after the other, tell the same story: a failed run has a step that  *)
(* failed hard, a partial one a step that failed softly, a run that asks   *)
(* for attention a step that does, and a run that succeeded nothing else.  *)
VerdictExplained ==
    Concluded =>
    LET Failed(action) == \E s \in Steps : Status(s) = "failed" /\ FailureAction[s] = action
        Stopped == \E s \in Steps : Status(s) = "attention_required"
    IN  /\ execStatus = "failed" <=> Failed("fail_workflow")
        /\ execStatus = "partial" <=> Failed("partial_continue")
        /\ execStatus = "attention_required" =>
             Stopped /\ \A s \in Steps : Status(s) # "failed"
        /\ execStatus = "succeeded" <=> \A s \in Steps : Status(s) = "succeeded"

(* A step that asks for attention says what the operator has to do, and    *)
(* no other step does unless its record failed after the executor said so. *)
AttentionCarriesARequirement ==
    \A s \in Steps : Written(s) =>
        /\ Status(s) = "attention_required" => stepFile[s].manualStop
        /\ stepFile[s].manualStop /\ s \notin failures => Status(s) = "attention_required"

(* An execution links the outputs of every step that ended well as soon as *)
(* the next one starts, and of no step that never ran, so that an operator *)
(* finds what a run that died half-way has produced.                       *)
OutputsAreLinked ==
    /\ \A s \in execLinks : Written(s) /\ Status(s) # "queued"
    /\ \A s, t \in Steps :
         s < t /\ Written(t) /\ Status(t) # "queued" => s \in execLinks
    /\ Concluded => \A s \in Steps : Status(s) = "succeeded" => s \in execLinks

(* What monitoring reports of a run agrees with its execution file: no     *)
(* terminal event, alert or summary before the execution has concluded,    *)
(* and none that says anything else than its status.                       *)
MonitoringAgrees ==
    /\ ended # None => Concluded /\ (ended = "run_failed" <=> execStatus = "failed")
                         /\ (ended = "attention_required" <=> execStatus = "attention_required")
    /\ alerts # {} => ended \in {"run_failed", "attention_required"}
    /\ summary # None =>
         /\ summary.status = execStatus
         /\ alerts = {} => execStatus \in {"succeeded", "partial"}
         /\ execStatus = "succeeded" => summary.attention = {} /\ summary.failures = {}

(* A step is tried as often as its retry policy grants, and only the step  *)
(* that used up every attempt makes its run fail.                          *)
Granted(s) == IF s \in AutoRetry THEN MaxAttempts[s] ELSE 1
FailsOnlyAfterItsAttempts ==
    \A s \in Steps : Written(s) =>
        /\ stepFile[s].attempts <= Granted(s)
        /\ Status(s) = "failed" \/ s \in failures => stepFile[s].attempts = Granted(s)

(* A run that nothing kills ends, with its conclusion and its summary      *)
(* written, however often its executors and its records fail.              *)
RunConcludes == <>(pc = "dead" \/ (Concluded /\ summary # None))
=============================================================================
