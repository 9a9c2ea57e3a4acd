---------------------------- MODULE PipelineRun ----------------------------
(***************************************************************************)
(* The hourly run of the trade_pipeline DAG over the landing of FileLoad:  *)
(* tasks in order, attempts, the gates, what a run publishes and the       *)
(* state in which the run ends.  A file stands for its rows, which move    *)
(* together through queue, adjudicated log and marts; what can come        *)
(* between rows there is in ChangeCapture and TradeMarts.                  *)
(*                                                                         *)
(* Tasks that keep no state of the pipeline (preflight, freshness, seed,   *)
(* staging, test, snapshot, reconcile) can only succeed or fail; they are  *)
(* taken together with the task that follows or precedes them.             *)
(***************************************************************************)
EXTENDS FileLoad

CONSTANTS
    Rejects,        \* file |-> rows that adjudication rejects
    MaxRetries,     \* "retries" of load_files
    RejectWindow,   \* hours gate_reject_rate looks back
    MaxNow          \* bound: hours

ASSUME RunAssumption ==
    /\ Rejects \in [Files -> Nat]
    /\ \A f \in Files : Rejects[f] <= Rows[f]
    /\ MaxRetries \in Nat /\ RejectWindow \in Nat

VARIABLES
    generated,      \* files written by the simulator, the feed or the command line
    drained,        \* files whose rows are in TRADE_EVENT_QUEUE
    adjudicated,    \* files with verdicts, and the hour they got them
    published,      \* files whose accepted rows are in the marts
    run             \* the latest DAG run

vars == <<loadVars, generated, drained, adjudicated, published, run>>
tableVars == <<generated, drained, adjudicated, published>>

-----------------------------------------------------------------------------
Pipeline == <<"wait_for_files", "load_files", "drain_stream", "gate_load_integrity",
              "dbt_run_adjudication", "gate_reject_rate", "dbt_run_marts",
              "gate_publish_readiness", "report_health">>
Task == {Pipeline[i] : i \in DOMAIN Pipeline}
Position == [t \in Task |-> CHOOSE i \in DOMAIN Pipeline : Pipeline[i] = t]

\* detected is what wait_for_files returned, loaded what load_files did
Run == [state : {"running", "success", "failed"}, task : Task \cup {"end"}, tries : Nat,
        failed : SUBSET Task, scheduled_at : Nat, source : {"local", "stage"},
        detected : SUBSET Files, loaded : SUBSET Files]

NewRun == [state |-> "running", task |-> "wait_for_files", tries |-> 0, failed |-> {},
           scheduled_at |-> now, source |-> "local", detected |-> {}, loaded |-> {}]

At(t) == run.state = "running" /\ run.task = t
Advanced == [run EXCEPT !.task = Pipeline[Position[run.task] + 1], !.tries = 0]

(* A failed task leaves those after it upstream_failed, down to            *)
(* report_health, whose trigger rule is ALL_DONE.  Only if report_health   *)
(* itself fails is end not reached.                                        *)
Failed ==
    IF run.task = "report_health"
      THEN [run EXCEPT !.failed = @ \cup {run.task}, !.state = "failed"]
      ELSE [run EXCEPT !.failed = @ \cup {run.task}, !.task = "report_health", !.tries = 0]

(* An attempt fails: tried again, or given up.                             *)
Retried == IF run.tries < MaxRetries
             THEN [run EXCEPT !.tries = @ + 1]
             ELSE Failed

(* Bound: batches left after what the current run may still register.      *)
RunMayRegister ==
    IF run.state = "running" /\ run.task \in {"wait_for_files", "load_files"}
      THEN MaxRetries + 1 - run.tries ELSE 0
RoomFor(n) == Len(loadBatch) + RunMayRegister + n <= MaxBatches

Init ==
    /\ LoadInit
    /\ generated = {} /\ drained = {} /\ adjudicated = {} /\ published = {}
    /\ run = [NewRun EXCEPT !.state = "success", !.task = "end", !.scheduled_at = 0]

-----------------------------------------------------------------------------
(* One run at a time (max_active_runs = 1), one per hour, no catch-up.     *)
StartRun ==
    /\ run.state # "running"
    /\ now > run.scheduled_at
    /\ RoomFor(MaxRetries + 1)
    /\ run' = NewRun
    /\ UNCHANGED <<loadVars, tableVars>>

(* simulate_arrivals writes one file, unless it is configured off; then    *)
(* any file on the stage will do, one that was loaded before included.     *)
WaitForFiles ==
    /\ At("wait_for_files")
    /\ \/ \E f \in Files \ generated :
            /\ generated' = generated \cup {f}
            /\ run' = [Advanced EXCEPT !.source = "local", !.detected = {f}]
       \/ /\ stage # {}
          /\ run' = [Advanced EXCEPT !.source = "stage", !.detected = stage]
          /\ UNCHANGED generated
    /\ UNCHANGED <<loadVars, drained, adjudicated, published>>

(* Mutant: a sensor without a timeout.                                     *)
NoSensorTimeout == FALSE

SensorTimesOut ==
    /\ At("wait_for_files")
    /\ stage = {}
    /\ run' = Failed
    /\ UNCHANGED <<loadVars, tableVars>>

(* load_files: PUT, without overwrite, then the COPY procedure.            *)
CallLoad ==
    /\ At("load_files")
    /\ Put(IF run.source = "local" THEN run.detected ELSE {})
    /\ RegisterBatch("dag", IF run.source = "local" THEN run.detected ELSE Files)
    /\ UNCHANGED <<tableVars, run>>

LoadReturns ==
    /\ At("load_files") /\ call["dag"].pc = "returned"
    /\ run' = [Advanced EXCEPT !.loaded = call["dag"].loaded]
    /\ call' = [call EXCEPT !["dag"] = Idle]
    /\ UNCHANGED <<now, stage, landed, loadBatch, copyError, tableVars>>

LoadAttemptFails ==
    /\ At("load_files") /\ call["dag"].pc \in {"raised", "lost"}
    /\ run' = Retried
    /\ call' = [call EXCEPT !["dag"] = Idle]
    /\ UNCHANGED <<now, stage, landed, loadBatch, copyError, tableVars>>

DrainStream ==
    /\ At("drain_stream")
    /\ drained' = LandedFiles
    /\ run' = Advanced
    /\ UNCHANGED <<loadVars, generated, adjudicated, published>>

-----------------------------------------------------------------------------
DQ_MAX_PARSE_ERROR_RATE == 5    \* percent
DQ_MAX_REJECT_RATE == 25        \* percent
DQ_MIN_EVENTS_FOR_GATE == 50

Exceeds(part, total, percent) == total > 0 /\ 100 * part > percent * total

(* Mutant: the gate looks only at the parse errors.                        *)
ParseErrorsOnly ==
    Exceeds(BadRowsIn(run.loaded), RowsIn(run.loaded) + BadRowsIn(run.loaded),
            DQ_MAX_PARSE_ERROR_RATE)

(* A stuck batch of anybody, or too many parse errors in what the attempt  *)
(* of load_files that succeeded has loaded.                                *)
LoadIsSuspect ==
    \/ StuckBatches # {}
    \/ Exceeds(BadRowsIn(run.loaded), RowsIn(run.loaded) + BadRowsIn(run.loaded),
               DQ_MAX_PARSE_ERROR_RATE)

GateLoadIntegrity ==
    /\ At("gate_load_integrity")
    /\ run' = IF LoadIsSuspect THEN Failed ELSE Advanced
    /\ UNCHANGED <<loadVars, tableVars>>

AdjudicatedFiles == {a.file : a \in adjudicated}

DbtRunAdjudication ==
    /\ At("dbt_run_adjudication")
    /\ adjudicated' = adjudicated \cup
         {[file |-> f, adjudicated_at |-> now] : f \in drained \ AdjudicatedFiles}
    /\ run' = Advanced
    /\ UNCHANGED <<loadVars, generated, drained, published>>

(* The rate over the verdicts of the last hours, not over those of the     *)
(* run, and only if there are enough of them.                              *)
RejectRateTooHigh ==
    LET recent == {a.file : a \in {b \in adjudicated : b.adjudicated_at >= now - RejectWindow}}
        rejected == MapThenSumSet(LAMBDA f : Rejects[f], recent) IN
    /\ RowsIn(recent) >= DQ_MIN_EVENTS_FOR_GATE
    /\ Exceeds(rejected, RowsIn(recent), DQ_MAX_REJECT_RATE)

GateRejectRate ==
    /\ At("gate_reject_rate")
    /\ run' = IF RejectRateTooHigh THEN Failed ELSE Advanced
    /\ UNCHANGED <<loadVars, tableVars>>

DbtRunMarts ==
    /\ At("dbt_run_marts")
    /\ published' = AdjudicatedFiles
    /\ run' = Advanced
    /\ UNCHANGED <<loadVars, generated, drained, adjudicated>>

(* Tests, reconciliation and the state of the scorecard decide.            *)
GatePublishReadiness ==
    /\ At("gate_publish_readiness")
    /\ run' \in {Advanced, Failed}
    /\ UNCHANGED <<loadVars, tableVars>>

(* report_health swallows its own errors; end follows it alone, and the    *)
(* state of end, the only leaf, is the state of the run.                   *)
ReportHealth ==
    /\ At("report_health")
    /\ run' = [run EXCEPT !.task = "end", !.state = "success"]
    /\ UNCHANGED <<loadVars, tableVars>>

(* Any other task may use up its attempts; attempts of those that fail     *)
(* leave nothing behind.                                                   *)
TaskFails ==
    /\ run.state = "running" /\ call["dag"].pc = "idle"
    /\ run' = Failed
    /\ UNCHANGED <<loadVars, tableVars>>

-----------------------------------------------------------------------------
(* Around the DAG: the clock, the feed and the command line, the minute    *)
(* task's drain, and the operator who clears a failed task.                *)
Tick ==
    /\ now < MaxNow
    /\ now' = now + 1
    /\ UNCHANGED <<stage, landed, loadBatch, copyError, call, tableVars, run>>

(* trade-sim load: one file is written, PUT and loaded; its drain is a     *)
(* ScheduledDrain.                                                         *)
CliLoad(f) ==
    /\ f \notin generated
    /\ RoomFor(1)
    /\ generated' = generated \cup {f}
    /\ Put({f})
    /\ RegisterBatch("cli", {f})
    /\ UNCHANGED <<drained, adjudicated, published, run>>

CliReturns ==
    /\ call["cli"].pc \in Outcome
    /\ call' = [call EXCEPT !["cli"] = Idle]
    /\ UNCHANGED <<now, stage, landed, loadBatch, copyError, tableVars, run>>

ScheduledDrain ==
    /\ drained # LandedFiles
    /\ drained' = LandedFiles
    /\ UNCHANGED <<loadVars, generated, adjudicated, published, run>>

ClearTask(t) ==
    /\ run.state # "running" /\ t \in run.failed \ {"report_health"}
    /\ RoomFor(MaxRetries + 1)
    /\ run' = [run EXCEPT !.state = "running", !.task = t, !.tries = 0, !.failed = {}]
    /\ UNCHANGED <<loadVars, tableVars>>

-----------------------------------------------------------------------------
Scheduler ==
    \/ WaitForFiles \/ SensorTimesOut \/ CallLoad \/ LoadReturns
    \/ LoadAttemptFails \/ DrainStream \/ GateLoadIntegrity \/ DbtRunAdjudication
    \/ GateRejectRate \/ DbtRunMarts \/ GatePublishReadiness \/ ReportHealth

Next ==
    \/ StartRun \/ Scheduler \/ TaskFails
    \/ \E c \in Caller : (ProcedureProgress(c) \/ ProcedureFailure(c))
                           /\ UNCHANGED <<tableVars, run>>
    \/ CloseStaleBatches /\ UNCHANGED <<tableVars, run>>
    \/ \E t \in Task : ClearTask(t)
    \/ Tick \/ ScheduledDrain \/ CliReturns
    \/ \E f \in Files : CliLoad(f)

Spec == Init /\ [][Next]_vars

(* The scheduler keeps going and a procedure that is running runs on.      *)
FairSpec ==
    /\ Spec
    /\ WF_vars(Scheduler)
    /\ WF_vars(ProcedureProgress("dag") /\ UNCHANGED <<tableVars, run>>)

-----------------------------------------------------------------------------
(* airflow_run_status.py on the latest run.  Between a failed task and     *)
(* report_health all are upstream_failed; those ahead have no state yet.   *)
TaskState(t) ==
    IF t \in run.failed THEN "failed"
    ELSE IF t # "report_health" /\ \E f \in run.failed : Position[f] < Position[t]
      THEN "upstream_failed"
    ELSE IF run.state = "running" /\ Position[t] >= Position[run.task] THEN "none"
    ELSE "success"

(* Mutant: the state of the run is its verdict.                            *)
StateOfTheRun ==
    IF run.state = "running" THEN 2 ELSE IF run.state = "success" THEN 0 ELSE 1

(* The exit code of main.                                                  *)
RunStatus ==
    IF \E t \in Task : TaskState(t) \in {"failed", "upstream_failed"} THEN 1
    ELSE IF run.state = "running" \/ \E t \in Task : TaskState(t) = "none" THEN 2
    ELSE IF run.state = "success" THEN 0 ELSE 1

-----------------------------------------------------------------------------
TypeOK ==
    /\ LoadTypeOK
    /\ generated \subseteq Files /\ drained \subseteq Files /\ published \subseteq Files
    /\ adjudicated \subseteq [file : Files, adjudicated_at : Nat]
    /\ run \in Run

(* A run that airflow_run_status.py calls good (exit code 0) has published *)
(* every file it was started for, whatever attempts failed and whatever    *)
(* was cleared on the way: no step succeeds while leaving its part undone, *)
(* and a green run with a task that failed is not called good.             *)
StatusZeroMeansPublished == run.state # "running" /\ RunStatus = 0 => run.detected \subseteq published

(* After a load has died, nothing is published by runs scheduled more than *)
(* the stale time later until somebody closes its batch                    *)
(* (gate_load_integrity).                                                  *)
DeadLoadBlocksPublication ==
    [][published' # published =>
         \A i \in DOMAIN loadBatch :
            loadBatch[i].batch_status = "RUNNING" =>
              loadBatch[i].started_at + StaleAfter >= run.scheduled_at]_vars

(* Every run ends: attempts are counted, sensors time out, and             *)
(* report_health runs whatever failed before it.                           *)
RunEnds == run.state = "running" ~> run.state # "running"

(* A run in which a gate tripped is not green: "A tripped quality gate is  *)
(* a decision to stop, and it must be loud" (trade_pipeline.py:46-47).     *)
Gates == {"gate_load_integrity", "gate_reject_rate", "gate_publish_readiness"}
TrippedGateIsLoud == run.state = "success" => run.failed \cap Gates = {}
=============================================================================
