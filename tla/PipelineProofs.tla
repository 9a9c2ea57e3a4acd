--------------------------- MODULE PipelineProofs ---------------------------
(***************************************************************************)
(* What holds of the hourly run and of the landing under it, for every set *)
(* of files, whatever number of attempts, hours and batches.               *)
(***************************************************************************)
EXTENDS PipelineRun, TLAPS

-----------------------------------------------------------------------------
(* THE PIPELINE'S ORDER                                                    *)

LEMMA Positions ==
    /\ Task = {"wait_for_files", "load_files", "drain_stream", "gate_load_integrity",
               "dbt_run_adjudication", "gate_reject_rate", "dbt_run_marts",
               "gate_publish_readiness", "report_health"}
    /\ Position["wait_for_files"] = 1 /\ Position["load_files"] = 2
    /\ Position["drain_stream"] = 3 /\ Position["gate_load_integrity"] = 4
    /\ Position["dbt_run_adjudication"] = 5 /\ Position["gate_reject_rate"] = 6
    /\ Position["dbt_run_marts"] = 7 /\ Position["gate_publish_readiness"] = 8
    /\ Position["report_health"] = 9
<1>1. DOMAIN Pipeline = 1 .. 9
  BY DEF Pipeline
<1>2. /\ Pipeline[1] = "wait_for_files" /\ Pipeline[2] = "load_files"
      /\ Pipeline[3] = "drain_stream" /\ Pipeline[4] = "gate_load_integrity"
      /\ Pipeline[5] = "dbt_run_adjudication" /\ Pipeline[6] = "gate_reject_rate"
      /\ Pipeline[7] = "dbt_run_marts" /\ Pipeline[8] = "gate_publish_readiness"
      /\ Pipeline[9] = "report_health"
  BY DEF Pipeline
<1>3. Task = {"wait_for_files", "load_files", "drain_stream", "gate_load_integrity",
              "dbt_run_adjudication", "gate_reject_rate", "dbt_run_marts",
              "gate_publish_readiness", "report_health"}
  <2>1. \A i \in 1 .. 9 : i = 1 \/ i = 2 \/ i = 3 \/ i = 4 \/ i = 5 \/ i = 6 \/ i = 7
                            \/ i = 8 \/ i = 9
    OBVIOUS
  <2>. QED
    BY <1>1, <1>2, <2>1 DEF Task
<1>4. \A t \in Task : Position[t] \in 1 .. 9 /\ Pipeline[Position[t]] = t
  <2>. SUFFICES ASSUME NEW t \in Task
                PROVE  Position[t] \in 1 .. 9 /\ Pipeline[Position[t]] = t
    OBVIOUS
  <2>1. \E i \in DOMAIN Pipeline : Pipeline[i] = t
    BY DEF Task
  <2>2. Position[t] = CHOOSE i \in DOMAIN Pipeline : Pipeline[i] = t
    BY DEF Position
  <2>. QED
    BY <1>1, <2>1, <2>2
<1>5. \A i \in 1 .. 9, j \in 1 .. 9 : Pipeline[i] = Pipeline[j] => i = j
  <2>1. \A i \in 1 .. 9 : i = 1 \/ i = 2 \/ i = 3 \/ i = 4 \/ i = 5 \/ i = 6 \/ i = 7
                            \/ i = 8 \/ i = 9
    OBVIOUS
  <2>. QED
    BY <1>2, <2>1
<1>6. \A i \in 1 .. 9 : Position[Pipeline[i]] = i
  <2>1. \A i \in 1 .. 9 : Pipeline[i] \in Task
    BY <1>1 DEF Task
  <2>. QED
    BY <1>4, <1>5, <2>1
<1>. QED
  BY <1>2, <1>3, <1>6

LEMMA Following ==
    /\ Pipeline[Position["wait_for_files"] + 1] = "load_files"
    /\ Pipeline[Position["load_files"] + 1] = "drain_stream"
    /\ Pipeline[Position["drain_stream"] + 1] = "gate_load_integrity"
    /\ Pipeline[Position["gate_load_integrity"] + 1] = "dbt_run_adjudication"
    /\ Pipeline[Position["dbt_run_adjudication"] + 1] = "gate_reject_rate"
    /\ Pipeline[Position["gate_reject_rate"] + 1] = "dbt_run_marts"
    /\ Pipeline[Position["dbt_run_marts"] + 1] = "gate_publish_readiness"
    /\ Pipeline[Position["gate_publish_readiness"] + 1] = "report_health"
<1>1. /\ Pipeline[2] = "load_files" /\ Pipeline[3] = "drain_stream"
      /\ Pipeline[4] = "gate_load_integrity" /\ Pipeline[5] = "dbt_run_adjudication"
      /\ Pipeline[6] = "gate_reject_rate" /\ Pipeline[7] = "dbt_run_marts"
      /\ Pipeline[8] = "gate_publish_readiness" /\ Pipeline[9] = "report_health"
  BY DEF Pipeline
<1>. QED
  BY <1>1, Positions

LEMMA NextTaskExists ==
    ASSUME run \in Run, run.task \in Task \ {"report_health"}
    PROVE  Advanced \in Run /\ Advanced.task \in Task
<1>1. Pipeline[Position[run.task] + 1] \in Task
  BY Following, Positions
<1>. QED
  BY <1>1 DEF Advanced, Run

LEMMA GivenUpIsARun ==
    ASSUME run \in Run, run.task \in Task
    PROVE  Failed \in Run
<1>1. "report_health" \in Task
  BY Positions
<1>. QED
  BY <1>1 DEF Failed, Run

LEMMA RetriedIsARun ==
    ASSUME run \in Run, run.task \in Task
    PROVE  Retried \in Run
<1>1. CASE run.tries < MaxRetries
  <2>1. run.tries + 1 \in Nat
    BY DEF Run
  <2>. QED
    BY <1>1, <2>1 DEF Retried, Run
<1>2. CASE ~(run.tries < MaxRetries)
  BY <1>2, GivenUpIsARun DEF Retried
<1>. QED
  BY <1>1, <1>2

-----------------------------------------------------------------------------
(* WHAT A STEP DOES TO THE LANDING                                         *)

(* A caller takes note of how its call ended.                              *)
LeaveProcedure(c) ==
    /\ call[c].pc \in Outcome
    /\ call' = [call EXCEPT ![c] = Idle]
    /\ UNCHANGED <<now, stage, landed, loadBatch, copyError>>

LoadStep(c) ==
    \/ \E pattern \in SUBSET Files : RegisterBatch(c, pattern)
    \/ CopyIntoRaw(c) \/ InsertCopyErrors(c) \/ CloseBatch(c)
    \/ RaiseLoad(c) \/ KillLoad(c) \/ LeaveProcedure(c)

(* The hour passes, or the stage gets more files: nothing the invariants   *)
(* of the landing speak of.                                                *)
Elsewhere ==
    /\ UNCHANGED <<landed, loadBatch, copyError, call>>

LEMMA StepOfLanding ==
    ASSUME TypeOK, [Next]_vars
    PROVE  (\E c \in Caller : LoadStep(c)) \/ CloseStaleBatches \/ Elsewhere
<1>. USE DEF LoadStep, Elsewhere, Caller
<1>1. CASE Scheduler
  <2>1. CASE CallLoad
    <3>1. run.detected \in SUBSET Files
      BY DEF TypeOK, Run
    <3>. QED
      BY <2>1, <3>1 DEF CallLoad
  <2>2. CASE LoadReturns
    BY <2>2 DEF LoadReturns, LeaveProcedure, Outcome
  <2>3. CASE LoadAttemptFails
    BY <2>3 DEF LoadAttemptFails, LeaveProcedure, Outcome
  <2>4. CASE WaitForFiles \/ SensorTimesOut \/ DrainStream \/ GateLoadIntegrity
               \/ DbtRunAdjudication \/ GateRejectRate \/ DbtRunMarts
               \/ GatePublishReadiness \/ ReportHealth
    BY <2>4 DEF WaitForFiles, SensorTimesOut, DrainStream, GateLoadIntegrity,
       DbtRunAdjudication, GateRejectRate, DbtRunMarts, GatePublishReadiness,
       ReportHealth, loadVars
  <2>. QED
    BY <1>1, <2>1, <2>2, <2>3, <2>4 DEF Scheduler
<1>2. CASE \E c \in Caller : ProcedureProgress(c) \/ ProcedureFailure(c)
  BY <1>2 DEF ProcedureProgress, ProcedureFailure
<1>3. CASE StartRun \/ TaskFails \/ (\E t \in Task : ClearTask(t)) \/ Tick \/ ScheduledDrain
             \/ UNCHANGED vars
  BY <1>3 DEF StartRun, TaskFails, ClearTask, Tick, ScheduledDrain, loadVars, vars
<1>4. CASE CliReturns
  BY <1>4 DEF CliReturns, LeaveProcedure
<1>5. CASE \E f \in Files : CliLoad(f)
  BY <1>5 DEF CliLoad
<1>6. CASE CloseStaleBatches
  BY <1>6
<1>. QED
  BY <1>1, <1>2, <1>3, <1>4, <1>5, <1>6 DEF Next

-----------------------------------------------------------------------------
(* TYPES                                                                   *)

LEMMA ReplacedElements ==
    ASSUME NEW S, NEW s \in Seq(S), NEW t, t = [i \in DOMAIN s |-> t[i]],
           \A i \in DOMAIN s : t[i] \in S
    PROVE  t \in Seq(S)
<1>1. DOMAIN s = 1 .. Len(s) /\ Len(s) \in Nat
  OBVIOUS
<1>. QED
  BY <1>1

(* One batch is replaced by another.                                       *)
LEMMA BatchReplaced ==
    ASSUME loadBatch \in Seq(Batch), NEW i, NEW b,
           loadBatch' = [loadBatch EXCEPT ![i] = b], i \in DOMAIN loadBatch => b \in Batch
    PROVE  loadBatch' \in Seq(Batch)
<1>1. loadBatch = [j \in DOMAIN loadBatch |-> loadBatch[j]]
      /\ \A j \in DOMAIN loadBatch : loadBatch[j] \in Batch
  OBVIOUS
<1>2. loadBatch' = [j \in DOMAIN loadBatch |-> loadBatch'[j]]
  BY <1>1
<1>3. \A j \in DOMAIN loadBatch : loadBatch'[j] \in Batch
  BY <1>1
<1>4. QED
  BY <1>2, <1>3, ReplacedElements

LEMMA LandingKeepsTypes ==
    ASSUME LoadTypeOK, now' \in Nat, stage' \in SUBSET Files,
           \/ \E c \in Caller : LoadStep(c)
           \/ CloseStaleBatches
           \/ Elsewhere
    PROVE  LoadTypeOK'
<1>. USE DEF LoadTypeOK
<1>0. call \in [Caller -> Call] /\ Idle \in Call
  BY DEF Idle, Call
<1>1. ASSUME NEW c \in Caller, NEW pattern \in SUBSET Files, RegisterBatch(c, pattern)
      PROVE  LoadTypeOK'
  <2>1. [batch_status |-> "RUNNING", started_at |-> now, row_count |-> 0,
         error_count |-> 0] \in Batch
    BY DEF Batch
  <2>2. loadBatch' \in Seq(Batch)
    BY <1>1, <2>1 DEF RegisterBatch
  <2>3. [pc |-> "registered", pattern |-> pattern, batch_id |-> Len(loadBatch) + 1,
         loaded |-> {}] \in Call
    BY DEF Call, InProcedure
  <2>4. call' \in [Caller -> Call]
    BY <1>1, <2>3 DEF RegisterBatch
  <2>. QED
    BY <1>1, <2>2, <2>4 DEF RegisterBatch
<1>2. ASSUME NEW c \in Caller, CopyIntoRaw(c)
      PROVE  LoadTypeOK'
  <2>1. NotYetLoaded(call[c].pattern) \in SUBSET Files /\ call[c].batch_id \in Nat
    BY <1>0 DEF NotYetLoaded, Call
  <2>2. landed' \subseteq [source_file_name : Files, load_query_id : Nat]
    BY <1>2, <2>1 DEF CopyIntoRaw
  <2>3. call' = [call EXCEPT ![c] = [call[c] EXCEPT !.pc = "copied",
                                                    !.loaded = NotYetLoaded(call[c].pattern)]]
    BY <1>0, <1>2 DEF CopyIntoRaw
  <2>4. [call[c] EXCEPT !.pc = "copied", !.loaded = NotYetLoaded(call[c].pattern)] \in Call
    BY <1>0, <2>1 DEF Call, InProcedure
  <2>5. call' \in [Caller -> Call]
    BY <1>0, <2>3, <2>4
  <2>. QED
    BY <1>2, <2>2, <2>5 DEF CopyIntoRaw
<1>3. ASSUME NEW c \in Caller, InsertCopyErrors(c)
      PROVE  LoadTypeOK'
  <2>1. Dirty(call[c].loaded) \in SUBSET Files /\ call[c].batch_id \in Nat
    BY <1>0 DEF Dirty, Call
  <2>2. copyError' \subseteq [source_file_name : Files, batch_id : Nat]
    BY <1>3, <2>1 DEF InsertCopyErrors
  <2>3. [call[c] EXCEPT !.pc = "recorded"] \in Call
    BY <1>0 DEF Call, InProcedure
  <2>4. call' \in [Caller -> Call]
    BY <1>0, <1>3, <2>3 DEF InsertCopyErrors
  <2>. QED
    BY <1>3, <2>2, <2>4 DEF InsertCopyErrors
<1>4. ASSUME NEW c \in Caller, CloseBatch(c)
      PROVE  LoadTypeOK'
  <2>. DEFINE i == call[c].batch_id
              b == [batch_status |-> "SUCCEEDED", started_at |-> loadBatch[i].started_at,
                    row_count |-> RowsIn(call[c].loaded),
                    error_count |-> BadRowsIn(call[c].loaded)]
  <2>1. call[c].loaded \in SUBSET Files
    BY <1>0 DEF Call
  <2>2. i \in DOMAIN loadBatch => loadBatch[i] \in Batch
    OBVIOUS
  <2>3. i \in DOMAIN loadBatch => b \in Batch
    BY <2>1, <2>2 DEF Batch
  <2>4. loadBatch' = [loadBatch EXCEPT ![i] = b]
    BY <1>4 DEF CloseBatch
  <2>5. loadBatch' \in Seq(Batch)
    <3>. HIDE DEF i, b
    <3>. QED
      BY <2>3, <2>4, BatchReplaced
  <2>6. [call[c] EXCEPT !.pc = "returned"] \in Call
    BY <1>0 DEF Call, Outcome
  <2>7. call' \in [Caller -> Call]
    BY <1>0, <1>4, <2>6 DEF CloseBatch
  <2>. QED
    BY <1>4, <2>5, <2>7 DEF CloseBatch
<1>5. ASSUME NEW c \in Caller, RaiseLoad(c)
      PROVE  LoadTypeOK'
  <2>. DEFINE i == call[c].batch_id
              b == [loadBatch[i] EXCEPT !.batch_status = "FAILED"]
  <2>1. i \in DOMAIN loadBatch => loadBatch[i] \in Batch
    OBVIOUS
  <2>2. i \in DOMAIN loadBatch => b \in Batch
    BY <2>1 DEF Batch
  <2>3. loadBatch' = [loadBatch EXCEPT ![i] = b]
    BY <1>5 DEF RaiseLoad
  <2>4. loadBatch' \in Seq(Batch)
    <3>. HIDE DEF i, b
    <3>. QED
      BY <2>2, <2>3, BatchReplaced
  <2>5. [call[c] EXCEPT !.pc = "raised"] \in Call
    BY <1>0 DEF Call, Outcome
  <2>6. call' \in [Caller -> Call]
    BY <1>0, <1>5, <2>5 DEF RaiseLoad
  <2>. QED
    BY <1>5, <2>4, <2>6 DEF RaiseLoad
<1>6. ASSUME NEW c \in Caller, KillLoad(c)
      PROVE  LoadTypeOK'
  <2>1. [call[c] EXCEPT !.pc = "lost"] \in Call
    BY <1>0 DEF Call, Outcome
  <2>2. call' \in [Caller -> Call]
    BY <1>0, <1>6, <2>1 DEF KillLoad
  <2>. QED
    BY <1>6, <2>2 DEF KillLoad
<1>7. ASSUME NEW c \in Caller, LeaveProcedure(c)
      PROVE  LoadTypeOK'
  <2>1. call' \in [Caller -> Call]
    BY <1>0, <1>7 DEF LeaveProcedure
  <2>. QED
    BY <1>7, <2>1 DEF LeaveProcedure
<1>8. CASE CloseStaleBatches
  <2>1. \A i \in DOMAIN loadBatch : loadBatch'[i] \in Batch
    <3>. SUFFICES ASSUME NEW i \in DOMAIN loadBatch
                  PROVE  loadBatch'[i] \in Batch
      OBVIOUS
    <3>1. loadBatch[i] \in Batch
      OBVIOUS
    <3>2. [loadBatch[i] EXCEPT !.batch_status = "FAILED"] \in Batch
      BY <3>1 DEF Batch
    <3>. QED
      BY <1>8, <3>1, <3>2 DEF CloseStaleBatches
  <2>2. loadBatch' = [i \in DOMAIN loadBatch |-> loadBatch'[i]]
    BY <1>8 DEF CloseStaleBatches
  <2>3. loadBatch' \in Seq(Batch)
    BY <2>1, <2>2, ReplacedElements
  <2>. QED
    BY <1>8, <2>3 DEF CloseStaleBatches
<1>9. CASE Elsewhere
  BY <1>9 DEF Elsewhere
<1>. QED
  BY <1>1, <1>2, <1>3, <1>4, <1>5, <1>6, <1>7, <1>8, <1>9 DEF LoadStep

(* A run that is not over is at one of its tasks.                          *)
OnTask == run.state = "running" => run.task \in Task

LEMMA InitialTypes == Init => TypeOK /\ OnTask
<1>. SUFFICES ASSUME Init
              PROVE  TypeOK /\ OnTask
  OBVIOUS
<1>1. LoadTypeOK
  <2>1. Idle \in Call
    BY DEF Idle, Call
  <2>. QED
    BY <2>1 DEF Init, LoadInit, LoadTypeOK
<1>2. run \in Run
  BY Positions DEF Init, LoadInit, NewRun, Run
<1>3. OnTask
  BY DEF OnTask, Init, NewRun
<1>. QED
  BY <1>1, <1>2, <1>3 DEF Init, TypeOK

LEMMA LandedAreFiles ==
    ASSUME LoadTypeOK
    PROVE  LandedFiles \in SUBSET Files
BY DEF LoadTypeOK, LandedFiles

LEMMA StepKeepsTypes ==
    ASSUME TypeOK, OnTask, [Next]_vars
    PROVE  TypeOK' /\ OnTask'
<1>. USE DEF TypeOK
<1>1. now' \in Nat /\ stage' \in SUBSET Files
  <2>1. CASE Scheduler \/ StartRun
    BY <2>1 DEF LoadTypeOK, Scheduler, StartRun, WaitForFiles, SensorTimesOut, CallLoad,
       LoadReturns, LoadAttemptFails, DrainStream, GateLoadIntegrity, DbtRunAdjudication,
       GateRejectRate, DbtRunMarts, GatePublishReadiness, ReportHealth, loadVars,
       RegisterBatch, Put, Run
  <2>2. CASE \/ TaskFails \/ CloseStaleBatches \/ (\E t \in Task : ClearTask(t)) \/ Tick
             \/ ScheduledDrain \/ CliReturns \/ (\E f \in Files : CliLoad(f)) \/ UNCHANGED vars
    <3>1. CASE \E f \in Files : CliLoad(f)
      BY <3>1 DEF LoadTypeOK, CliLoad, RegisterBatch, Put
    <3>2. CASE Tick
      BY <3>2 DEF LoadTypeOK, Tick
    <3>3. CASE \/ TaskFails \/ CloseStaleBatches \/ (\E t \in Task : ClearTask(t))
               \/ ScheduledDrain \/ CliReturns \/ UNCHANGED vars
      BY <3>3 DEF LoadTypeOK, TaskFails, CloseStaleBatches, ClearTask, ScheduledDrain,
         CliReturns, loadVars, vars
    <3>. QED
      BY <2>2, <3>1, <3>2, <3>3
  <2>3. CASE \E c \in Caller : ProcedureProgress(c) \/ ProcedureFailure(c)
    <3>. SUFFICES ASSUME NEW c \in Caller, ProcedureProgress(c) \/ ProcedureFailure(c)
                  PROVE  now' = now /\ stage' = stage
      BY <2>3 DEF LoadTypeOK
    <3>. QED
      BY DEF ProcedureProgress, ProcedureFailure, CopyIntoRaw, InsertCopyErrors, CloseBatch,
         RaiseLoad, KillLoad
  <2>. QED
    BY <2>1, <2>2, <2>3 DEF Next
<1>2. LoadTypeOK'
  BY <1>1, StepOfLanding, LandingKeepsTypes
<1>3. LandedFiles \in SUBSET Files /\ LandedFiles' \in SUBSET Files
  BY <1>2, LandedAreFiles DEF LoadTypeOK, LandedFiles
<1>4. AdjudicatedFiles \in SUBSET Files
  BY DEF AdjudicatedFiles
<1>5. generated' \subseteq Files /\ drained' \subseteq Files /\ published' \subseteq Files
      /\ adjudicated' \subseteq [file : Files, adjudicated_at : Nat]
  <2>1. CASE Scheduler \/ StartRun
    <3>1. CASE DbtRunAdjudication
      BY <3>1 DEF DbtRunAdjudication, LoadTypeOK
    <3>2. CASE DrainStream \/ DbtRunMarts \/ WaitForFiles
      BY <1>3, <1>4, <3>2 DEF DrainStream, DbtRunMarts, WaitForFiles
    <3>3. CASE StartRun \/ SensorTimesOut \/ CallLoad \/ LoadReturns \/ LoadAttemptFails
               \/ GateLoadIntegrity \/ GateRejectRate \/ GatePublishReadiness \/ ReportHealth
      BY <3>3 DEF StartRun, SensorTimesOut, CallLoad, LoadReturns, LoadAttemptFails,
         GateLoadIntegrity, GateRejectRate, GatePublishReadiness, ReportHealth, tableVars
    <3>. QED
      BY <2>1, <3>1, <3>2, <3>3 DEF Scheduler
  <2>2. CASE \/ TaskFails \/ (\E t \in Task : ClearTask(t)) \/ Tick
             \/ ScheduledDrain \/ CliReturns \/ (\E f \in Files : CliLoad(f)) \/ UNCHANGED vars
    BY <1>3, <2>2 DEF TaskFails, ClearTask, Tick, ScheduledDrain, CliReturns, CliLoad,
       tableVars, vars
  <2>3. CASE UNCHANGED <<tableVars, run>>
    BY <2>3 DEF tableVars
  <2>. QED
    BY <2>1, <2>2, <2>3 DEF Next
<1>6. run' \in Run
  <2>1. CASE run.state = "running" /\ run.task \in Task \ {"report_health"} /\ run' = Advanced
    BY <2>1, NextTaskExists
  <2>2. CASE run.task \in Task /\ run' = Failed
    BY <2>2, GivenUpIsARun
  <2>3. CASE StartRun
    BY <2>3, Positions DEF StartRun, NewRun, Run, LoadTypeOK
  <2>4. CASE WaitForFiles
    <3>1. Advanced \in Run
      BY <2>4, NextTaskExists, Positions DEF WaitForFiles, At
    <3>2. PICK d \in SUBSET Files, s \in {"local", "stage"} :
             run' = [Advanced EXCEPT !.source = s, !.detected = d]
      BY <2>4 DEF WaitForFiles, LoadTypeOK
    <3>. QED
      BY <3>1, <3>2 DEF Run
  <2>5. CASE LoadReturns
    <3>1. Advanced \in Run
      BY <2>5, NextTaskExists, Positions DEF LoadReturns, At
    <3>2. call["dag"].loaded \in SUBSET Files
      BY DEF LoadTypeOK, Call, Caller
    <3>. QED
      BY <2>5, <3>1, <3>2 DEF LoadReturns, Run
  <2>6. CASE LoadAttemptFails
    BY <2>6, RetriedIsARun, Positions DEF LoadAttemptFails, At
  <2>7. CASE ReportHealth
    BY <2>7 DEF ReportHealth, Run
  <2>8. CASE \E t \in Task : ClearTask(t)
    <3>1. PICK t \in Task :
             run' = [run EXCEPT !.state = "running", !.task = t, !.tries = 0, !.failed = {}]
      BY <2>8 DEF ClearTask
    <3>. QED
      BY <3>1 DEF Run
  <2>9. CASE DrainStream \/ GateLoadIntegrity \/ DbtRunAdjudication \/ GateRejectRate
             \/ DbtRunMarts \/ GatePublishReadiness \/ SensorTimesOut
    BY <2>1, <2>2, <2>9, Positions DEF DrainStream, GateLoadIntegrity, DbtRunAdjudication,
       GateRejectRate, DbtRunMarts, GatePublishReadiness, SensorTimesOut, At
  <2>10. CASE TaskFails
    BY <2>2, <2>10 DEF TaskFails, OnTask
  <2>11. CASE CallLoad \/ UNCHANGED run
    BY <2>11 DEF CallLoad
  <2>. QED
    BY <2>3, <2>4, <2>5, <2>6, <2>7, <2>8, <2>9, <2>10, <2>11
    DEF Next, Scheduler, Tick, ScheduledDrain, CliReturns, CliLoad, vars
<1>7. OnTask'
  <2>1. CASE run.state = "running" /\ run.task \in Task \ {"report_health"} /\ run' = Advanced
    BY <2>1, NextTaskExists DEF OnTask
  <2>2. CASE run.state = "running" /\ run.task \in Task /\ run' = Failed
    BY <2>2, Positions DEF OnTask, Failed, Run
  <2>3. CASE StartRun
    BY <2>3, Positions DEF StartRun, NewRun, OnTask
  <2>4. CASE WaitForFiles
    <3>1. Advanced \in Run /\ Advanced.task \in Task
      BY <2>4, NextTaskExists, Positions DEF WaitForFiles, At
    <3>2. run'.task = Advanced.task
      BY <2>4, <3>1 DEF WaitForFiles, Run
    <3>. QED
      BY <3>1, <3>2 DEF OnTask
  <2>5. CASE LoadReturns
    <3>1. Advanced \in Run /\ Advanced.task \in Task
      BY <2>5, NextTaskExists, Positions DEF LoadReturns, At
    <3>2. run'.task = Advanced.task
      BY <2>5, <3>1 DEF LoadReturns, Run
    <3>. QED
      BY <3>1, <3>2 DEF OnTask
  <2>6. CASE LoadAttemptFails
    <3>1. run.task \in Task /\ run.task # "report_health"
      BY <2>6, Positions DEF LoadAttemptFails, At
    <3>. QED
      BY <2>6, <3>1, Positions DEF LoadAttemptFails, Retried, Failed, OnTask, Run
  <2>7. CASE ReportHealth
    BY <2>7 DEF ReportHealth, Run, OnTask
  <2>8. CASE \E t \in Task : ClearTask(t)
    <3>1. PICK t \in Task :
             run' = [run EXCEPT !.state = "running", !.task = t, !.tries = 0, !.failed = {}]
      BY <2>8 DEF ClearTask
    <3>. QED
      BY <3>1 DEF Run, OnTask
  <2>9. CASE DrainStream \/ GateLoadIntegrity \/ DbtRunAdjudication \/ GateRejectRate
             \/ DbtRunMarts \/ GatePublishReadiness \/ SensorTimesOut
    BY <2>1, <2>2, <2>9, Positions DEF DrainStream, GateLoadIntegrity, DbtRunAdjudication,
       GateRejectRate, DbtRunMarts, GatePublishReadiness, SensorTimesOut, At
  <2>10. CASE TaskFails
    BY <2>2, <2>10 DEF TaskFails, OnTask
  <2>11. CASE CallLoad \/ UNCHANGED run
    BY <2>11 DEF CallLoad, OnTask
  <2>. QED
    BY <2>3, <2>4, <2>5, <2>6, <2>7, <2>8, <2>9, <2>10, <2>11
    DEF Next, Scheduler, Tick, ScheduledDrain, CliReturns, CliLoad, vars
<1>. QED
  BY <1>2, <1>5, <1>6, <1>7

(* The tables, the calls and the run of PipelineRun keep their types.      *)
THEOREM TypeCorrect == Spec => []TypeOK
<1>1. (TypeOK /\ OnTask) /\ [Next]_vars => (TypeOK /\ OnTask)'
  BY StepKeepsTypes
<1>. QED
  BY InitialTypes, <1>1, PTL DEF Spec

-----------------------------------------------------------------------------
(* THE BATCHES TELL WHAT LANDED                                            *)

(* The files whose rows carry the number of a batch.                       *)
Own(i) == {r.source_file_name : r \in {s \in landed : s.load_query_id = i}}

Told(i) ==
    loadBatch[i].batch_status = "SUCCEEDED" =>
      /\ loadBatch[i].row_count = RowsIn(Own(i))
      /\ loadBatch[i].error_count = BadRowsIn(Own(i))
      /\ \A f \in Dirty(Own(i)) : [source_file_name |-> f, batch_id |-> i] \in copyError

(* A caller in the procedure works on an open batch of its own, and knows  *)
(* what has landed under it.                                               *)
InCall(c) ==
    call[c].pc \in InProcedure =>
      /\ call[c].batch_id \in DOMAIN loadBatch
      /\ loadBatch[call[c].batch_id].batch_status # "SUCCEEDED"
      /\ Own(call[c].batch_id) = call[c].loaded
      /\ call[c].pc = "registered" => call[c].loaded = {}
      /\ call[c].pc = "recorded" =>
           \A f \in Dirty(call[c].loaded) :
              [source_file_name |-> f, batch_id |-> call[c].batch_id] \in copyError

OwnBatches ==
    \A c \in Caller, d \in Caller :
       c # d /\ call[c].pc \in InProcedure /\ call[d].pc \in InProcedure =>
         call[c].batch_id # call[d].batch_id

LoadInv ==
    /\ \A c \in Caller : InCall(c)
    /\ OwnBatches
    /\ FilesLandOnce
    /\ \A i \in DOMAIN loadBatch : Told(i)

(* Callers may leave the procedure, and lines may be added to COPY_ERROR,  *)
(* while rows and batches stay.                                            *)
LEMMA BooksStay ==
    ASSUME LoadInv, landed' = landed, loadBatch' = loadBatch, copyError \subseteq copyError',
           \A c \in Caller : call'[c].pc \in InProcedure =>
              /\ call[c].pc \in InProcedure
              /\ call'[c].batch_id = call[c].batch_id /\ call'[c].loaded = call[c].loaded
              /\ call'[c].pc = "registered" => call[c].pc = "registered"
              /\ call'[c].pc = "recorded" =>
                   \/ call[c].pc = "recorded"
                   \/ \A f \in Dirty(call[c].loaded) :
                        [source_file_name |-> f, batch_id |-> call[c].batch_id] \in copyError'
    PROVE  LoadInv'
<1>1. \A i : Own(i)' = Own(i)
  BY DEF Own
<1>2. ASSUME NEW c \in Caller
      PROVE  InCall(c)'
  <2>. SUFFICES ASSUME call'[c].pc \in InProcedure
                PROVE  InCall(c)'
    BY DEF InCall
  <2>1. /\ call[c].pc \in InProcedure /\ call[c].batch_id \in DOMAIN loadBatch
        /\ loadBatch[call[c].batch_id].batch_status # "SUCCEEDED"
        /\ Own(call[c].batch_id) = call[c].loaded
    BY DEF LoadInv, InCall
  <2>2. PICK i : i = call[c].batch_id /\ i = call'[c].batch_id
    OBVIOUS
  <2>3. Own(i)' = call'[c].loaded
    BY <1>1, <2>1, <2>2
  <2>4. call'[c].pc = "recorded" =>
          \A f \in Dirty(call'[c].loaded) : [source_file_name |-> f, batch_id |-> i] \in copyError'
    BY <2>2 DEF LoadInv, InCall
  <2>5. Own(call[c].batch_id)' = call'[c].loaded
    BY <2>2, <2>3 DEF Own
  <2>6. call'[c].pc = "registered" => call'[c].loaded = {}
    BY DEF LoadInv, InCall
  <2>. QED
    BY <2>1, <2>2, <2>4, <2>5, <2>6 DEF InCall
<1>3. OwnBatches'
  BY DEF LoadInv, OwnBatches
<1>4. FilesLandOnce'
  BY DEF LoadInv, FilesLandOnce
<1>5. \A i \in DOMAIN loadBatch' : Told(i)'
  BY <1>1 DEF LoadInv, Told
<1>. QED
  BY <1>2, <1>3, <1>4, <1>5 DEF LoadInv

(* Batches may change while the rows stay, as long as the open ones do not *)
(* claim success.                                                          *)
LEMMA BatchesChange ==
    ASSUME LoadInv, UNCHANGED <<landed, copyError>>, DOMAIN loadBatch' = DOMAIN loadBatch,
           \A i \in DOMAIN loadBatch :
              loadBatch'[i].batch_status = "SUCCEEDED" =>
                loadBatch'[i] = loadBatch[i] \/ Told(i)',
           \A c \in Caller : call'[c].pc \in InProcedure =>
              /\ call'[c] = call[c]
              /\ loadBatch'[call[c].batch_id].batch_status # "SUCCEEDED"
    PROVE  LoadInv'
<1>1. \A i : Own(i)' = Own(i)
  BY DEF Own
<1>2. ASSUME NEW c \in Caller
      PROVE  InCall(c)'
  BY DEF LoadInv, InCall, Own
<1>3. OwnBatches'
  BY DEF LoadInv, OwnBatches
<1>4. FilesLandOnce'
  BY DEF LoadInv, FilesLandOnce
<1>5. ASSUME NEW i \in DOMAIN loadBatch'
      PROVE  Told(i)'
  BY <1>1 DEF LoadInv, Told
<1>. QED
  BY <1>2, <1>3, <1>4, <1>5 DEF LoadInv

LEMMA LandingKeepsBooks ==
    ASSUME LoadTypeOK, LoadInv,
           \/ \E c \in Caller : LoadStep(c)
           \/ CloseStaleBatches
           \/ Elsewhere
    PROVE  LoadInv'
<1>0. call \in [Caller -> Call] /\ loadBatch \in Seq(Batch)
  BY DEF LoadTypeOK
<1>1. ASSUME NEW c \in Caller, NEW pattern \in SUBSET Files, RegisterBatch(c, pattern)
      PROVE  LoadInv'
  <2>0. PICK n : n = Len(loadBatch) + 1
    OBVIOUS
  <2>. DEFINE new == [pc |-> "registered", pattern |-> pattern, batch_id |-> n, loaded |-> {}]
  <2>1. n \in Nat /\ n \notin DOMAIN loadBatch /\ DOMAIN loadBatch' = DOMAIN loadBatch \cup {n}
        /\ loadBatch'[n].batch_status = "RUNNING"
        /\ \A i \in DOMAIN loadBatch : loadBatch'[i] = loadBatch[i]
    BY <1>0, <1>1, <2>0 DEF RegisterBatch
  <2>2. landed' = landed /\ copyError' = copyError
    BY <1>1 DEF RegisterBatch
  <2>3. call'[c] = new /\ \A d \in Caller \ {c} : call'[d] = call[d]
    BY <1>0, <1>1, <2>0 DEF RegisterBatch
  <2>4. \A i : Own(i)' = Own(i)
    BY <2>2 DEF Own
  <2>5. Own(n)' = {}
    <3>1. {s \in landed' : s.load_query_id = n} = {}
      BY <2>1, <2>2 DEF LoadInv, FilesLandOnce
    <3>. QED
      BY <3>1 DEF Own
  <2>6. ASSUME NEW d \in Caller
        PROVE  InCall(d)'
    <3>1. CASE d = c
      <4>1. call'[d].batch_id = n /\ call'[d].loaded = {} /\ call'[d].pc = "registered"
        BY <2>3, <3>1
      <4>2. Own(call[d].batch_id)' = {}
        BY <2>5, <4>1 DEF Own
      <4>. QED
        BY <2>1, <4>1, <4>2 DEF InCall
    <3>2. CASE d # c
      <4>1. call'[d] = call[d]
        BY <2>3, <3>2
      <4>. QED
        BY <2>1, <2>2, <4>1 DEF LoadInv, InCall, Own
    <3>. QED
      BY <3>1, <3>2
  <2>7. OwnBatches'
    <3>. SUFFICES ASSUME NEW d \in Caller, NEW e \in Caller, d # e,
                         call'[d].pc \in InProcedure, call'[e].pc \in InProcedure
                  PROVE  call'[d].batch_id # call'[e].batch_id
      BY DEF OwnBatches
    <3>1. \A x \in Caller \ {c} : call'[x].pc \in InProcedure =>
                                    call'[x].batch_id \in DOMAIN loadBatch
      BY <2>3 DEF LoadInv, InCall
    <3>. QED
      BY <2>1, <2>3, <3>1 DEF LoadInv, OwnBatches
  <2>8. FilesLandOnce'
    BY <2>1, <2>2 DEF LoadInv, FilesLandOnce
  <2>9. \A i \in DOMAIN loadBatch' : Told(i)'
    BY <2>1, <2>2, <2>4 DEF LoadInv, Told
  <2>. QED
    BY <2>6, <2>7, <2>8, <2>9 DEF LoadInv
<1>2. ASSUME NEW c \in Caller, CopyIntoRaw(c)
      PROVE  LoadInv'
  <2>. DEFINE new == NotYetLoaded(call[c].pattern)
  <2>1. PICK n : n = call[c].batch_id
    OBVIOUS
  <2>2. call[c].pc \in InProcedure
    BY <1>2 DEF CopyIntoRaw, InProcedure
  <2>3. n \in DOMAIN loadBatch /\ loadBatch[n].batch_status # "SUCCEEDED"
    BY <2>1, <2>2 DEF LoadInv, InCall
  <2>4. landed' = landed \cup {[source_file_name |-> f, load_query_id |-> n] : f \in new}
    BY <1>2, <2>1 DEF CopyIntoRaw
  <2>5. call'[c].pc = "copied" /\ call'[c].loaded = new /\ call'[c].batch_id = n
        /\ \A d \in Caller \ {c} : call'[d] = call[d]
    BY <1>0, <1>2, <2>1 DEF CopyIntoRaw, Call
  <2>6. loadBatch' = loadBatch /\ copyError' = copyError
    BY <1>2 DEF CopyIntoRaw
  <2>7. new \cap LandedFiles = {}
    BY DEF NotYetLoaded
  <2>8. Own(n) = {}
    <3>1. Own(n) = call[c].loaded
      BY <2>1, <2>2 DEF LoadInv, InCall
    <3>2. call[c].loaded = {}
      BY <1>2, <2>2 DEF LoadInv, InCall, CopyIntoRaw
    <3>. QED
      BY <3>1, <3>2
  <2>. HIDE DEF new
  <2>9. Own(n)' = new
    <3>1. \A s \in landed : s.load_query_id # n
      BY <2>8 DEF Own
    <3>2. {s \in landed' : s.load_query_id = n}
            = {[source_file_name |-> f, load_query_id |-> n] : f \in new}
      BY <2>4, <3>1
    <3>3. Own(n)' = {r.source_file_name :
                       r \in {[source_file_name |-> f, load_query_id |-> n] : f \in new}}
      BY <3>2 DEF Own
    <3>4. ASSUME NEW f \in Own(n)'
          PROVE  f \in new
      <4>1. PICK r \in {[source_file_name |-> g, load_query_id |-> n] : g \in new} :
               f = r.source_file_name
        BY <3>3
      <4>2. PICK g \in new : r = [source_file_name |-> g, load_query_id |-> n]
        BY <4>1
      <4>. QED
        BY <4>1, <4>2
    <3>5. ASSUME NEW f \in new
          PROVE  f \in Own(n)'
      <4>. DEFINE r == [source_file_name |-> f, load_query_id |-> n]
      <4>1. r \in {[source_file_name |-> g, load_query_id |-> n] : g \in new}
        OBVIOUS
      <4>2. r.source_file_name = f
        OBVIOUS
      <4>. HIDE DEF r
      <4>. QED
        BY <3>3, <4>1, <4>2
    <3>. QED
      BY <3>4, <3>5
  <2>10. \A i : i # n => Own(i)' = Own(i)
    <3>. SUFFICES ASSUME NEW i, i # n
                  PROVE  Own(i)' = Own(i)
      OBVIOUS
    <3>1. {s \in landed' : s.load_query_id = i} = {s \in landed : s.load_query_id = i}
      BY <2>4
    <3>. QED
      BY <3>1 DEF Own
  <2>11. ASSUME NEW d \in Caller
         PROVE  InCall(d)'
    <3>1. CASE d = c
      <4>1. Own(call[d].batch_id)' = new
        BY <2>5, <2>9, <3>1 DEF Own
      <4>. QED
        BY <2>3, <2>5, <2>6, <3>1, <4>1 DEF InCall
    <3>2. CASE d # c
      <4>. SUFFICES ASSUME call'[d].pc \in InProcedure
                    PROVE  InCall(d)'
        BY DEF InCall
      <4>1. call'[d] = call[d]
        BY <2>5, <3>2
      <4>2. PICK m : m = call[d].batch_id
        OBVIOUS
      <4>3. m # n
        BY <2>1, <2>2, <3>2, <4>1, <4>2 DEF LoadInv, OwnBatches
      <4>4. Own(m)' = Own(m)
        BY <2>10, <4>3
      <4>5. Own(call[d].batch_id)' = Own(call[d].batch_id)
        BY <4>1, <4>2, <4>4 DEF Own
      <4>. QED
        BY <2>6, <4>1, <4>5 DEF LoadInv, InCall
    <3>. QED
      BY <3>1, <3>2
  <2>12. OwnBatches'
    <3>1. \A d \in Caller : call'[d].batch_id = call[d].batch_id
                            /\ (call'[d].pc \in InProcedure => call[d].pc \in InProcedure)
      BY <2>1, <2>2, <2>5
    <3>. QED
      BY <3>1 DEF LoadInv, OwnBatches
  <2>13. FilesLandOnce'
    <3>1. \A r \in landed : r.source_file_name \notin new
      BY <2>7 DEF LandedFiles, new
    <3>2. ASSUME NEW r \in landed', NEW s \in landed', r.source_file_name = s.source_file_name
          PROVE  r = s
      BY <2>4, <3>1, <3>2 DEF LoadInv, FilesLandOnce
    <3>3. \A r \in landed' : r.load_query_id \in DOMAIN loadBatch'
      BY <2>3, <2>4, <2>6 DEF LoadInv, FilesLandOnce
    <3>. QED
      BY <3>2, <3>3 DEF FilesLandOnce
  <2>14. ASSUME NEW i \in DOMAIN loadBatch'
         PROVE  Told(i)'
    BY <2>3, <2>6, <2>10 DEF LoadInv, Told
  <2>. QED
    BY <2>11, <2>12, <2>13, <2>14 DEF LoadInv
<1>3. ASSUME NEW c \in Caller, InsertCopyErrors(c)
      PROVE  LoadInv'
  <2>1. call[c].pc \in InProcedure
    BY <1>3 DEF InsertCopyErrors, InProcedure
  <2>2. \A f \in Dirty(call[c].loaded) :
          [source_file_name |-> f, batch_id |-> call[c].batch_id] \in copyError'
    BY <1>3 DEF InsertCopyErrors
  <2>3. \A d \in Caller : call'[d].batch_id = call[d].batch_id /\ call'[d].loaded = call[d].loaded
    BY <1>0, <1>3 DEF InsertCopyErrors, Call
  <2>4. \A d \in Caller : d # c => call'[d] = call[d]
    BY <1>0, <1>3 DEF InsertCopyErrors
  <2>5. landed' = landed /\ loadBatch' = loadBatch /\ copyError \subseteq copyError'
    BY <1>3 DEF InsertCopyErrors
  <2>6. \A d \in Caller : call'[d].pc \in InProcedure =>
              /\ call[d].pc \in InProcedure
              /\ call'[d].batch_id = call[d].batch_id /\ call'[d].loaded = call[d].loaded
              /\ call'[d].pc = "registered" => call[d].pc = "registered"
              /\ call'[d].pc = "recorded" =>
                   \/ call[d].pc = "recorded"
                   \/ \A f \in Dirty(call[d].loaded) :
                        [source_file_name |-> f, batch_id |-> call[d].batch_id] \in copyError'
    <3>1. call'[c].pc = "recorded"
      BY <1>0, <1>3 DEF InsertCopyErrors, Call
    <3>. QED
      BY <2>1, <2>2, <2>3, <2>4, <3>1
  <2>. QED
    BY <2>5, <2>6, BooksStay
<1>4. ASSUME NEW c \in Caller, CloseBatch(c)
      PROVE  LoadInv'
  <2>1. PICK n : n = call[c].batch_id
    OBVIOUS
  <2>2. call[c].pc \in InProcedure
    BY <1>4 DEF CloseBatch, InProcedure
  <2>3. n \in DOMAIN loadBatch /\ Own(n) = call[c].loaded
    BY <2>1, <2>2 DEF LoadInv, InCall
  <2>4. UNCHANGED <<landed, copyError>> /\ DOMAIN loadBatch' = DOMAIN loadBatch
        /\ loadBatch'[n] =
             [batch_status |-> "SUCCEEDED", started_at |-> loadBatch[n].started_at,
              row_count |-> RowsIn(call[c].loaded), error_count |-> BadRowsIn(call[c].loaded)]
        /\ \A i \in DOMAIN loadBatch : i # n => loadBatch'[i] = loadBatch[i]
    BY <1>0, <1>4, <2>1, <2>3 DEF CloseBatch
  <2>5. call'[c].pc = "returned" /\ \A d \in Caller : d # c => call'[d] = call[d]
    BY <1>0, <1>4 DEF CloseBatch, Call
  <2>6. \A f \in Dirty(call[c].loaded) : [source_file_name |-> f, batch_id |-> n] \in copyError
    BY <1>4, <2>1 DEF CloseBatch, LoadInv, InCall, InProcedure
  <2>7. Told(n)'
    <3>1. Own(n)' = call[c].loaded
      BY <2>3, <2>4 DEF Own
    <3>. QED
      BY <2>4, <2>6, <3>1 DEF Told
  <2>8. ASSUME NEW d \in Caller, call'[d].pc \in InProcedure
        PROVE  /\ call'[d] = call[d]
               /\ loadBatch'[call[d].batch_id].batch_status # "SUCCEEDED"
    <3>1. d # c /\ call'[d] = call[d]
      BY <2>5, <2>8 DEF InProcedure
    <3>2. call[d].batch_id # n
      BY <2>1, <2>2, <2>8, <3>1 DEF LoadInv, OwnBatches
    <3>. QED
      BY <2>4, <2>8, <3>1, <3>2 DEF LoadInv, InCall
  <2>9. \A i \in DOMAIN loadBatch : loadBatch'[i] = loadBatch[i] \/ Told(i)'
    BY <2>4, <2>7
  <2>. QED
    BY <2>4, <2>8, <2>9, BatchesChange
<1>5. ASSUME NEW c \in Caller, RaiseLoad(c)
      PROVE  LoadInv'
  <2>1. PICK n : n = call[c].batch_id
    OBVIOUS
  <2>2. call[c].pc \in InProcedure
    BY <1>5 DEF RaiseLoad
  <2>3. n \in DOMAIN loadBatch /\ loadBatch[n] \in Batch
    BY <1>0, <2>1, <2>2 DEF LoadInv, InCall
  <2>4. UNCHANGED <<landed, copyError>> /\ DOMAIN loadBatch' = DOMAIN loadBatch
        /\ loadBatch'[n].batch_status = "FAILED"
        /\ \A i \in DOMAIN loadBatch : i # n => loadBatch'[i] = loadBatch[i]
    BY <1>0, <1>5, <2>1, <2>3 DEF RaiseLoad, Batch
  <2>5. call'[c].pc = "raised" /\ \A d \in Caller : d # c => call'[d] = call[d]
    BY <1>0, <1>5 DEF RaiseLoad, Call
  <2>6. ASSUME NEW d \in Caller, call'[d].pc \in InProcedure
        PROVE  /\ call'[d] = call[d]
               /\ loadBatch'[call[d].batch_id].batch_status # "SUCCEEDED"
    <3>1. d # c /\ call'[d] = call[d]
      BY <2>5, <2>6 DEF InProcedure
    <3>2. call[d].batch_id # n
      BY <2>1, <2>2, <2>6, <3>1 DEF LoadInv, OwnBatches
    <3>. QED
      BY <2>4, <2>6, <3>1, <3>2 DEF LoadInv, InCall
  <2>7. \A i \in DOMAIN loadBatch : loadBatch'[i].batch_status = "SUCCEEDED" =>
                                     loadBatch'[i] = loadBatch[i]
    BY <2>4
  <2>. QED
    BY <2>4, <2>6, <2>7, BatchesChange
<1>6. ASSUME NEW c \in Caller, KillLoad(c) \/ LeaveProcedure(c)
      PROVE  LoadInv'
  <2>1. landed' = landed /\ loadBatch' = loadBatch /\ copyError' = copyError
    BY <1>6 DEF KillLoad, LeaveProcedure
  <2>2. call'[c].pc \notin InProcedure /\ \A d \in Caller : d # c => call'[d] = call[d]
    BY <1>0, <1>6 DEF KillLoad, LeaveProcedure, Call, InProcedure, Idle
  <2>3. \A d \in Caller : call'[d].pc \in InProcedure => call'[d] = call[d]
    BY <2>2
  <2>. QED
    BY <2>1, <2>3, BooksStay
<1>7. CASE CloseStaleBatches
  <2>1. UNCHANGED <<landed, copyError>> /\ call' = call /\ DOMAIN loadBatch' = DOMAIN loadBatch
    BY <1>7 DEF CloseStaleBatches
  <2>2. \A i \in DOMAIN loadBatch :
           loadBatch'[i] = loadBatch[i] \/ loadBatch'[i].batch_status = "FAILED"
    <3>. SUFFICES ASSUME NEW i \in DOMAIN loadBatch
                  PROVE  loadBatch'[i] = loadBatch[i] \/ loadBatch'[i].batch_status = "FAILED"
      OBVIOUS
    <3>1. loadBatch[i] \in Batch
      BY <1>0
    <3>. QED
      BY <1>7, <3>1 DEF CloseStaleBatches, Batch
  <2>3. \A c \in Caller : call'[c].pc \in InProcedure =>
          /\ call'[c] = call[c]
          /\ loadBatch'[call[c].batch_id].batch_status # "SUCCEEDED"
    BY <2>1, <2>2 DEF LoadInv, InCall
  <2>4. \A i \in DOMAIN loadBatch :
          loadBatch'[i].batch_status = "SUCCEEDED" => loadBatch'[i] = loadBatch[i]
    BY <2>2
  <2>. QED
    BY <2>1, <2>3, <2>4, BatchesChange
<1>8. CASE Elsewhere
  BY <1>8, BooksStay DEF Elsewhere
<1>. QED
  BY <1>1, <1>2, <1>3, <1>4, <1>5, <1>6, <1>7, <1>8 DEF LoadStep

LEMMA BooksInvariant == Spec => []LoadInv
<1>1. Init => LoadInv
  <2>. SUFFICES ASSUME Init
                PROVE  LoadInv
    OBVIOUS
  <2>1. \A c \in Caller : call[c].pc \notin InProcedure
    BY DEF Init, LoadInit, Idle, InProcedure
  <2>. QED
    BY <2>1 DEF Init, LoadInit, LoadInv, InCall, OwnBatches, FilesLandOnce
<1>2. (TypeOK /\ LoadInv) /\ [Next]_vars => LoadInv'
  BY StepOfLanding, LandingKeepsBooks DEF TypeOK
<1>. QED
  BY <1>1, <1>2, TypeCorrect, PTL DEF Spec

(* The rows of a file land once, whatever is retried, killed or loaded by  *)
(* two callers at once: COPY reads and writes its load history in one      *)
(* statement.                                                              *)
THEOREM EveryFileLandsOnce == Spec => []FilesLandOnce
<1>1. LoadInv => FilesLandOnce
  BY DEF LoadInv
<1>. QED
  BY <1>1, BooksInvariant, PTL

(* A batch that says SUCCEEDED counts what landed under it and its dirty   *)
(* files are in COPY_ERROR: no caller works on the batch of another, and   *)
(* what a caller knows of its own is what has landed.                      *)
THEOREM SuccessIsTold == Spec => []SucceededBatchesTell
<1>1. LoadInv => SucceededBatchesTell
  BY DEF LoadInv, Told, Own, SucceededBatchesTell
<1>. QED
  BY <1>1, BooksInvariant, PTL

-----------------------------------------------------------------------------
(* A DEAD LOAD BLOCKS PUBLICATION                                          *)

(* The tasks a run reaches through gate_load_integrity only.               *)
BehindTheGate == {"dbt_run_adjudication", "gate_reject_rate", "dbt_run_marts",
                  "gate_publish_readiness"}

PastTheGate == run.task \in BehindTheGate \/ run.failed \cap BehindTheGate # {}

NoOldLoad ==
    \A i \in DOMAIN loadBatch :
       loadBatch[i].batch_status = "RUNNING" =>
         loadBatch[i].started_at + StaleAfter >= run.scheduled_at

(* A cleared task of a run that passed the gate does not pass it again: a  *)
(* load that was young enough then has not become older than the run.      *)
GateInv == run.scheduled_at <= now /\ (PastTheGate => NoOldLoad)

LEMMA OpenBatchesAreOldOnesOrNew ==
    ASSUME LoadTypeOK,
           \/ \E c \in Caller : LoadStep(c)
           \/ CloseStaleBatches
           \/ Elsewhere
    PROVE  \A i \in DOMAIN loadBatch' :
              loadBatch'[i].batch_status = "RUNNING" =>
                \/ i \in DOMAIN loadBatch /\ loadBatch'[i] = loadBatch[i]
                \/ loadBatch'[i].started_at = now
<1>0. loadBatch \in Seq(Batch)
  BY DEF LoadTypeOK
<1>. SUFFICES ASSUME NEW i \in DOMAIN loadBatch', loadBatch'[i].batch_status = "RUNNING"
              PROVE  \/ i \in DOMAIN loadBatch /\ loadBatch'[i] = loadBatch[i]
                     \/ loadBatch'[i].started_at = now
  OBVIOUS
<1>1. ASSUME NEW c \in Caller, NEW pattern \in SUBSET Files, RegisterBatch(c, pattern)
      PROVE  \/ i \in DOMAIN loadBatch /\ loadBatch'[i] = loadBatch[i]
             \/ loadBatch'[i].started_at = now
  BY <1>0, <1>1 DEF RegisterBatch
<1>2. ASSUME NEW c \in Caller, CloseBatch(c)
      PROVE  i \in DOMAIN loadBatch /\ loadBatch'[i] = loadBatch[i]
  BY <1>0, <1>2 DEF CloseBatch
<1>3. ASSUME NEW c \in Caller, RaiseLoad(c)
      PROVE  i \in DOMAIN loadBatch /\ loadBatch'[i] = loadBatch[i]
  <2>1. i \in DOMAIN loadBatch /\ loadBatch[i] \in Batch
    BY <1>0, <1>3 DEF RaiseLoad
  <2>2. CASE i = call[c].batch_id
    <3>1. loadBatch'[i] = [loadBatch[i] EXCEPT !.batch_status = "FAILED"]
      BY <1>3, <2>1, <2>2 DEF RaiseLoad
    <3>2. loadBatch'[i].batch_status = "FAILED"
      BY <2>1, <3>1 DEF Batch
    <3>. QED
      BY <3>2
  <2>3. CASE i # call[c].batch_id
    BY <1>3, <2>1, <2>3 DEF RaiseLoad
  <2>. QED
    BY <2>2, <2>3
<1>4. CASE CloseStaleBatches
  <2>1. i \in DOMAIN loadBatch /\ loadBatch[i] \in Batch
    BY <1>0, <1>4 DEF CloseStaleBatches
  <2>2. [loadBatch[i] EXCEPT !.batch_status = "FAILED"].batch_status = "FAILED"
    BY <2>1 DEF Batch
  <2>. QED
    BY <1>4, <2>1, <2>2 DEF CloseStaleBatches
<1>5. ASSUME loadBatch' = loadBatch
      PROVE  i \in DOMAIN loadBatch /\ loadBatch'[i] = loadBatch[i]
  BY <1>5
<1>. QED
  BY <1>1, <1>2, <1>3, <1>4, <1>5
  DEF LoadStep, Elsewhere, CopyIntoRaw, InsertCopyErrors, KillLoad, LeaveProcedure

(* What the steps of the run do to it, as far as the gate is concerned.    *)
LEMMA StepOfTheRun ==
    ASSUME TypeOK, OnTask, [Next]_vars
    PROVE  \/ run'.scheduled_at = now /\ ~PastTheGate' /\ now' = now
           \/ /\ run'.scheduled_at = run.scheduled_at /\ now' \in {now, now + 1}
              /\ (PastTheGate' => PastTheGate)
           \/ /\ run'.scheduled_at = run.scheduled_at /\ now' = now /\ loadBatch' = loadBatch
              /\ ~LoadIsSuspect
<1>. DEFINE Kept == /\ run'.scheduled_at = run.scheduled_at /\ now' \in {now, now + 1}
                    /\ (PastTheGate' => PastTheGate)
<1>0. run \in Run /\ now \in Nat
  BY DEF TypeOK, LoadTypeOK
<1>1. CASE run.task \in Task /\ run' = Failed /\ now' = now
  BY <1>0, <1>1, Positions DEF Failed, Run, PastTheGate, BehindTheGate
<1>2. CASE StartRun
  BY <1>2 DEF StartRun, NewRun, PastTheGate, BehindTheGate, loadVars
<1>3. CASE WaitForFiles
  <2>1. Advanced.task = "load_files" /\ Advanced \in Run
    BY <1>0, <1>3, Following, NextTaskExists, Positions DEF WaitForFiles, At, Advanced, Run
  <2>2. Advanced.failed = run.failed /\ Advanced.scheduled_at = run.scheduled_at
    BY <1>0 DEF Advanced, Run
  <2>3. run'.task = "load_files" /\ run'.failed = run.failed
        /\ run'.scheduled_at = run.scheduled_at /\ now' = now
    BY <1>3, <2>1, <2>2 DEF WaitForFiles, Run, loadVars
  <2>. QED
    BY <2>3 DEF PastTheGate, BehindTheGate
<1>4. CASE LoadReturns
  <2>1. Advanced.task = "drain_stream" /\ Advanced \in Run
    BY <1>0, <1>4, Following, NextTaskExists, Positions DEF LoadReturns, At, Advanced, Run
  <2>2. Advanced.failed = run.failed /\ Advanced.scheduled_at = run.scheduled_at
    BY <1>0 DEF Advanced, Run
  <2>3. run'.task = "drain_stream" /\ run'.failed = run.failed
        /\ run'.scheduled_at = run.scheduled_at /\ now' = now
    BY <1>4, <2>1, <2>2 DEF LoadReturns, Run
  <2>. QED
    BY <2>3 DEF PastTheGate, BehindTheGate
<1>5. CASE LoadAttemptFails
  <2>1. run.task \in Task /\ now' = now /\ (run' = Failed \/ run' = [run EXCEPT !.tries = @ + 1])
    BY <1>5, Positions DEF LoadAttemptFails, At, Retried
  <2>2. CASE run' = [run EXCEPT !.tries = @ + 1]
    BY <1>0, <2>1, <2>2 DEF PastTheGate, Run
  <2>. QED
    BY <1>1, <2>1, <2>2
<1>6. CASE GateLoadIntegrity
  <2>1. CASE LoadIsSuspect
    BY <1>1, <1>6, <2>1, Positions DEF GateLoadIntegrity, At, loadVars
  <2>2. CASE ~LoadIsSuspect
    BY <1>0, <1>6, <2>2 DEF GateLoadIntegrity, Advanced, Run, loadVars
  <2>. QED
    BY <2>1, <2>2
<1>7. CASE DrainStream
  <2>1. Advanced.task = "gate_load_integrity"
    BY <1>0, <1>7, Following DEF DrainStream, At, Advanced, Run
  <2>. QED
    BY <1>0, <1>7, <2>1 DEF DrainStream, Advanced, Run, PastTheGate, BehindTheGate, loadVars
<1>8. CASE DbtRunAdjudication \/ GateRejectRate \/ DbtRunMarts \/ GatePublishReadiness
  <2>1. now' = now /\ run.task \in BehindTheGate /\ (run' = Advanced \/ run' = Failed)
    BY <1>8 DEF DbtRunAdjudication, GateRejectRate, DbtRunMarts, GatePublishReadiness, At,
       BehindTheGate, loadVars
  <2>2. run'.scheduled_at = run.scheduled_at
    BY <1>0, <2>1 DEF Advanced, Failed, Run
  <2>. QED
    BY <2>1, <2>2 DEF PastTheGate
<1>9. CASE ReportHealth
  BY <1>0, <1>9 DEF ReportHealth, PastTheGate, BehindTheGate, Run, loadVars
<1>10. CASE TaskFails \/ SensorTimesOut
  BY <1>1, <1>10, Positions DEF TaskFails, SensorTimesOut, At, OnTask, loadVars
<1>11. CASE \E t \in Task : ClearTask(t)
  <2>1. PICK t \in Task : ClearTask(t)
    BY <1>11
  <2>2. t \in run.failed /\ now' = now
        /\ run' = [run EXCEPT !.state = "running", !.task = t, !.tries = 0, !.failed = {}]
    BY <2>1 DEF ClearTask, loadVars
  <2>3. run'.task = t /\ run'.failed = {} /\ run'.scheduled_at = run.scheduled_at
    BY <1>0, <2>2 DEF Run
  <2>. QED
    BY <2>2, <2>3 DEF PastTheGate
<1>12. CASE Tick
  BY <1>12 DEF Tick, PastTheGate
<1>13. ASSUME run' = run, now' = now
       PROVE  Kept
  BY <1>13 DEF PastTheGate
<1>14. CASE \/ CallLoad \/ (CloseStaleBatches /\ UNCHANGED <<tableVars, run>>)
            \/ ScheduledDrain \/ CliReturns \/ (\E f \in Files : CliLoad(f)) \/ UNCHANGED vars
  BY <1>13, <1>14 DEF CallLoad, RegisterBatch, CloseStaleBatches, ScheduledDrain, CliReturns,
     CliLoad, vars, loadVars
<1>15. CASE \E c \in Caller : (ProcedureProgress(c) \/ ProcedureFailure(c))
                                /\ UNCHANGED <<tableVars, run>>
  BY <1>13, <1>15 DEF ProcedureProgress, ProcedureFailure, CopyIntoRaw, InsertCopyErrors,
     CloseBatch, RaiseLoad, KillLoad
<1>. DEFINE Aim ==
              \/ run'.scheduled_at = now /\ ~PastTheGate' /\ now' = now
              \/ Kept
              \/ /\ run'.scheduled_at = run.scheduled_at /\ now' = now /\ loadBatch' = loadBatch
                 /\ ~LoadIsSuspect
<1>16. CASE Scheduler
  <2>. SUFFICES Aim
    OBVIOUS
  <2>1. \/ WaitForFiles \/ LoadReturns \/ LoadAttemptFails \/ GateLoadIntegrity \/ DrainStream
        \/ (DbtRunAdjudication \/ GateRejectRate \/ DbtRunMarts \/ GatePublishReadiness)
        \/ ReportHealth \/ SensorTimesOut \/ CallLoad
    BY <1>16 DEF Scheduler
  <2>2. WaitForFiles => Aim
    BY <1>3
  <2>3. LoadReturns => Aim
    BY <1>4
  <2>4. LoadAttemptFails => Aim
    BY <1>5
  <2>5. GateLoadIntegrity => Aim
    BY <1>6
  <2>6. DrainStream => Aim
    BY <1>7
  <2>7. (DbtRunAdjudication \/ GateRejectRate \/ DbtRunMarts \/ GatePublishReadiness) => Aim
    BY <1>8
  <2>8. ReportHealth => Aim
    BY <1>9
  <2>9. SensorTimesOut => Aim
    BY <1>10
  <2>10. CallLoad => Aim
    BY <1>13 DEF CallLoad, RegisterBatch
  <2>. HIDE DEF Aim
  <2>. QED
    BY <2>1, <2>2, <2>3, <2>4, <2>5, <2>6, <2>7, <2>8, <2>9, <2>10
<1>. HIDE DEF Kept
<1>. QED
  BY <1>2, <1>10, <1>11, <1>12, <1>14, <1>15, <1>16 DEF Next

LEMMA StepKeepsGate ==
    ASSUME TypeOK, OnTask, GateInv, [Next]_vars
    PROVE  GateInv'
<1>0. /\ now \in Nat /\ run.scheduled_at \in Nat /\ loadBatch \in Seq(Batch)
      /\ StaleAfter \in Nat
  BY FilesAssumption DEF TypeOK, LoadTypeOK, Run
<1>1. CASE run'.scheduled_at = now /\ ~PastTheGate' /\ now' = now
  BY <1>0, <1>1 DEF GateInv
<1>2. CASE /\ run'.scheduled_at = run.scheduled_at /\ now' \in {now, now + 1}
           /\ (PastTheGate' => PastTheGate)
  <2>. SUFFICES ASSUME PastTheGate'
                PROVE  NoOldLoad'
    BY <1>0, <1>2 DEF GateInv
  <2>. SUFFICES ASSUME NEW i \in DOMAIN loadBatch', loadBatch'[i].batch_status = "RUNNING"
                PROVE  loadBatch'[i].started_at + StaleAfter >= run'.scheduled_at
    BY DEF NoOldLoad
  <2>1. \/ i \in DOMAIN loadBatch /\ loadBatch'[i] = loadBatch[i]
        \/ loadBatch'[i].started_at = now
    BY StepOfLanding, OpenBatchesAreOldOnesOrNew DEF TypeOK
  <2>. QED
    BY <1>0, <1>2, <2>1 DEF GateInv, NoOldLoad
<1>3. CASE /\ run'.scheduled_at = run.scheduled_at /\ now' = now /\ loadBatch' = loadBatch
           /\ ~LoadIsSuspect
  <2>1. ASSUME NEW i \in DOMAIN loadBatch, loadBatch[i].batch_status = "RUNNING"
        PROVE  loadBatch[i].started_at + StaleAfter >= run.scheduled_at
    <3>1. loadBatch[i].started_at \in Nat
      <4>1. loadBatch[i] \in Batch
        BY <1>0
      <4>. QED
        BY <4>1 DEF Batch
    <3>2. ~(loadBatch[i].started_at < now - StaleAfter)
      BY <1>3, <2>1 DEF LoadIsSuspect, StuckBatches, IsStuck
    <3>. QED
      BY <1>0, <3>1, <3>2 DEF GateInv
  <2>. QED
    BY <1>3, <2>1 DEF GateInv, NoOldLoad
<1>. QED
  BY <1>1, <1>2, <1>3, StepOfTheRun

(* After a load has died, nothing is published by a run scheduled more     *)
(* than the stale time later, until somebody closes its batch.             *)
THEOREM DeadLoadsBlock == Spec => DeadLoadBlocksPublication
<1>1. Init => GateInv
  <2>. SUFFICES ASSUME Init
                PROVE  GateInv
    OBVIOUS
  <2>1. run = [NewRun EXCEPT !.state = "success", !.task = "end", !.scheduled_at = 0] /\ now = 1
    BY DEF Init, LoadInit
  <2>2. run.task = "end" /\ run.failed = {} /\ run.scheduled_at = 0
    BY <2>1 DEF NewRun
  <2>. QED
    BY <2>1, <2>2 DEF GateInv, PastTheGate, BehindTheGate
<1>2. (TypeOK /\ OnTask) /\ [Next]_vars => (TypeOK /\ OnTask)'
  BY StepKeepsTypes
<1>3. (TypeOK /\ OnTask /\ GateInv) /\ [Next]_vars => GateInv'
  BY StepKeepsGate
<1>4. GateInv /\ [Next]_vars =>
        [published' # published =>
           \A i \in DOMAIN loadBatch :
              loadBatch[i].batch_status = "RUNNING" =>
                loadBatch[i].started_at + StaleAfter >= run.scheduled_at]_vars
  <2>. SUFFICES ASSUME GateInv, [Next]_vars, published' # published
                PROVE  NoOldLoad
    BY DEF NoOldLoad
  <2>1. DbtRunMarts
    BY DEF Next, Scheduler, StartRun, WaitForFiles, SensorTimesOut, CallLoad,
       LoadReturns, LoadAttemptFails, DrainStream, GateLoadIntegrity, DbtRunAdjudication,
       GateRejectRate, GatePublishReadiness, ReportHealth, TaskFails, ClearTask, Tick,
       ScheduledDrain, CliReturns, CliLoad, tableVars, vars
  <2>. QED
    BY <2>1 DEF DbtRunMarts, At, GateInv, PastTheGate, BehindTheGate
<1>. QED
  BY InitialTypes, <1>1, <1>2, <1>3, <1>4, PTL DEF Spec, DeadLoadBlocksPublication

-----------------------------------------------------------------------------
(* STATUS ZERO MEANS PUBLISHED                                             *)

(* What has been done for the files of the run when it stands at a task.   *)
DoneBefore(t) ==
    /\ t \notin {"wait_for_files", "load_files"} => run.detected \subseteq LandedFiles
    /\ t \notin {"wait_for_files", "load_files", "drain_stream"} => run.detected \subseteq drained
    /\ t \in {"gate_reject_rate", "dbt_run_marts", "gate_publish_readiness"} =>
         run.detected \subseteq AdjudicatedFiles
    /\ t = "gate_publish_readiness" => run.detected \subseteq published

(* At its current task, and at the failed one an operator may clear.       *)
WorkInv ==
    /\ run.state = "running" /\ run.task # "report_health" =>
         run.failed = {} /\ DoneBefore(run.task)
    /\ \A t \in run.failed \ {"report_health"} : DoneBefore(t)
    /\ run.failed = {} /\ run.task \in {"report_health", "end"} => run.detected \subseteq published
    /\ run.state = "success" => run.task = "end"

(* load_files asks for every detected file, all of them on the stage, and  *)
(* COPY leaves none of those it is asked for out.                          *)
CallInv ==
    /\ run.source = "stage" => run.detected \subseteq stage
    /\ call["dag"].pc # "idle" =>
         /\ At("load_files")
         /\ run.detected \subseteq call["dag"].pattern /\ run.detected \subseteq stage
         /\ call["dag"].pc \in {"copied", "recorded", "returned"} =>
              run.detected \subseteq LandedFiles

ChainInv == drained \subseteq LandedFiles /\ published \subseteq AdjudicatedFiles

(* Nothing landed, drained, adjudicated or published is taken back.        *)
LEMMA NothingIsTakenBack ==
    ASSUME TypeOK, ChainInv, [Next]_vars
    PROVE  /\ stage \subseteq stage' /\ landed \subseteq landed' /\ drained \subseteq drained'
           /\ adjudicated \subseteq adjudicated' /\ published \subseteq published'
           /\ ChainInv'
<1>. DEFINE Kept == /\ stage \subseteq stage' /\ landed \subseteq landed'
                    /\ drained \subseteq drained' /\ adjudicated \subseteq adjudicated'
                    /\ published \subseteq published' /\ ChainInv'
<1>0. ASSUME landed \subseteq landed'
      PROVE  LandedFiles \subseteq LandedFiles'
  BY <1>0 DEF LandedFiles
<1>1. ASSUME adjudicated \subseteq adjudicated'
      PROVE  AdjudicatedFiles \subseteq AdjudicatedFiles'
  BY <1>1 DEF AdjudicatedFiles
<1>2. ASSUME stage \subseteq stage', landed \subseteq landed',
             UNCHANGED <<drained, adjudicated, published>>
      PROVE  Kept
  BY <1>0, <1>1, <1>2 DEF ChainInv
<1>3. CASE CallLoad \/ \E f \in Files : CliLoad(f)
  BY <1>2, <1>3 DEF CallLoad, CliLoad, RegisterBatch, Put, tableVars
<1>4. ASSUME NEW c \in Caller, ProcedureProgress(c) \/ ProcedureFailure(c), UNCHANGED tableVars
      PROVE  Kept
  BY <1>2, <1>4 DEF ProcedureProgress, ProcedureFailure, CopyIntoRaw, InsertCopyErrors,
     CloseBatch, RaiseLoad, KillLoad, tableVars
<1>5. CASE \/ StartRun \/ WaitForFiles \/ SensorTimesOut \/ LoadReturns \/ LoadAttemptFails
           \/ GateLoadIntegrity \/ GateRejectRate \/ GatePublishReadiness \/ ReportHealth
           \/ TaskFails
  BY <1>2, <1>5 DEF StartRun, WaitForFiles, SensorTimesOut, LoadReturns, LoadAttemptFails,
     GateLoadIntegrity, GateRejectRate, GatePublishReadiness, ReportHealth, TaskFails,
     tableVars, loadVars
<1>6. CASE \/ (CloseStaleBatches /\ UNCHANGED <<tableVars, run>>)
           \/ (\E t \in Task : ClearTask(t)) \/ Tick \/ CliReturns \/ UNCHANGED vars
  BY <1>2, <1>6 DEF CloseStaleBatches, ClearTask, Tick, CliReturns, tableVars, loadVars, vars
<1>7. CASE DrainStream \/ ScheduledDrain
  <2>1. UNCHANGED <<stage, landed, adjudicated, published>> /\ drained' = LandedFiles
    BY <1>7 DEF DrainStream, ScheduledDrain, loadVars
  <2>2. LandedFiles' = LandedFiles /\ AdjudicatedFiles' = AdjudicatedFiles
    BY <2>1 DEF LandedFiles, AdjudicatedFiles
  <2>. QED
    BY <2>1, <2>2 DEF ChainInv
<1>8. CASE DbtRunAdjudication
  <2>1. UNCHANGED <<stage, landed, drained, published>> /\ adjudicated \subseteq adjudicated'
    BY <1>8 DEF DbtRunAdjudication, loadVars
  <2>. QED
    BY <1>0, <1>1, <2>1 DEF ChainInv
<1>9. CASE DbtRunMarts
  <2>1. UNCHANGED <<stage, landed, drained, adjudicated>> /\ published' = AdjudicatedFiles
    BY <1>9 DEF DbtRunMarts, loadVars
  <2>2. LandedFiles' = LandedFiles /\ AdjudicatedFiles' = AdjudicatedFiles
    BY <2>1 DEF LandedFiles, AdjudicatedFiles
  <2>. QED
    BY <2>1, <2>2 DEF ChainInv
<1>10. CASE Scheduler
  <2>1. CASE \/ WaitForFiles \/ SensorTimesOut \/ LoadReturns \/ LoadAttemptFails
             \/ GateLoadIntegrity \/ GateRejectRate \/ GatePublishReadiness \/ ReportHealth
    BY <1>5, <2>1
  <2>2. CASE CallLoad
    BY <1>3, <2>2
  <2>3. CASE DrainStream
    BY <1>7, <2>3
  <2>. QED
    BY <1>8, <1>9, <1>10, <2>1, <2>2, <2>3 DEF Scheduler
<1>11. CASE StartRun \/ TaskFails
  BY <1>5, <1>11
<1>12. CASE ScheduledDrain
  BY <1>7, <1>12
<1>13. CASE \E f \in Files : CliLoad(f)
  BY <1>3, <1>13
<1>14. CASE \E c \in Caller : (ProcedureProgress(c) \/ ProcedureFailure(c))
                                /\ UNCHANGED <<tableVars, run>>
  BY <1>4, <1>14
<1>15. CASE (\E t \in Task : ClearTask(t)) \/ Tick \/ CliReturns
  BY <1>6, <1>15
<1>. QED
  BY <1>6, <1>10, <1>11, <1>12, <1>13, <1>14, <1>15 DEF Next

LEMMA WorkIsKept ==
    ASSUME landed \subseteq landed', drained \subseteq drained', adjudicated \subseteq adjudicated',
           published \subseteq published', run'.detected = run.detected
    PROVE  \A t : DoneBefore(t) => DoneBefore(t)'
<1>1. LandedFiles \subseteq LandedFiles' /\ AdjudicatedFiles \subseteq AdjudicatedFiles'
  BY DEF LandedFiles, AdjudicatedFiles
<1>. QED
  BY <1>1 DEF DoneBefore

(* A task that ends well leaves its part done, so that the next may start. *)
LEMMA WorkGoesOn ==
    ASSUME TypeOK, WorkInv, At(run.task), run.task \in Task \ {"report_health"},
           run' = Advanced \/ run' = [Advanced EXCEPT !.loaded = call["dag"].loaded],
           landed \subseteq landed', drained \subseteq drained', adjudicated \subseteq adjudicated',
           published \subseteq published',
           run.task # "wait_for_files",
           run.task = "load_files" => run.detected \subseteq LandedFiles,
           run.task = "drain_stream" => drained' = LandedFiles,
           run.task = "dbt_run_adjudication" => drained \subseteq AdjudicatedFiles',
           run.task = "dbt_run_marts" => published' = AdjudicatedFiles
    PROVE  WorkInv'
<1>0. Advanced \in Run /\ Advanced.task \in Task /\ Advanced.failed = run.failed
      /\ Advanced.state = run.state /\ Advanced.detected = run.detected
  BY NextTaskExists DEF TypeOK, Advanced, Run
<1>1. /\ run'.task = Advanced.task /\ run'.failed = run.failed
      /\ run'.state = "running" /\ run'.detected = run.detected
  BY <1>0 DEF At, Run
<1>2. run.failed = {} /\ DoneBefore(run.task)
  BY DEF WorkInv, At
<1>3. \A t : DoneBefore(t) => DoneBefore(t)'
  BY <1>1, WorkIsKept
<1>4. Advanced.task = Pipeline[Position[run.task] + 1]
  BY DEF Advanced, TypeOK, Run
<1>5. LandedFiles \subseteq LandedFiles' /\ AdjudicatedFiles \subseteq AdjudicatedFiles'
  BY DEF LandedFiles, AdjudicatedFiles
<1>. QED
  BY <1>0, <1>1, <1>2, <1>3, <1>4, <1>5, Following, Positions DEF WorkInv, DoneBefore

LEMMA CallIsKept ==
    ASSUME TypeOK, ChainInv, CallInv, [Next]_vars
    PROVE  CallInv'
<1>0. call \in [Caller -> Call] /\ run \in Run /\ "dag" \in Caller
  BY DEF TypeOK, LoadTypeOK, Caller
<1>1. stage \subseteq stage' /\ landed \subseteq landed'
  BY NothingIsTakenBack
<1>2. LandedFiles \subseteq LandedFiles'
  BY <1>1 DEF LandedFiles
<1>3. ASSUME run' = run, call'["dag"] = call["dag"]
      PROVE  CallInv'
  BY <1>1, <1>2, <1>3 DEF CallInv, At
<1>4. ASSUME run'.source = run.source, run'.detected = run.detected, call'["dag"].pc = "idle"
      PROVE  CallInv'
  BY <1>1, <1>4 DEF CallInv
<1>5. ASSUME run' = Advanced \/ run' = Failed
      PROVE  run'.source = run.source /\ run'.detected = run.detected
  BY <1>0, <1>5 DEF Advanced, Failed, Run
<1>6. CASE StartRun
  <2>1. call["dag"].pc = "idle" /\ call' = call
    BY <1>6 DEF StartRun, CallInv, At, loadVars
  <2>2. run'.source = "local"
    BY <1>6 DEF StartRun, NewRun
  <2>. QED
    BY <2>1, <2>2 DEF CallInv
<1>7. CASE WaitForFiles
  <2>1. call["dag"].pc = "idle" /\ call' = call /\ stage' = stage
    BY <1>7 DEF WaitForFiles, CallInv, At, loadVars
  <2>2. Advanced \in Run
    BY <1>0, <1>7, NextTaskExists, Positions DEF WaitForFiles, At
  <2>3. run'.source = "local" \/ run'.detected = stage
    BY <1>7, <2>2 DEF WaitForFiles, Run
  <2>. QED
    BY <2>1, <2>3 DEF CallInv
<1>8. CASE CallLoad
  <2>1. run' = run /\ At("load_files") /\ stage' = stage \cup (IF run.source = "local" THEN run.detected ELSE {})
    BY <1>8 DEF CallLoad, Put
  <2>2. call'["dag"] = [pc |-> "registered",
                        pattern |-> IF run.source = "local" THEN run.detected ELSE Files,
                        batch_id |-> Len(loadBatch) + 1, loaded |-> {}]
    BY <1>0, <1>8 DEF CallLoad, RegisterBatch
  <2>3. run.source \in {"local", "stage"} /\ run.detected \subseteq Files
    BY <1>0 DEF Run
  <2>. QED
    BY <2>1, <2>2, <2>3 DEF CallInv, At
<1>9. CASE LoadReturns
  <2>1. Advanced \in Run
    BY <1>0, <1>9, NextTaskExists, Positions DEF LoadReturns, At
  <2>2. run'.source = run.source /\ run'.detected = run.detected
    BY <1>0, <1>9, <2>1 DEF LoadReturns, Advanced, Run
  <2>3. call'["dag"].pc = "idle"
    BY <1>0, <1>9 DEF LoadReturns, Idle
  <2>. QED
    BY <1>4, <2>2, <2>3
<1>10. CASE LoadAttemptFails
  <2>1. run'.source = run.source /\ run'.detected = run.detected
    BY <1>0, <1>5, <1>10 DEF LoadAttemptFails, Retried, Run
  <2>2. call'["dag"].pc = "idle"
    BY <1>0, <1>10 DEF LoadAttemptFails, Idle
  <2>. QED
    BY <1>4, <2>1, <2>2
<1>11. CASE \/ SensorTimesOut \/ DrainStream \/ GateLoadIntegrity \/ DbtRunAdjudication
            \/ GateRejectRate \/ DbtRunMarts \/ GatePublishReadiness \/ TaskFails
  <2>1. call["dag"].pc = "idle" /\ call' = call /\ (run' = Advanced \/ run' = Failed)
    BY <1>11 DEF SensorTimesOut, DrainStream, GateLoadIntegrity, DbtRunAdjudication,
       GateRejectRate, DbtRunMarts, GatePublishReadiness, TaskFails, CallInv, At, loadVars
  <2>. QED
    BY <1>4, <1>5, <2>1
<1>12. CASE ReportHealth
  <2>1. call["dag"].pc = "idle" /\ call' = call
    BY <1>12 DEF ReportHealth, CallInv, At, loadVars
  <2>2. run'.source = run.source /\ run'.detected = run.detected
    BY <1>0, <1>12 DEF ReportHealth, Run
  <2>. QED
    BY <1>4, <2>1, <2>2
<1>13. CASE \E t \in Task : ClearTask(t)
  <2>1. call["dag"].pc = "idle" /\ call' = call
    BY <1>13 DEF ClearTask, CallInv, At, loadVars
  <2>2. run'.source = run.source /\ run'.detected = run.detected
    BY <1>0, <1>13 DEF ClearTask, Run
  <2>. QED
    BY <1>4, <2>1, <2>2
<1>14. ASSUME NEW c \in Caller, ProcedureProgress(c) \/ ProcedureFailure(c), run' = run
       PROVE  CallInv'
  <2>1. CASE c # "dag"
    <3>1. call'["dag"] = call["dag"]
      BY <1>0, <1>14, <2>1 DEF ProcedureProgress, ProcedureFailure, CopyIntoRaw,
         InsertCopyErrors, CloseBatch, RaiseLoad, KillLoad
    <3>. QED
      BY <1>3, <1>14, <3>1
  <2>2. CASE c = "dag"
    <3>1. CASE CopyIntoRaw("dag")
      <4>1. call'["dag"].pattern = call["dag"].pattern /\ call["dag"].pc # "idle"
        BY <1>0, <3>1 DEF CopyIntoRaw, Call
      <4>2. run.detected \subseteq call["dag"].pattern \cap stage
        BY <4>1 DEF CallInv
      <4>3. \A f \in NotYetLoaded(call["dag"].pattern) : f \in LandedFiles'
        <5>. SUFFICES ASSUME NEW f \in NotYetLoaded(call["dag"].pattern)
                      PROVE  f \in LandedFiles'
          OBVIOUS
        <5>. DEFINE r == [source_file_name |-> f, load_query_id |-> call["dag"].batch_id]
        <5>1. r \in landed'
          BY <3>1 DEF CopyIntoRaw
        <5>2. r.source_file_name = f
          OBVIOUS
        <5>. HIDE DEF r
        <5>. QED
          BY <5>1, <5>2 DEF LandedFiles
      <4>4. run.detected \subseteq LandedFiles'
        BY <1>2, <4>2, <4>3 DEF NotYetLoaded
      <4>. QED
        BY <1>1, <1>14, <4>1, <4>2, <4>4 DEF CallInv, At
    <3>2. CASE ~CopyIntoRaw("dag")
      <4>1. /\ call'["dag"].pattern = call["dag"].pattern /\ call["dag"].pc # "idle"
            /\ call'["dag"].pc \in {"copied", "recorded", "returned"} =>
                 call["dag"].pc \in {"copied", "recorded", "returned"}
        BY <1>0, <1>14, <2>2, <3>2 DEF ProcedureProgress, ProcedureFailure,
           InsertCopyErrors, CloseBatch, RaiseLoad, KillLoad, Call, InProcedure
      <4>. QED
        BY <1>1, <1>2, <1>14, <4>1 DEF CallInv, At
    <3>. QED
      BY <3>1, <3>2
  <2>. QED
    BY <2>1, <2>2
<1>15. CASE Tick \/ ScheduledDrain \/ CliReturns \/ UNCHANGED vars
            \/ (CloseStaleBatches /\ UNCHANGED <<tableVars, run>>)
  <2>1. run' = run /\ call'["dag"] = call["dag"]
    BY <1>0, <1>15 DEF Tick, ScheduledDrain, CliReturns, CloseStaleBatches, Caller, vars, loadVars
  <2>. QED
    BY <1>3, <2>1
<1>16. CASE \E f \in Files : CliLoad(f)
  <2>1. run' = run /\ call'["dag"] = call["dag"]
    BY <1>0, <1>16 DEF CliLoad, RegisterBatch, Caller
  <2>. QED
    BY <1>3, <2>1
<1>17. CASE Scheduler
  BY <1>7, <1>8, <1>9, <1>10, <1>11, <1>12, <1>17 DEF Scheduler
<1>18. CASE TaskFails
  BY <1>11, <1>18
<1>19. CASE \E c \in Caller : (ProcedureProgress(c) \/ ProcedureFailure(c))
                                /\ UNCHANGED <<tableVars, run>>
  BY <1>14, <1>19
<1>. QED
  BY <1>6, <1>13, <1>15, <1>16, <1>17, <1>18, <1>19 DEF Next

LEMMA WorkIsDone ==
    ASSUME TypeOK, OnTask, ChainInv, CallInv, WorkInv, [Next]_vars
    PROVE  WorkInv'
<1>0. call \in [Caller -> Call] /\ run \in Run /\ "dag" \in Caller
  BY DEF TypeOK, LoadTypeOK, Caller
<1>1. /\ landed \subseteq landed' /\ drained \subseteq drained'
      /\ adjudicated \subseteq adjudicated' /\ published \subseteq published'
  BY NothingIsTakenBack
<1>2. LandedFiles \subseteq LandedFiles' /\ AdjudicatedFiles \subseteq AdjudicatedFiles'
  BY <1>1 DEF LandedFiles, AdjudicatedFiles
<1>3. ASSUME run' = run
      PROVE  WorkInv'
  BY <1>1, <1>2, <1>3 DEF WorkInv, DoneBefore
<1>4. ASSUME run' = Failed, run.state = "running"
      PROVE  WorkInv'
  <2>1. CASE run.task = "report_health"
    <3>1. run'.failed = run.failed \cup {"report_health"} /\ run'.state = "failed"
          /\ run'.detected = run.detected
      BY <1>0, <1>4, <2>1 DEF Failed, Run
    <3>. QED
      BY <1>1, <1>2, <3>1 DEF WorkInv, DoneBefore
  <2>2. CASE run.task # "report_health"
    <3>1. run'.failed = {run.task} /\ run'.state = "running" /\ run'.task = "report_health"
          /\ run'.detected = run.detected
      BY <1>0, <1>4, <2>2 DEF Failed, Run, WorkInv
    <3>2. DoneBefore(run.task)
      BY <1>4, <2>2 DEF WorkInv
    <3>. QED
      BY <1>1, <1>2, <3>1, <3>2 DEF WorkInv, DoneBefore
  <2>. QED
    BY <2>1, <2>2
<1>5. CASE StartRun
  <2>1. run'.failed = {} /\ run'.task = "wait_for_files" /\ run'.state = "running"
    BY <1>5 DEF StartRun, NewRun
  <2>. QED
    BY <2>1 DEF WorkInv, DoneBefore
<1>6. CASE WaitForFiles
  <2>1. Advanced \in Run /\ Advanced.task = "load_files" /\ Advanced.failed = {}
        /\ Advanced.state = "running"
    <3>1. Advanced \in Run
      BY <1>0, <1>6, NextTaskExists, Positions DEF WaitForFiles, At
    <3>2. Advanced.task = "load_files"
      BY <1>0, <1>6, Following DEF WaitForFiles, At, Advanced, Run
    <3>3. run.failed = {}
      BY <1>6 DEF WaitForFiles, At, WorkInv
    <3>. QED
      BY <1>0, <1>6, <3>1, <3>2, <3>3 DEF WaitForFiles, At, Advanced, Run
  <2>2. run'.failed = {} /\ run'.task = "load_files" /\ run'.state = "running"
    BY <1>6, <2>1 DEF WaitForFiles, Run
  <2>. QED
    BY <2>2 DEF WorkInv, DoneBefore
<1>7. CASE LoadReturns
  <2>1. run.detected \subseteq LandedFiles
    BY <1>7 DEF LoadReturns, CallInv
  <2>2. run.task = "load_files" /\ run.task \in Task \ {"report_health"} /\ At(run.task)
        /\ run' = [Advanced EXCEPT !.loaded = call["dag"].loaded]
    BY <1>7, Positions DEF LoadReturns, At
  <2>. QED
    BY <1>1, <2>1, <2>2, WorkGoesOn
<1>8. CASE LoadAttemptFails
  <2>1. run.state = "running" /\ run.task = "load_files"
        /\ (run' = Failed \/ run' = [run EXCEPT !.tries = @ + 1])
    BY <1>8 DEF LoadAttemptFails, At, Retried
  <2>2. CASE run' = [run EXCEPT !.tries = @ + 1]
    <3>1. run'.state = run.state /\ run'.task = run.task /\ run'.failed = run.failed
          /\ run'.detected = run.detected
      BY <1>0, <2>2 DEF Run
    <3>. QED
      BY <1>1, <1>2, <3>1 DEF WorkInv, DoneBefore
  <2>. QED
    BY <1>4, <2>1, <2>2
<1>9. CASE DrainStream
  <2>1. run.task = "drain_stream" /\ run.task \in Task \ {"report_health"} /\ At(run.task)
        /\ run' = Advanced /\ drained' = LandedFiles
    BY <1>9, Positions DEF DrainStream, At
  <2>. QED
    BY <1>1, <2>1, WorkGoesOn
<1>10. CASE DbtRunAdjudication
  <2>1. run.task = "dbt_run_adjudication" /\ run.task \in Task \ {"report_health"} /\ At(run.task)
        /\ run' = Advanced
    BY <1>10, Positions DEF DbtRunAdjudication, At
  <2>2. ASSUME NEW f \in drained
        PROVE  f \in AdjudicatedFiles'
    <3>1. CASE f \in AdjudicatedFiles
      BY <1>2, <3>1
    <3>2. CASE f \notin AdjudicatedFiles
      <4>. DEFINE a == [file |-> f, adjudicated_at |-> now]
      <4>1. a \in adjudicated'
        BY <1>10, <3>2 DEF DbtRunAdjudication
      <4>2. a.file = f
        OBVIOUS
      <4>. HIDE DEF a
      <4>. QED
        BY <4>1, <4>2 DEF AdjudicatedFiles
    <3>. QED
      BY <3>1, <3>2
  <2>3. drained \subseteq AdjudicatedFiles'
    BY <2>2
  <2>. QED
    BY <1>1, <2>1, <2>3, WorkGoesOn
<1>11. CASE DbtRunMarts
  <2>1. run.task = "dbt_run_marts" /\ run.task \in Task \ {"report_health"} /\ At(run.task)
        /\ run' = Advanced /\ published' = AdjudicatedFiles
    BY <1>11, Positions DEF DbtRunMarts, At
  <2>. QED
    BY <1>1, <2>1, WorkGoesOn
<1>12. CASE GateLoadIntegrity \/ GateRejectRate \/ GatePublishReadiness
  <2>1. run.state = "running" /\ At(run.task) /\ run.task \in Task \ {"report_health"}
        /\ run.task \in {"gate_load_integrity", "gate_reject_rate", "gate_publish_readiness"}
        /\ (run' = Advanced \/ run' = Failed)
    BY <1>12, Positions DEF GateLoadIntegrity, GateRejectRate, GatePublishReadiness, At
  <2>2. CASE run' = Advanced
    BY <1>1, <2>1, <2>2, WorkGoesOn
  <2>. QED
    BY <1>4, <2>1, <2>2
<1>13. CASE ReportHealth
  <2>1. run'.task = "end" /\ run'.failed = run.failed /\ run'.detected = run.detected
        /\ run'.state = "success" /\ run.task = "report_health"
    BY <1>0, <1>13 DEF ReportHealth, At, Run
  <2>. QED
    BY <1>1, <1>2, <2>1 DEF WorkInv, DoneBefore
<1>14. CASE \E t \in Task : ClearTask(t)
  <2>1. PICK t \in Task : ClearTask(t)
    BY <1>14
  <2>2. run'.task = t /\ run'.failed = {} /\ run'.detected = run.detected
        /\ run'.state = "running" /\ t # "report_health" /\ t # "end"
    BY <1>0, <2>1, Positions DEF ClearTask, Run
  <2>3. DoneBefore(t)
    BY <2>1 DEF ClearTask, WorkInv
  <2>. QED
    BY <1>1, <1>2, <2>2, <2>3 DEF WorkInv, DoneBefore
<1>15. CASE TaskFails \/ SensorTimesOut
  BY <1>4, <1>15 DEF TaskFails, SensorTimesOut, At
<1>16. CASE CallLoad
  BY <1>3, <1>16 DEF CallLoad
<1>17. CASE \/ (\E c \in Caller : (ProcedureProgress(c) \/ ProcedureFailure(c))
                                    /\ UNCHANGED <<tableVars, run>>)
            \/ (CloseStaleBatches /\ UNCHANGED <<tableVars, run>>)
            \/ UNCHANGED vars
  BY <1>3, <1>17 DEF vars
<1>18. CASE Tick \/ ScheduledDrain \/ CliReturns \/ (\E f \in Files : CliLoad(f))
  BY <1>3, <1>18 DEF Tick, ScheduledDrain, CliReturns, CliLoad
<1>19. CASE Scheduler
  BY <1>6, <1>7, <1>8, <1>9, <1>10, <1>11, <1>12, <1>13, <1>15, <1>16, <1>19 DEF Scheduler
<1>. QED
  BY <1>5, <1>14, <1>15, <1>17, <1>18, <1>19 DEF Next

(* A run that airflow_run_status.py calls good has published every file it *)
(* was started for: at each task, also the one an operator clears, what    *)
(* the tasks before it had to do for those files has been done, and a task *)
(* that failed keeps the status from being 0.                              *)
THEOREM StatusZeroIsTrue == Spec => []StatusZeroMeansPublished
<1>. DEFINE Inv == TypeOK /\ OnTask /\ ChainInv /\ CallInv /\ WorkInv
<1>1. Init => Inv
  <2>. SUFFICES ASSUME Init
                PROVE  Inv
    OBVIOUS
  <2>1. run.task = "end" /\ run.failed = {} /\ run.state = "success" /\ run.source = "local"
        /\ run.detected = {}
    BY DEF Init, NewRun
  <2>2. call["dag"].pc = "idle"
    BY DEF Init, LoadInit, Idle, Caller
  <2>3. ChainInv
    BY DEF Init, ChainInv
  <2>. QED
    BY <2>1, <2>2, <2>3, InitialTypes DEF CallInv, WorkInv
<1>2. Inv /\ [Next]_vars => Inv'
  BY StepKeepsTypes, NothingIsTakenBack, CallIsKept, WorkIsDone
<1>3. Inv => StatusZeroMeansPublished
  <2>. SUFFICES ASSUME Inv, run.state # "running", RunStatus = 0
                PROVE  run.detected \subseteq published
    BY DEF StatusZeroMeansPublished
  <2>1. run.state = "success" /\ ~ \E t \in Task : TaskState(t) \in {"failed", "upstream_failed"}
    BY DEF RunStatus
  <2>2. run.failed = {}
    <3>1. \A t \in Task : t \notin run.failed
      BY <2>1 DEF TaskState
    <3>. QED
      BY <3>1 DEF TypeOK, Run
  <2>. QED
    BY <2>1, <2>2 DEF WorkInv
<1>. HIDE DEF Inv
<1>. QED
  BY <1>1, <1>2, <1>3, PTL DEF Spec
=============================================================================
