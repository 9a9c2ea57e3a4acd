------------------------------ MODULE FileLoad ------------------------------
(***************************************************************************)
(* Landing of trade files: PUT to the stage and the COPY procedure         *)
(* SP_LOAD_TRADE_FILES, called by the DAG and by the command line.         *)
(*                                                                         *)
(* The procedure opens no transaction: each of its statements commits by   *)
(* itself, so a call can die between any two of them, and one action is    *)
(* one statement.  A file is its rows that parse, Rows[f], and those that  *)
(* COPY rejects under ON_ERROR = CONTINUE, BadRows[f].                     *)
(***************************************************************************)
EXTENDS Integers, Sequences, FiniteSetsExt

CONSTANTS
    Files,          \* the trade files there may be
    Rows,           \* file |-> rows that parse
    BadRows,        \* file |-> rows that do not
    StaleAfter,     \* hours after which a RUNNING batch counts as stuck
    MaxBatches      \* bound: rows of LOAD_BATCH

ASSUME FilesAssumption ==
    /\ IsFiniteSet(Files)
    /\ Rows \in [Files -> Nat \ {0}] /\ BadRows \in [Files -> Nat]
    /\ StaleAfter \in Nat

VARIABLES
    now,            \* the hour
    stage,          \* files on @RAW.TRADE_LANDING
    landed,         \* files whose rows are in TRADE_EVENT, with LOAD_QUERY_ID
    loadBatch,      \* FILE_LOAD rows of LOAD_BATCH, in order of registration
    copyError,      \* rows of COPY_ERROR
    call            \* what each caller is doing in the procedure

loadVars == <<now, stage, landed, loadBatch, copyError, call>>

-----------------------------------------------------------------------------
Caller == {"dag", "cli"}
InProcedure == {"registered", "copied", "recorded"}
Outcome == {"returned", "raised", "lost"}

RowsIn(files) == MapThenSumSet(LAMBDA f : Rows[f], files)
BadRowsIn(files) == MapThenSumSet(LAMBDA f : BadRows[f], files)
Dirty(files) == {f \in files : BadRows[f] > 0}

Batch == [batch_status : {"RUNNING", "SUCCEEDED", "FAILED"}, started_at : Nat,
          row_count : {0} \cup {RowsIn(files) : files \in SUBSET Files},
          error_count : {0} \cup {BadRowsIn(files) : files \in SUBSET Files}]
Call == [pc : InProcedure \cup Outcome \cup {"idle"}, pattern : SUBSET Files,
         batch_id : Nat, loaded : SUBSET Files]
Idle == [pc |-> "idle", pattern |-> {}, batch_id |-> 0, loaded |-> {}]

LandedFiles == {r.source_file_name : r \in landed}

LoadInit ==
    /\ now = 1 /\ stage = {} /\ landed = {} /\ loadBatch = <<>> /\ copyError = {}
    /\ call = [c \in Caller |-> Idle]

-----------------------------------------------------------------------------
(* PUT without OVERWRITE: what is staged stays as it is.                   *)
Put(files) == stage' = stage \cup files

(* The caller has PUT its files.  The procedure registers the batch before *)
(* any work, as RUNNING.                                                   *)
RegisterBatch(c, pattern) ==
    /\ call[c].pc = "idle"
    /\ Len(loadBatch) < MaxBatches
    /\ loadBatch' = Append(loadBatch,
         [batch_status |-> "RUNNING", started_at |-> now, row_count |-> 0, error_count |-> 0])
    /\ call' = [call EXCEPT ![c] = [pc |-> "registered", pattern |-> pattern,
                                    batch_id |-> Len(loadBatch) + 1, loaded |-> {}]]
    /\ UNCHANGED <<now, landed, copyError>>

(* Mutant: COPY without a load history.                                    *)
EveryMatchingFile(pattern) == pattern \cap stage

(* COPY's load history: a file that was loaded once is skipped.            *)
NotYetLoaded(pattern) == (pattern \cap stage) \ LandedFiles

CopyIntoRaw(c) ==
    /\ call[c].pc = "registered"
    /\ LET new == NotYetLoaded(call[c].pattern) IN
         /\ landed' = landed \cup
              {[source_file_name |-> f, load_query_id |-> call[c].batch_id] : f \in new}
         /\ call' = [call EXCEPT ![c].pc = "copied", ![c].loaded = new]
    /\ UNCHANGED <<now, stage, loadBatch, copyError>>

(* What COPY rejected is summarised per file, if anything was rejected.    *)
InsertCopyErrors(c) ==
    /\ call[c].pc = "copied"
    /\ Dirty(call[c].loaded) # {}
    /\ copyError' = copyError \cup
         {[source_file_name |-> f, batch_id |-> call[c].batch_id] : f \in Dirty(call[c].loaded)}
    /\ call' = [call EXCEPT ![c].pc = "recorded"]
    /\ UNCHANGED <<now, stage, landed, loadBatch>>

(* Mutant: the update no longer waits for the captured errors.             *)
CloseBatchEarly(c) ==
    /\ call[c].pc \in {"copied", "recorded"}
    /\ loadBatch' = [loadBatch EXCEPT ![call[c].batch_id] =
         [batch_status |-> "SUCCEEDED", started_at |-> loadBatch[call[c].batch_id].started_at,
          row_count |-> RowsIn(call[c].loaded), error_count |-> BadRowsIn(call[c].loaded)]]
    /\ call' = [call EXCEPT ![c].pc = "returned"]
    /\ UNCHANGED <<now, stage, landed, copyError>>

(* The batch is closed with its counts and the result object returned.     *)
CloseBatch(c) ==
    /\ \/ call[c].pc = "recorded"
       \/ call[c].pc = "copied" /\ Dirty(call[c].loaded) = {}
    /\ loadBatch' = [loadBatch EXCEPT ![call[c].batch_id] =
         [batch_status |-> "SUCCEEDED", started_at |-> loadBatch[call[c].batch_id].started_at,
          row_count |-> RowsIn(call[c].loaded), error_count |-> BadRowsIn(call[c].loaded)]]
    /\ call' = [call EXCEPT ![c].pc = "returned"]
    /\ UNCHANGED <<now, stage, landed, copyError>>

(* Mutant: the handler writes a status nobody looks for.                   *)
RaiseLoadAsError(c) ==
    /\ call[c].pc \in InProcedure
    /\ loadBatch' = [loadBatch EXCEPT ![call[c].batch_id].batch_status = "ERROR"]
    /\ call' = [call EXCEPT ![c].pc = "raised"]
    /\ UNCHANGED <<now, stage, landed, copyError>>

(* Any statement may fail: the handler marks the batch and re-raises.      *)
(* What earlier statements committed stays.                                *)
RaiseLoad(c) ==
    /\ call[c].pc \in InProcedure
    /\ loadBatch' = [loadBatch EXCEPT ![call[c].batch_id].batch_status = "FAILED"]
    /\ call' = [call EXCEPT ![c].pc = "raised"]
    /\ UNCHANGED <<now, stage, landed, copyError>>

(* The session or its worker dies: nobody closes the batch.                *)
KillLoad(c) ==
    /\ call[c].pc \in InProcedure
    /\ call' = [call EXCEPT ![c].pc = "lost"]
    /\ UNCHANGED <<now, stage, landed, loadBatch, copyError>>

-----------------------------------------------------------------------------
IsStuck(b) == b.batch_status = "RUNNING" /\ b.started_at < now - StaleAfter
StuckBatches == {i \in DOMAIN loadBatch : IsStuck(loadBatch[i])}

(* The operator's UPDATE that closes the stale RUNNING rows.               *)
CloseStaleBatches ==
    /\ StuckBatches # {}
    /\ loadBatch' = [i \in DOMAIN loadBatch |->
         IF i \in StuckBatches THEN [loadBatch[i] EXCEPT !.batch_status = "FAILED"]
                               ELSE loadBatch[i]]
    /\ UNCHANGED <<now, stage, landed, copyError, call>>

ProcedureProgress(c) == CopyIntoRaw(c) \/ InsertCopyErrors(c) \/ CloseBatch(c)
ProcedureFailure(c) == RaiseLoad(c) \/ KillLoad(c)

-----------------------------------------------------------------------------
LoadTypeOK ==
    /\ now \in Nat /\ stage \subseteq Files
    /\ landed \subseteq [source_file_name : Files, load_query_id : Nat]
    /\ loadBatch \in Seq(Batch)
    /\ copyError \subseteq [source_file_name : Files, batch_id : Nat]
    /\ call \in [Caller -> Call]

(* The rows of a file land once, whatever is retried, killed or loaded by  *)
(* two callers at once, and under a batch that was registered.             *)
FilesLandOnce ==
    /\ \A r, s \in landed : r.source_file_name = s.source_file_name => r = s
    /\ \A r \in landed : r.load_query_id \in DOMAIN loadBatch

(* A batch that says SUCCEEDED counts exactly the rows that landed under   *)
(* it, and every file in which it met rejected rows has its line in        *)
(* COPY_ERROR.  A load that lost rows without that line is visible as a    *)
(* FAILED or a RUNNING batch.                                              *)
SucceededBatchesTell ==
    \A i \in DOMAIN loadBatch :
       LET own == {r.source_file_name : r \in {s \in landed : s.load_query_id = i}} IN
       loadBatch[i].batch_status = "SUCCEEDED" =>
         /\ loadBatch[i].row_count = RowsIn(own)
         /\ loadBatch[i].error_count = BadRowsIn(own)
         /\ \A f \in Dirty(own) : [source_file_name |-> f, batch_id |-> i] \in copyError
=============================================================================
