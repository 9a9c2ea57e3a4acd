---------------------------- MODULE ChangeCapture ----------------------------
(***************************************************************************)
(* The change-capture layer: RAW.TRADE_EVENT, its append-only stream, the  *)
(* procedure SP_DRAIN_TRADE_EVENT_STREAM that moves the stream's delta     *)
(* into RAW.TRADE_EVENT_QUEUE, the incremental scan of the adjudication    *)
(* model over that queue, and the daily prune of the queue.                *)
(*                                                                         *)
(* The drain procedure may be running in several sessions at once: the     *)
(* minute task, the DAG's drain_stream task, and the command line.         *)
(***************************************************************************)
EXTENDS Naturals, FiniteSets

CONSTANTS
    Event,          \* EVENT_SK values: the rows RAW.TRADE_EVENT may ever hold
    Caller,         \* sessions that call SP_DRAIN_TRADE_EVENT_STREAM
    RetainDays,     \* argument of SP_PRUNE_TRADE_EVENT_QUEUE
    BatchIdWidth,   \* declared width of LOAD_BATCH.BATCH_ID
    UuidWidth,      \* length of UUID_STRING()
    SuffixWidth     \* length of '-failed'

CONSTANTS           \* bounds of the model
    MaxCalls,       \* drain calls that get past the guard
    MaxFailures,    \* drain calls that raise or are killed
    MaxDay          \* days that pass

ASSUME EventAssumption == IsFiniteSet(Event)
ASSUME CallerAssumption == IsFiniteSet(Caller)
ASSUME WidthAssumption ==
    /\ RetainDays \in Nat
    /\ BatchIdWidth \in Nat
    /\ UuidWidth \in Nat
    /\ SuffixWidth \in Nat

VARIABLES
    tradeEvent,        \* event_sk of every row of RAW.TRADE_EVENT
    streamDelta,       \* rows inserted since the stream's committed offset
    tradeEventQueue,   \* rows of RAW.TRADE_EVENT_QUEUE
    seqBatchOrder,     \* last value drawn from SEQ_BATCH_ORDER
    loadBatch,         \* committed STREAM_DRAIN rows of RAW.LOAD_BATCH
    session,           \* what each caller is doing inside the procedure
    calls,             \* calls that got past the guard; v_batch_id stands for it
    failed,            \* calls that ended badly, and how
    adjudicated,       \* rows of INT_TRADE_EVENT_ADJUDICATED
    build,             \* the adjudication model's statement in progress
    today

captureVars == <<tradeEvent, streamDelta, tradeEventQueue, seqBatchOrder,
                 loadBatch, session, calls, failed>>
buildVars == <<adjudicated, build>>
vars == <<captureVars, buildVars, today>>

-----------------------------------------------------------------------------
(* Rows and sessions.                                                      *)

QueueRow == [event_sk : Event, batch_seq : Nat, drained_at : Nat]
AdjudicatedRow == [event_sk : Event, batch_seq : Nat]
BatchRow == [batch_id : Nat, batch_status : {"SUCCEEDED", "FAILED"}, row_count : Nat]
Failure == [batch_id : Nat, how : {"raised", "killed"}]

Session == [pc : {"idle", "guarded", "numbered", "begun", "open"},
            batch_id : Nat, batch_seq : Nat, drained_at : Nat,
            delta : SUBSET Event]
Build == [mode : {"idle", "incremental"}, rows : SUBSET AdjudicatedRow]

IdleSession == [pc |-> "idle", batch_id |-> 0, batch_seq |-> 0,
                drained_at |-> 0, delta |-> {}]
IdleBuild == [mode |-> "idle", rows |-> {}]

EventsOf(rows) == {r.event_sk : r \in rows}
Queued == EventsOf(tradeEventQueue)
Decided == EventsOf(adjudicated)

Init ==
    /\ tradeEvent = {}
    /\ streamDelta = {}
    /\ tradeEventQueue = {}
    /\ seqBatchOrder = 0
    /\ loadBatch = {}
    /\ session = [c \in Caller |-> IdleSession]
    /\ calls = 0
    /\ failed = {}
    /\ adjudicated = {}
    /\ build = IdleBuild
    /\ today = 0

-----------------------------------------------------------------------------
(* COPY or Snowpipe commits the rows of a file: the landing table grows,   *)
(* and an append-only stream shows the insertions.                         *)
Land(rows) ==
    /\ rows # {}
    /\ tradeEvent' = tradeEvent \cup rows
    /\ streamDelta' = streamDelta \cup rows
    /\ UNCHANGED <<tradeEventQueue, seqBatchOrder, loadBatch, session, calls,
                   failed, buildVars, today>>

-----------------------------------------------------------------------------
(* SP_DRAIN_TRADE_EVENT_STREAM, one action per statement another session   *)
(* can come between.                                                       *)

(* Mutant: the stream_has_data guard is dropped.                           *)
EnterDrainUnguarded(c) ==
    /\ session[c].pc = "idle"
    /\ calls < MaxCalls
    /\ calls' = calls + 1
    /\ session' = [session EXCEPT ![c] =
                     [pc |-> "guarded", batch_id |-> calls + 1, batch_seq |-> 0,
                      drained_at |-> today, delta |-> {}]]
    /\ UNCHANGED <<tradeEvent, streamDelta, tradeEventQueue, seqBatchOrder,
                   loadBatch, failed, buildVars, today>>

(* The declarations and the stream_has_data guard.  A call that finds the  *)
(* stream empty returns at once and changes nothing.                       *)
EnterDrain(c) ==
    /\ session[c].pc = "idle"
    /\ streamDelta # {}
    /\ calls < MaxCalls
    /\ calls' = calls + 1
    /\ session' = [session EXCEPT ![c] =
                     [pc |-> "guarded", batch_id |-> calls + 1, batch_seq |-> 0,
                      drained_at |-> today, delta |-> {}]]
    /\ UNCHANGED <<tradeEvent, streamDelta, tradeEventQueue, seqBatchOrder,
                   loadBatch, failed, buildVars, today>>

(* Mutant: the number is computed, not drawn, so nothing is spent.         *)
TakeUnspentBatchSeq(c) ==
    /\ session[c].pc = "guarded"
    /\ session' = [session EXCEPT ![c].pc = "numbered",
                                  ![c].batch_seq = seqBatchOrder + 1]
    /\ UNCHANGED <<tradeEvent, streamDelta, tradeEventQueue, seqBatchOrder,
                   loadBatch, calls, failed, buildVars, today>>

(* v_batch_seq := nextval.  A sequence is not transactional: the number is *)
(* spent whatever happens to the call.                                     *)
TakeBatchSeq(c) ==
    /\ session[c].pc = "guarded"
    /\ seqBatchOrder' = seqBatchOrder + 1
    /\ session' = [session EXCEPT ![c].pc = "numbered",
                                  ![c].batch_seq = seqBatchOrder + 1]
    /\ UNCHANGED <<tradeEvent, streamDelta, tradeEventQueue, loadBatch, calls,
                   failed, buildVars, today>>

(* Inside a transaction the stream is read as of the transaction's start.  *)
BeginTransaction(c) ==
    /\ session[c].pc = "numbered"
    /\ session' = [session EXCEPT ![c].pc = "begun", ![c].delta = streamDelta]
    /\ UNCHANGED <<tradeEvent, streamDelta, tradeEventQueue, seqBatchOrder,
                   loadBatch, calls, failed, buildVars, today>>

(* Mutant: the delta is read without the stream's lock.                    *)
ConsumeUnlockedStream(c) ==
    /\ session[c].pc = "begun"
    /\ session' = [session EXCEPT ![c].pc = "open"]
    /\ UNCHANGED <<tradeEvent, streamDelta, tradeEventQueue, seqBatchOrder,
                   loadBatch, calls, failed, buildVars, today>>

(* The INSERT that reads the stream locks it until the transaction ends,   *)
(* and does not see what another transaction has consumed meanwhile.       *)
ConsumeStream(c) ==
    /\ session[c].pc = "begun"
    /\ \A d \in Caller : session[d].pc # "open"
    /\ session' = [session EXCEPT ![c].pc = "open",
                                  ![c].delta = session[c].delta \cap streamDelta]
    /\ UNCHANGED <<tradeEvent, streamDelta, tradeEventQueue, seqBatchOrder,
                   loadBatch, calls, failed, buildVars, today>>

(* The queue rows, the SUCCEEDED batch and the stream's new offset become  *)
(* visible together.                                                       *)
DrainedRows(s) ==
    {[event_sk |-> e, batch_seq |-> s.batch_seq, drained_at |-> s.drained_at] :
        e \in s.delta}

(* Mutant: the UPDATE that completes the batch row is dropped.             *)
CommitUnfinishedDrain(c) ==
    /\ session[c].pc = "open"
    /\ tradeEventQueue' = tradeEventQueue \cup DrainedRows(session[c])
    /\ streamDelta' = streamDelta \ session[c].delta
    /\ loadBatch' = loadBatch \cup
         {[batch_id |-> session[c].batch_id, batch_status |-> "RUNNING", row_count |-> 0]}
    /\ session' = [session EXCEPT ![c] = IdleSession]
    /\ UNCHANGED <<tradeEvent, seqBatchOrder, calls, failed, buildVars, today>>

CommitDrain(c) ==
    /\ session[c].pc = "open"
    /\ tradeEventQueue' = tradeEventQueue \cup DrainedRows(session[c])
    /\ streamDelta' = streamDelta \ session[c].delta
    /\ loadBatch' = loadBatch \cup
         {[batch_id |-> session[c].batch_id, batch_status |-> "SUCCEEDED",
           row_count |-> Cardinality(session[c].delta)]}
    /\ session' = [session EXCEPT ![c] = IdleSession]
    /\ UNCHANGED <<tradeEvent, seqBatchOrder, calls, failed, buildVars, today>>

(* The exception handler's INSERT of <v_batch_id>-failed.  The column must *)
(* be wide enough for it, or that INSERT raises in its turn.               *)
FailureRows(s) ==
    IF UuidWidth + SuffixWidth <= BatchIdWidth
    THEN {[batch_id |-> s.batch_id, batch_status |-> "FAILED", row_count |-> 0]}
    ELSE {}

(* Mutant: the offset has moved on although the queue's rows are gone.     *)
RaiseAfterConsuming(c) ==
    /\ session[c].pc # "idle"
    /\ Cardinality(failed) < MaxFailures
    /\ streamDelta' = streamDelta \ session[c].delta
    /\ loadBatch' = loadBatch \cup FailureRows(session[c])
    /\ failed' = failed \cup {[batch_id |-> session[c].batch_id, how |-> "raised"]}
    /\ session' = [session EXCEPT ![c] = IdleSession]
    /\ UNCHANGED <<tradeEvent, tradeEventQueue, seqBatchOrder, calls, buildVars, today>>

RaiseDrain(c) ==
    /\ session[c].pc # "idle"
    /\ Cardinality(failed) < MaxFailures
    /\ loadBatch' = loadBatch \cup FailureRows(session[c])
    /\ failed' = failed \cup {[batch_id |-> session[c].batch_id, how |-> "raised"]}
    /\ session' = [session EXCEPT ![c] = IdleSession]
    /\ UNCHANGED <<tradeEvent, streamDelta, tradeEventQueue, seqBatchOrder,
                   calls, buildVars, today>>

(* The task timeout, or a lost session: the transaction is rolled back and *)
(* no handler runs.                                                        *)
KillDrain(c) ==
    /\ session[c].pc # "idle"
    /\ Cardinality(failed) < MaxFailures
    /\ failed' = failed \cup {[batch_id |-> session[c].batch_id, how |-> "killed"]}
    /\ session' = [session EXCEPT ![c] = IdleSession]
    /\ UNCHANGED <<tradeEvent, streamDelta, tradeEventQueue, seqBatchOrder,
                   loadBatch, calls, buildVars, today>>

DrainStep(c) ==
    \/ EnterDrain(c)
    \/ TakeBatchSeq(c)
    \/ BeginTransaction(c)
    \/ ConsumeStream(c)
    \/ CommitDrain(c)

-----------------------------------------------------------------------------
(* The adjudication model.  Its SELECT reads the queue and {{ this }} as   *)
(* of the start of the statement; the MERGE on event_sk commits later.     *)

AboveWatermark(q) == \A a \in adjudicated : q.batch_seq > a.batch_seq

Pending == {q \in tradeEventQueue : AboveWatermark(q)}

Verdicts(rows) ==
    {[event_sk |-> q.event_sk, batch_seq |-> q.batch_seq] : q \in rows}

StartBuild ==
    /\ build.mode = "idle"
    /\ Pending # {}
    /\ build' = [mode |-> "incremental", rows |-> Verdicts(Pending)]
    /\ UNCHANGED <<captureVars, adjudicated, today>>

(* Mutant: the table is overwritten, not merged into.                      *)
OverwriteBuild ==
    /\ build.mode = "incremental"
    /\ adjudicated' = build.rows
    /\ build' = IdleBuild
    /\ UNCHANGED <<captureVars, today>>

MergeBuild ==
    /\ build.mode = "incremental"
    /\ adjudicated' = {a \in adjudicated : a.event_sk \notin EventsOf(build.rows)}
                        \cup build.rows
    /\ build' = IdleBuild
    /\ UNCHANGED <<captureVars, today>>

FailBuild ==
    /\ build.mode # "idle"
    /\ build' = IdleBuild
    /\ UNCHANGED <<captureVars, adjudicated, today>>

-----------------------------------------------------------------------------
(* SP_PRUNE_TRADE_EVENT_QUEUE.  Before dbt has built its table the set is  *)
(* empty, which is the procedure's skipped return.                         *)
(* Mutant: the prune looks at the age alone.                               *)
PrunableByAge ==
    {q \in tradeEventQueue : q.drained_at + RetainDays < today}

Prunable ==
    {q \in tradeEventQueue : /\ q.drained_at + RetainDays < today
                             /\ q.event_sk \in Decided}

PruneQueue ==
    /\ Prunable # {}
    /\ tradeEventQueue' = tradeEventQueue \ Prunable
    /\ UNCHANGED <<tradeEvent, streamDelta, seqBatchOrder, loadBatch, session,
                   calls, failed, buildVars, today>>

NextDay ==
    /\ today < MaxDay
    /\ today' = today + 1
    /\ UNCHANGED <<captureVars, buildVars>>

-----------------------------------------------------------------------------
Next ==
    \/ \E rows \in SUBSET (Event \ tradeEvent) : Land(rows)
    \/ \E c \in Caller : DrainStep(c) \/ RaiseDrain(c) \/ KillDrain(c)
    \/ StartBuild \/ MergeBuild \/ FailBuild
    \/ PruneQueue
    \/ NextDay

Spec == Init /\ [][Next]_vars

(* A session whose statement can run runs it; the task re-calls the        *)
(* procedure every minute while the stream has data.  Builds are scheduled *)
(* hourly; one may fail, but not every one that starts.                    *)
FairSpec ==
    /\ Spec
    /\ \A c \in Caller : WF_vars(DrainStep(c))
    /\ WF_vars(StartBuild)
    /\ SF_vars(MergeBuild)

-----------------------------------------------------------------------------
TypeOK ==
    /\ tradeEvent \subseteq Event
    /\ streamDelta \subseteq Event
    /\ tradeEventQueue \subseteq QueueRow
    /\ seqBatchOrder \in Nat
    /\ loadBatch \subseteq BatchRow
    /\ session \in [Caller -> Session]
    /\ calls \in Nat
    /\ failed \subseteq Failure
    /\ adjudicated \subseteq AdjudicatedRow
    /\ build \in Build
    /\ today \in Nat

(* Every landed row is on exactly one side of the stream's offset: still   *)
(* in the delta, or handed over, and then in the queue or adjudicated.     *)
(* The drain (01_stream_and_drain.sql) may not lose or re-emit a row when  *)
(* it fails, is killed or overlaps another drain, and the prune            *)
(* (02_tasks.sql) may not remove one dbt has not adjudicated.              *)
EveryEventAccountedFor ==
    /\ tradeEvent = streamDelta \cup Queued \cup Decided
    /\ streamDelta \cap (Queued \cup Decided) = {}

(* The queue's undeclared-but-relied-on key: no event is queued twice,     *)
(* however drains overlap.  The adjudication MERGE on event_sk refuses a   *)
(* source with duplicate keys.                                             *)
QueueKeyUnique ==
    \A p, q \in tradeEventQueue : p.event_sk = q.event_sk => p = q

(* Why the two hold across overlapping drains, failures and a build in     *)
(* progress: only the session holding the stream's lock can commit, what   *)
(* it commits is still in the delta, and what a build has read has left it.*)
OneOpenDrain ==
    \A c, d \in Caller : session[c].pc = "open" /\ session[d].pc = "open" => c = d

OpenDeltaPending ==
    \A c \in Caller : session[c].pc = "open" => session[c].delta \subseteq streamDelta

BuildReadCaptured ==
    EventsOf(build.rows) \subseteq tradeEvent \ streamDelta

DrainLock == OneOpenDrain /\ OpenDeltaPending /\ BuildReadCaptured

CaptureInv ==
    /\ EveryEventAccountedFor
    /\ QueueKeyUnique
    /\ OneOpenDrain
    /\ OpenDeltaPending
    /\ BuildReadCaptured

(* batch_seq tells drains apart: rows with one number were committed by    *)
(* one call, and no call still running holds a number already used.        *)
BatchSeqUnique ==
    /\ \A c, d \in Caller :
         /\ session[c].batch_seq # 0
         /\ session[c].batch_seq = session[d].batch_seq
         => c = d
    /\ \A c \in Caller, q \in tradeEventQueue : session[c].batch_seq # q.batch_seq

(* A queue row dbt has not adjudicated is above the watermark, so the next *)
(* incremental build will read it.  A row that commits below the watermark *)
(* is never read again.                                                    *)
NothingStranded ==
    \A q \in tradeEventQueue : q.event_sk \notin Decided => AboveWatermark(q)

(* Why nothing is stranded when drains do not overlap: a number in use is  *)
(* above everything committed or being merged, and a row that commits      *)
(* while a build runs is above what the build has read.                    *)
SeqBound ==
    /\ \A q \in tradeEventQueue : q.batch_seq <= seqBatchOrder
    /\ \A a \in adjudicated \cup build.rows : a.batch_seq <= seqBatchOrder

NumberInUseIsNewest ==
    \A c \in Caller : session[c].pc \in {"numbered", "begun", "open"} =>
        /\ session[c].batch_seq <= seqBatchOrder
        /\ \A q \in tradeEventQueue : q.batch_seq < session[c].batch_seq
        /\ \A a \in adjudicated \cup build.rows : a.batch_seq < session[c].batch_seq

UnreadAboveBuild ==
    \A q \in tradeEventQueue :
        q.event_sk \notin Decided \cup EventsOf(build.rows) =>
            \A b \in build.rows : q.batch_seq > b.batch_seq

BatchOrder == SeqBound /\ NumberInUseIsNewest /\ UnreadAboveBuild

OrderInv ==
    /\ SeqBound
    /\ NumberInUseIsNewest
    /\ UnreadAboveBuild
    /\ NothingStranded

(* "A manual invocation should not create empty batches that pollute the   *)
(* operational metrics" (01_stream_and_drain.sql:89-90).  The guard keeps   *)
(* that promise for one session only: it is asked outside of the           *)
(* transaction, and another drain may take the rows in between.  An empty  *)
(* batch is the price of such an overlap: every drain that moves rows      *)
(* leaves at most one behind for each other session.                       *)
EmptyBatches == {b \in loadBatch : b.batch_status = "SUCCEEDED" /\ b.row_count = 0}
MovingBatches == {b \in loadBatch : b.batch_status = "SUCCEEDED" /\ b.row_count > 0}

EmptyBatchNeedsOverlap ==
    Cardinality(EmptyBatches) <= (Cardinality(Caller) - 1) * Cardinality(MovingBatches)

(* The drain, the incremental scan and the prune implement the abstract    *)
(* life of an event: captured once, adjudicated once, never taken back.    *)
Lifecycle == INSTANCE EventLifecycle
    WITH landed <- tradeEvent,
         captured <- tradeEvent \ streamDelta,
         decided <- Decided

ImplementsLifecycle == Lifecycle!Spec

(* Every event that lands is eventually adjudicated, through drains that   *)
(* raise or are killed and builds that fail.                               *)
EveryEventAdjudicated ==
    \A e \in Event : e \in tradeEvent ~> e \in Decided
=============================================================================
