# Verification of the trade lifecycle pipeline

TLA+ models of the trade pipeline of this repository, TLC runs that check them on
small instances, and TLAPS proofs of the results that should hold for every instance.
Paths below are relative to the repository root.

## 1. The system

Trade files are loaded into an insert-only landing table; a Snowflake stream on it is
drained, batch by batch, into a queue; dbt adjudicates the queued events (accepted,
rejected or superseded) and derives the version ledger, the golden record and the
compliance tables from the verdicts; Airflow runs the whole hourly behind gates.

    simulator / upstream feed --files--> stage --COPY, Snowpipe--> RAW.TRADE_EVENT
      --stream--> SP_DRAIN --> RAW.TRADE_EVENT_QUEUE --dbt--> INT_TRADE_EVENT_ADJUDICATED
        --> FCT_TRADE_VERSION --> FCT_TRADE --> SNP_TRADE, reporting
        --> FCT_TRADE_REJECTED, TRADE_RULE_RESULT

### Inventory

| Component | State it keeps | Operations | Talks to | What must hold |
| --- | --- | --- | --- | --- |
| Landing (`snowflake/10_ingestion`) | `TRADE_EVENT`, `LOAD_BATCH`, `COPY_ERROR`, file history of the stage | PUT, `SP_LOAD_TRADE_FILES`, Snowpipe | loader, stream | a file's rows land once, errors are recorded, a dead load is noticed |
| Stream and drain (`20_streams_tasks/01`) | stream offset, `TRADE_EVENT_QUEUE`, `SEQ_BATCH_ORDER` | `SP_DRAIN_TRADE_EVENT_STREAM`, called by the minute task, the DAG and the command line, possibly at once | landing, adjudication | no event is lost, repeated or left unread, whatever fails or overlaps |
| Housekeeping (`20_streams_tasks/02`) | the queue, the stage | `SP_PRUNE_TRADE_EVENT_QUEUE`, `SP_ARCHIVE_LOADED_FILES`, daily | drain, adjudication | nothing needed is removed |
| Typing and rule book (`dbt/models/staging`, `int_trade_event_typed`, `dbt/macros/rules`) | none (views, macros) | cast, field rules, state rules | adjudication | a rule is false or true, never null; phases are kept apart |
| Adjudication (`int_trade_event_adjudicated`) | the adjudicated log | incremental merge above a batch watermark | queue, marts | version order, one winner per version, cancellation |
| Version ledger (`fct_trade_version`) | one row per accepted version | incremental merge above a time watermark | adjudication, golden record | every accepted version is there, once |
| Golden record (`fct_trade`) | one row per trade | merge of new ledger rows, expiry sweep | ledger, snapshot | it is the ledger's top; matured trades expire; cancelled stays cancelled |
| Compliance (`dbt/models/audit`) | `FCT_TRADE_REJECTED`, `TRADE_RULE_RESULT` | append above a time watermark | adjudication | each refusal once |
| Snapshot (`dbt/snapshots`) | `SNP_TRADE` history rows | open and close rows on change | golden record | one open row per trade |
| Airflow DAG (`airflow/dags`) | task instances, XComs, `sources.json` | seventeen tasks, three gates | everything | nothing is published past a gate; a failed run is visible |
| Simulator (`ingestion/src/trade_sim`) | trade book file, output files, manifests | generate, write, load, reset | files, DAG | one version is issued once; the manifest predicts the verdict |
| Reconciler (`reconcile.py`) | none | claim rows, compare with manifest | adjudicated log | a true discrepancy is reported, a false one is not |
| Monitoring, alerts (`30_monitoring`, `40_alerts`) | alert history | views, procedures | everything | thresholds agree |
| Deployer (`scripts/deploy_snowflake_sql.py`) | the Snowflake objects | discover, render, split, apply, by anybody at any time | landing, drain, alerts | statements are sent as written; its exit code can be believed; redeploying loses nothing |
| Doctor (`scripts/doctor.py`) | none | sixteen checks, commands to run | the set-up, the deployer | no misleading failure, a way out |
| Run status (`scripts/airflow_run_status.py`) | none | verdict on a run | Airflow | status 0 means published |
| Dashboard, terraform, CI | none at run time | | | |

What is hard in it: several sessions draining one stream; transactions that roll back
around a sequence that does not; incremental watermarks of four kinds (batch number and
three timestamps) that must not move past rows not yet read; runs that stop part way at
a gate and are continued by a later run; retries of tasks whose first attempt had
effects; housekeeping beside all of it; and version arbitration over two different orders.

## 2. What is modelled

| Module | Models | Kind |
| --- | --- | --- |
| `EventLifecycle` | what capture promises: an event lands, is captured once, is decided once | abstract specification |
| `ChangeCapture` | landing, stream, drain procedure, adjudication scan, prune | state machine; implements `EventLifecycle` |
| `Adjudication` | ranking, high-water mark, rules, verdict of one run | operators |
| `TradeMarts` | adjudicated log, ledger, golden record, rejected table over runs | state machine; uses `Adjudication` |
| `MCTradeMarts` | small inboxes for `TradeMarts` | model checking |
| `FileLoad` | stage, COPY procedure, `LOAD_BATCH`, `COPY_ERROR`, two callers | state machine, composed by `PipelineRun` |
| `PipelineRun` | a DAG run with its tasks, attempts, gates and outcome, over `FileLoad` | state machine |
| `MCPipelineRun` | a dirty and a suspect file for `PipelineRun` | model checking |
| `FaultCatalogue` | the simulator's faults, their damage, and the field rules that must catch them | operators |
| `TradeGenerator` | one batch of the simulator: pools, drafts, trade book, settlement, manifest | operators; uses `Adjudication`, `FaultCatalogue` |
| `SimulatedFeed` | simulators sharing a book, the warehouse that judges their files, the reconciler | state machine; uses `TradeGenerator` |
| `MCSimulatedFeed` | a payload and a tenor for `SimulatedFeed`, and sample payloads for the catalogue | model checking |
| `StatementSplitter` | how the deployer cuts a script into statements | state machine |
| `PlatformDeploy` | deployments that overlap on a platform at work | state machine |
| `SetupDoctor` | the doctor and the operator who follows it | state machine; composes `PlatformDeploy` |
| `MCOperatorTools` | set-up, operation and script writing side by side | model checking |
| `ChangeCaptureProofs`, `MartTablesProofs`, `PipelineProofs`, `SimulatedFeedProofs`, `ManifestProofs`, `PlatformDeployProofs`, `SplitterProofs` | theorems | proofs |
| `PrefixInduction` | lemmas for loops: a least number, induction over prefixes, a loop has a run | proofs |

### ChangeCapture

State: `tradeEvent` is the landing table, `streamDelta` the rows after the stream's
committed offset, `tradeEventQueue` the queue with batch number and day of the drain,
`seqBatchOrder` the sequence, `loadBatch` the committed drain rows of `LOAD_BATCH`,
`session[c]` what caller `c` is doing inside the procedure, `adjudicated` the keys and
batch numbers in `INT_TRADE_EVENT_ADJUDICATED`, `build` the dbt statement in progress.
`calls` and `failed` are counters of the model: the first stands for `v_batch_id`, the
second counts the calls that ended badly, which bounds them.

The procedure is one action per statement another session can come between
(`01_stream_and_drain.sql:83-154`): `EnterDrain` (guard), `TakeBatchSeq` (the sequence,
spent whatever happens), `BeginTransaction` (Snowflake reads a stream inside a
transaction as of its start), `ConsumeStream` (the INSERT takes the stream's lock),
`CommitDrain` (queue rows, batch row and offset become visible together), `RaiseDrain`
(rollback and exception handler), `KillDrain` (task timeout or lost session: rollback,
no handler). The dbt build is two actions, `StartBuild` reads and `MergeBuild` commits,
because queue commits can come between; a build that fails commits nothing.
`PruneQueue` is the procedure of `02_tasks.sql:79-115`. A full refresh of the adjudicated
log is an operator's action and left out.

What Snowflake does is modelled from how the code relies on it: repeatable reads of a
stream inside a transaction, a stream locked by the transaction that consumes it, a
statement-level snapshot for dbt's SELECT, sequences outside transactions.

### Adjudication and TradeMarts

`Adjudication` keeps the order of the model's steps: field verdict (STEP 1), ranking
(STEP 2, `Loses`), high-water mark (STEP 3, `MarksBefore`), state rules (STEP 4), verdict,
version action. A window function or a maximum is a quantifier over the rows it ranges
over. The rules that read one event and the reference data (RJ002, RJ004-RJ008,
RJ011-RJ017) are one attribute, `well_formed`; RJ003 depends on the day of the build and
is kept, with its exemption for cancellations. The warning rules change no verdict: RJ018
is in `FaultCatalogue`, because a manifest promises it, RJ019 is left out. No rule looks at the
value of the action, so `Action` may hold others than NEW, AMEND and CANCEL.

In `TradeMarts` one run is `Adjudicate` followed by the three marts in any order the
dependency allows (`fct_trade` after `fct_trade_version`). `todo` holds the marts the
attempt has not built: a run that is stopped at the reject-rate gate, or whose dbt
invocation fails, is one whose `todo` is not empty when the next `Adjudicate` happens;
`RetryMarts` is the task's retry or an operator's, which builds all marts again. Time
stamps are run numbers. Inside a run the adjudication's `current_timestamp()` precedes
the ledger's, and the ledger's precedes the golden record's, so each watermark
(`> max of the table being written`) is exactly "in a later run than". The business date is
re-read by every dbt invocation, so `NextDay` may fall anywhere, also between the
adjudication and the marts of one run.

### FileLoad and PipelineRun

`SP_LOAD_TRADE_FILES` opens no transaction, so each statement is an action:
`RegisterBatch`, `CopyIntoRaw`, `InsertCopyErrors`, `CloseBatch`, and, at any of them,
`RaiseLoad` (the handler) or `KillLoad` (nobody is left to close the batch). The DAG's
loader and `trade-sim load` may be in the procedure at once. Snowflake's load history is
the set of landed files; the loader's docstring calls the procedure one transaction, the SQL
has none.

`PipelineRun` walks the tasks in the order of the wiring. `run` is the record Airflow and
XCom keep of a run: state, task, attempts, failed tasks, files detected, and what the
successful attempt of `load_files` reported. A failed task leaves the rest
`upstream_failed` down to `report_health`, whose trigger rule is `ALL_DONE`; the run's state
is that of `end`. Retries are modelled for `load_files`, the task whose failed
attempts leave something behind; of the others only running out of attempts matters
(`TaskFails`). Gates use the thresholds of the code on the rows of the files. Around the DAG:
the clock, the command line, the minute task's drain, the operator who
clears a failed task (`ClearTask`) and closes stale batches (`CloseStaleBatches`).
A file's rows move together here; what happens between rows is in the other modules. Left
out: `dagrun_timeout` (an outcome `failed` without a report, which a failing `report_health`
also gives), the pipe, and the partial effects of failing dbt tasks, which are in `TradeMarts`.
`TaskState` is what Airflow shows for a task of the latest run and `RunStatus` the exit code
`airflow_run_status.py` makes of it: 1 for any failed or upstream-failed task, 2 for an
unfinished run, 0 for the rest of the successful ones.

### FaultCatalogue, TradeGenerator and SimulatedFeed

`FaultCatalogue` maps each fault to the codes its manifest promises, to the changes it may draw
(`Damage`), and payload fields to the classes the rules tell apart (an amount is
negative, zero, within, over the limit or text; a counterparty active, inactive, unknown, blank
or null). `FieldCodes` is the set of rules such a payload trips.

`TradeGenerator` is the batch loop as functions of a record `g`, the generator: `Drafts(g)` are
the events its pools allow (new trade, amendment, resend of the version just issued, late
arrival, cancellation), `Emit` injects a fault or none and moves book and pools on, and
`BuildManifest` settles the arbitration between the events of the batch and those before it
(`_settle_version_arbitration`). Random rates become a choice of every draft and every fault;
the seed and the amounts are left out. Of time only the order of a trade's events is kept.

In `SimulatedFeed` the trade book is a file behind `fcntl` locks. `Acquire` takes the lock and loads
the book; `Generate` emits one event; `FinishBatch`, `WriteFiles` and `FinishLoad` are the points at
which `trade-sim stream`, `generate` and `load` release it (`HoldsWhileWriting`,
`HoldsWhileLoading`), and leaving it saves the book, after a failure too (`Fail`).
`ResetBook` deletes the file without asking for the lock. Nothing happens between two events of
one batch, because a generator touches nothing but its memory. A command that makes several
batches is several simulators' turns. The warehouse is reduced to `Land`, in any order, and
`Build`, which judges what has landed with the operators of `Adjudication`.

The manifest cannot foretell what happens to batches that land out of order, are
built together or follow a reset of the book, and says nothing of trades that mature, so
`ManifestForetells`, `BookFollowsWarehouse` and `ReconcileFindsNoWrongVerdict` are about batches
`InStep` in which `NothingMatured`; the run reaches both kinds. `ClaimRow` is the greedy choice of
`_claim_row`, and `Compare` the loop of `reconcile`: every expectation claims one of the rows of its
trade and version that are left, for every order in which the query may return them (`Results`).

### StatementSplitter, PlatformDeploy and SetupDoctor

`StatementSplitter` writes a script element by element (words, both kinds of comments,
strings with doubled quotes, identifiers, dollar bodies, semicolons) and scans its characters as
`split_statements` does; the statements and their lines are compared with what the elements say
(`StatementsAsWritten`). `Scan` is one character of the scanner's loop, `skip` what a two-character
token has still to take; `DropLine` and `DropBlock` are the two `re.sub` of `_is_executable`.
The characters and the bodies are constants. `MayHold` says which bodies are SQL: quotes in a string are
doubled, nothing else holds its own closing, and a word is a character that opens and closes nothing,
the new line standing for all white space. A lone minus, slash or dollar, which is harmless or opens
something depending on what follows, is left out.
Where statements end is compared for every script. Whether what stands between is sent is compared but for
one case: a block comment that holds `--` before the SQL (`Misled`), where `_is_executable` is wrong; there
`ToSend` follows the code (what goes wrong is described with the disagreements in section 3). The run
gives strings, bodies and comments, `/*--*/` among them, that hold what
opens or closes other elements. `strip()` takes the same from both sides and is not in the statements.

In `PlatformDeploy` one statement stands for all statements of its directory that treat one
kind of object; what it needs, whether it replaces or keeps what is there, and the order are
those of the scripts. Replacing a task or an alert suspends it, replacing the internal stage
drops its files, a new stream shows the initial rows. A deployment is its remaining plan; it
stops at an error or goes on, may be interrupted, and ends with an exit code. Loads, drains
and dbt builds go on beside it. `vouched` and `suspendedBy` are history: what an exit code 0 was
given for, and by whom something was suspended.

`SetupDoctor` has the sixteen checks in their order, the blocking between them, the commands
`check_snowflake_objects` prints, and the operator: he runs the doctor, does what the first failure
names, and asks again. A set-up begins with up to three faults, in the machine, `.env`, the account
or the scripts. `MCOperatorTools` lets a set-up, the operation of a platform, or the writing of a
script happen; they share no state, and one run covers the three.

## 3. What is checked

Every run is exhaustive over its bounds. `CHECK_DEADLOCK FALSE` is set in all of them:
when the bounds are used up the model stops, which is the bound and not the system.

| Run | Question | Bounds | Result |
| --- | --- | --- | --- |
| `CaptureOverlap` | Can overlapping drains, failures, kills, builds and prunes lose, repeat or take back an event? When is an empty batch recorded? | 3 events, 2 callers, 3 calls, 1 failure, 2 days | holds |
| `CaptureSerial` | With one drain at a time, is anything stranded, and is every event adjudicated? | 2 events, 1 caller, 4 calls, 2 failures, 3 days; fair | holds |
| `CaptureStranded` | And when drains overlap? | 2 events, 2 callers, 2 calls | `NothingStranded` violated |
| `MartsArbitration` | Do arbitration, ledger and golden record stay ordered and complete? | 3 events in batches of at most 2, 3 runs, 9 kinds of arrival | holds |
| `MartsLifecycle` | Do audit, expiry and cancellation, and the golden record against the ledger, survive retries and a day boundary? | 3 events, 3 runs, 1 retry, 2 days, 2 trades | holds |
| `MartsStale` | Has a rejected event no influence on later decisions? | 3 events, 2 runs | `StaleAgainstAccepted` violated |
| `MartsCancel` | Is a cancellation final? | 3 events, 2 runs | `CancellationTerminal` violated |
| `PipelineRuns` | Whatever dies, is retried or cleared, do rows land once, do batches tell the truth, do dead loads block publication, has a run of status 0 published its files, do runs end? | 2 files, 3 batches, 3 hours, 1 retry, 2 callers; fair | holds |
| `PipelineGreen` | Is a run whose gate tripped visible as failed? | 2 files, 3 batches, 2 hours | `TrippedGateIsLoud` violated |
| `SimulatedFeed` | Do simulators that share a book take a version once, does the warehouse decide what the manifests promise, does the reconciler find it so; is every fault caught? | 3 simulators, 2 batches, 4 events, 2 trades, 1 reset; all faults on all clean payloads (1.2 million states) | holds |
| `OperatorTools` | Can exit codes be believed when deployments overlap and fail, is capture untouched by redeploying, does the doctor lead out, is a script cut where it should be? | 2 deployers, 2 deployments, 1 failure, 2 environments, 1 file; 3 faults; scripts of 4 elements (0.9 million states); fair | holds |
| `StageReplaced` | Do staged files survive a redeployment? | 2 deployments, 2 failures, 1 file | `StagedFilesSurvive` violated |

Why these bounds are enough for the cases that matter: an overlap needs two callers, a
build between two commits, and a third event to tell a stranded row from a pending one;
the retry of a failed drain needs one failure and one more call than events; a prune needs
a day to pass. Arbitration compares at most three events at a time (a stored version, a
mark of the run and the event judged), and needs three runs for a run without marts
between two complete ones. The sequence numbers, days and runs are otherwise unbounded in
the definitions: `MaxCalls`, `MaxFailures`, `MaxDay`, `MaxBatch`, `MaxEvents`, `MaxRuns`
and `MaxAttempts` are the bounds, and the proofs do not use them. The retention of the
queue is 7 days in the code and a constant here (`RetainDays = 0` makes a row prunable on
the day after its drain). In `SimulatedFeed` four events are what the hardest arbitration takes: a
trade, its amendment, a resend of that and a late arrival, in one batch or over two; two faults
stand for those that reject and those that warn, the others are checked one by one on payloads
(`FaultIsCaught`); `MaxDay = 0` keeps trades from maturing, which the properties exclude. In
`OperatorTools` two deployments overlap, a third fault is where blocked checks hide one another, and
four elements put a semicolon between two elements that could be mistaken for one another.

Fairness. `CaptureSerial` (`FairSpec` of `ChangeCapture`): a session whose next statement can
run runs it; the minute task calls the procedure again while the stream has data; the
hourly build starts when something is pending; a build that starts again and again
commits eventually (strong fairness on `MergeBuild`: a build may fail, but not always).
Nothing makes `RaiseDrain`, `KillDrain` or the prune happen.
`PipelineRuns` assumes weak fairness of the Airflow scheduler (it takes the next task of a
running DAG) and of a procedure call in progress (Snowflake executes its next statement).
Its bounds: a batch is stuck after one hour, so a load that dies at hour 1 is seen by the
run of hour 3; three batches are a failed attempt, its retry and one of another caller or run.
`OperatorTools` assumes that the operator who sets a platform up goes on, and that a script he
started runs to its end (`WF_vars(SetUp)`); failures without cause are bounded by `MaxFailures`,
so that a deployment that keeps failing for no reason is not his doing.

### Where code and documentation disagree

* `CaptureStranded`. `batch_seq` is drawn before the transaction (line 95). Session A
  draws 1, session B draws 2 and commits, dbt adjudicates B's rows, A commits with 1: the
  watermark is already 2 and A's rows are never read. The procedure's comment says no
  interleaving loses a trade. `assert_no_event_is_silently_dropped.sql` says it catches this, but
  it starts from the adjudicated rows, where the events never arrive.
* `MartsStale`. The mark is computed before the STATE rules, so an amendment that RJ010
  rejects still raises it and makes a later, lower version stale.
* `MartsCancel`. RJ010 looks at earlier builds. In the batch that also contains the
  cancellation, a later amendment of a higher version is accepted and the trade is LIVE.
* `PipelineGreen`. `verify_group` returns `report_health`, so `verify >> end` hangs the only
  leaf on a task that runs and succeeds after any failure: a tripped gate ends in a green run,
  and `on_success` is called for it. `airflow_run_status.py` is not fooled, because it looks at the
  tasks (`StatusZeroMeansPublished`).
* `StageReplaced`. `create or replace stage` is in the files every deployment applies; files
  that were PUT and not yet copied are gone, while ADR 0002 calls redeploying a no-op.

Disagreements that no run is spent on:
* a drain that passed the `stream_has_data` guard while another one had the stream open commits a SUCCEEDED
  batch of 0 rows: the guard is asked before the transaction begins (`01_stream_and_drain.sql:91-97`). The
  comment on it (89-90) says a manual invocation should not create empty batches. "No SUCCEEDED batch is
  empty" is false with two callers, and the code has three; what holds is `EmptyBatchNeedsOverlap`, each
  empty batch being the price of an overlap;
* `_is_executable` (`deploy_snowflake_sql.py:355-357`) removes line comments first. In `/* a -- b */ select 1` followed, on a
  later line of the same statement, by another block comment, the end of the first comment goes with the line, and the
  opening then reaches to the end of the second: nothing is left, and the statement is not sent, though the docstring
  (348) says "True if the text contains SQL". Without a second comment the opening stays, and a comment alone is
  sent as SQL. Scripts in the repository have no such comment. `StatementsAsWritten` makes no claim there (`Misled`);
* the docstring of `check_snowflake_objects` (`doctor.py:577-581`) wants a checklist that does
  not fail on a fresh account; the code returns FAIL while the RAW tables are missing (626-628, whose own
  comment says why), and the doctor's exit code is 1. Which of the two is meant is not decided here; following
  the doctor leads out either way (`SetupSucceeds`).

Seen while reading and not made into a run.

Capture and landing:
* the failure handler's `batch_id` is a UUID of 36 characters with `-failed` appended
  (`01_stream_and_drain.sql:147`), the column `varchar(36)` (`02_raw_tables.sql:76`): its insert fails
  and a failed drain leaves no row, although line 142 says the row is there so that the failure survives;
* after a prune the queue no longer holds what a full refresh needs, while `02_raw_tables.sql:5-6`
  promises that everything can be rebuilt from RAW;
* `loader.copy_into_raw` calls the COPY procedure one transaction, the SQL has none;
* `RETRYABLE_ERROR_CODES` is not used;
* the replay INSERTs of `docs/runbook.md` name a column `raw_payload` the queue does not have.

Adjudication and marts:
* STATE rules are evaluated for field-invalid events too, although `docs/validation-logic.md:98-99`
  and its table (line 307) say they are not: the verdict is the same, the listed codes differ;
* `fct_trade_version.sql:53-56` says a run can accept two events of one version, which the ranking
  excludes (`OneAcceptedPerVersion`);
* `docs/validation-logic.md:286-288` says that of two events of one version the later is the one that arrived
  later, "not by any timestamp in the payload"; the code ranks by business time first (`Outranks`);
* the data test `adjudicated_one_accepted_event_per_trade_version` counts over all builds, while the ranking,
  and `OneAcceptedPerVersion`, are about one build; `docs/known-limitations.md:209` says so;
* no rule looks at the value of the action: an unknown one is accepted as an amendment, and
  `CancelledRowsStay` needs the assumption that there are none.

DAG and status:
* `gate_reject_rate` says rejected events are already in `FCT_TRADE_REJECTED`, a mart built after
  the gate; a batch the gate stopped leaves its two-hour window and is published by a later run;
* `wait_for_files` says it waits for an unprocessed file but accepts any staged one;
* a retried or cleared `load_files` reports only what its last attempt copied, so the parse errors
  of the attempt before are not in the rate `gate_load_integrity` tests;
* `parse_error_count` counts the per-file summary rows;
* `alerting.py:178` takes `try_number == max_tries` for the last attempt, which is one more.

Simulator and reconciler:
* `_claim_row` is greedy by codes: expectations {RJ007} and {RJ001, RJ007} on one version
  can meet rows in an order that yields a false MISSING_RULE_CODE (verdicts are safe:
  `ReconcileFindsNoWrongVerdict`);
* the book is saved when writing failed (`generator.py:135-138`), which is what keeps versions unique,
  but later resends of versions that never left are expected to be stale;
* two batches adjudicated in one build break the first one's manifest;
* an amendment of a matured trade is expected ACCEPTED (`generator.py:501-503`) and refused by RJ003;
* `missing_trade_id` promises RJ008, the rule book gives RJ004, and such rows never reach
  `COPY_ERROR` (`docs/runbook.md:764-770`);
* `reset-book` ignores the lock; on Windows there is no lock at all.

Deployer and doctor:
* the line reported for a statement is that of the semicolon before it;
* the doctor's docstring has exit code 2 for a wrong Python, the code returns 1; exit code 0
  asks for the RAW tables only; "deployed objects" raises, and so fails, when the warehouse is unusable;
* the commands for missing objects are printed in alphabetical order, dbt before the
  deployment it needs: following them takes several rounds (`SetupSucceeds` holds);
* doctor, `run_sql` and dashboard read `SNOWFLAKE_ENV`, deployer and dbt read `DBT_TARGET`.

## 4. What is proved

For every value of the constants (the assumptions are only that events and callers are finitely many,
widths are numbers, versions integers, timestamps naturals, the inbox holds arrivals, files are
finitely many with numbers of rows, the stale time and the number of retries are numbers, the
faults drawn are in the catalogue, the payload without fault is one that `_new_trade_fields` draws, tenors and bounds are naturals,
a command that holds the lock while loading holds it while writing, `NoSim` and `NoOne` stand for
nobody, environments are `dev` and `prod`, the operator is a deployer with a target, and the bodies of a
script's elements are such as `MayHold` allows):

* `ChangeCaptureProofs!TypeCorrect`: `TypeOK`.
* `EmptyBatchesNeedOverlap`: `EmptyBatchNeedsOverlap` for any finite number of sessions, by counting. A call that
  will move nothing found rows when it asked (`ComesTooLate`); `EmptyBatchesOwed` adds these calls to the empty
  batches already recorded. A commit of rows makes at most the other sessions too late and is one moving batch
  more; a commit of nothing turns a late call into an empty batch. Two commits are two rows of `LOAD_BATCH`
  (`BatchRowOwn`), so each is counted.
* `CaptureCorrect`: every landed event is in the delta or handed over and never
  both, and the queue's key is unique. Neither conjunct is inductive. What is needed besides
  (`CaptureInv`): at most one session holds the stream's lock; what it will commit is still
  in the delta; what a build has read has left it. The three
  together are the run property `DrainLock`.
* `CaptureImplementsLifecycle`: every step is a step of `EventLifecycle` or leaves its
  three sets alone. A commit captures the session's delta, a merge decides the build's rows, a
  prune changes none of the three because it removes decided events only.
* `SerialDrainsStrandNothing`: with one caller (`OneCaller`, the assumption of that theorem),
  nothing is stranded. The invariant adds that a number in use is the newest (`NumberInUseIsNewest`) and
  that what commits during a build is above what it read (`UnreadAboveBuild`).
* `LockProtectsDelta` and `BatchNumbersUnique`: the conjuncts of `CaptureInv` that are the run property
  `DrainLock`, and that a number is above all it was drawn after. `QueueHoldsEventOnce` is the other half of
  `CaptureCorrect`.
* `SerialBatchesOrdered`, again with `OneCaller`: order of visibility.
* `MartTablesProofs!TypeCorrect`: `TypeOK`.
* `VersionsNeverGoBack`, `OneWinnerPerVersion`: from an invariant on keys and stamps (a queued key
  is at most the last one given, a verdict's run at most the current one, and
  everything adjudicated is below everything pending), because the mark covers both
  stored and run versions and because the ranking is a total order.
* The rest of `MartTablesProofs` is about the tables built from the log, each from an invariant of its own.
  `LogInv` is what the log guarantees: types, the order of arbitration, one verdict per event.
  `AuditInv` and `LedgerInv` say of a table's
  watermark, the newest stamp in the table itself, that what is older is in and what is newer is
  not (`RefusalsAuditedOnce`, `LedgerHasEveryVersion`). For the ledger this also needs that rows of
  a later run are later versions of their trade. `GoldenInv` relates golden record and ledger, under
  the two watermarks and the order of the two marts: what the ledger has and the golden record
  does not show is newer than what it shows (`NewRowsAreLater`), and a build picks the top of a finite
  set (`Unbeaten`); from it
  come `GoldenShowsTop`, `GoldenMovesForward`, `MaturedAreSwept` and `CancelledRowsStay`, the last under
  `KnownActions` (actions are NEW, AMEND, CANCEL). `TradeIsNewOnce` is about positive versions,
  the only ones a rule lets through.
* `PipelineProofs`: `TypeCorrect`; `EveryFileLandsOnce` and `SuccessIsTold` from `LoadInv` (a caller in
  the procedure has an open batch of its own, under which exactly what it knows of has
  landed); `DeadLoadsBlock` from `GateInv` (past the gate no open batch is older than the stale time
  allows for this run, also for a task that is cleared later); `StatusZeroIsTrue` from
  `WorkInv` (at each task, and at a failed one, what the tasks before it had to do for the
  run's files has been done), `CallInv` (COPY is asked for all of them, and they are staged) and
  `ChainInv`.
* `SimulatedFeedProofs` rests on `FeedInvariant`. `FeedInv` has the types (`FeedType`, which gives
  `FeedTypeCorrect`); who holds the lock, and that with it released a simulator's memory no longer matters
  (`LockInv`); that the batch of the simulator at work is the last one and nobody has seen it
  (`GeneratorInv`); and `History`, which relates the book as it would be saved now to the log of all events
  generated so far, those still in memory included. The parts of `History`:
  the book has an entry for every event that may be accepted and is not behind it (`Recorded`), and knows
  nothing that was not generated (`VersionsWitnessed`, `CancelsWitnessed`); of two events of a trade the
  later has the later time, comes after no booked cancellation and takes another version (`Ordered`);
  the floor a batch starts from is what earlier batches reached, no less and no more (`FloorAbove`,
  `FloorReached`); an event not marked late has the highest version known (`LateMarked`). Books of
  different universes, before and after a `reset-book`, are kept apart. `IdentifiersMintedOnce` and
  `BusinessTimeAdvances` are `Ordered`; neither is inductive without the book that `Recorded` ties to it,
  because the next event is drawn from the book.
* `ManifestProofs`: `FaultsCaught` by cases over the catalogue, for every clean payload and token; clean means valid, because
  product and book are drawn independently and an amount may be over the book's limit (RJ018, a warning).
  `WarehouseInvariant` adds to `FeedInv` that a manifest is `BuildManifest` of its batch's events and
  that every verdict is what `Adjudication` gives on the rows judged with it and the rows earlier builds
  accepted (`Judged`): a build changes neither for the batches already built, so every verdict can be computed
  again at any later time. That is what makes an induction over the batches unnecessary in
  `ManifestIsGroundTruth`. For a batch in step the rows judged with it are its own events, in the order of
  business time by `Ordered`, so that the warehouse's ranking is the manifest's race between equal versions;
  what earlier builds accepted reaches exactly the batch's floor, by `FloorAbove`, `FloorReached` and
  `LateMarked`, so that the warehouse's mark is the manifest's; and RJ010 does not fire, because no event
  follows a booked cancellation. `BookIsFollowed` goes the other way: the event that witnesses the book's
  version, or its cancellation, was accepted.
* `ReconcilerAgreesWithManifest`: for every batch in step, of any size, and every order of the rows,
  each expectation claims a row, and one of its verdict. Events of one trade and
  version can differ in verdict. The argument is a pairing: at every round of the loop the expectations still to come can be paired with rows still unclaimed that have their verdict. By
  `ManifestIsGroundTruth` the events themselves are such a pairing at the start. When the greedy choice takes a row
  that belonged to a later expectation, the two exchange rows: `_claim_row` takes a row of another verdict
  only when no row of the right one is left, which the pairing excludes.
* `PlatformDeployProofs!RedeployingKeepsCapture`: `CapturedOnce`, because the stream is
  made only where there is none, and before that nothing was handed over.
* `DeployedExists` and `SuspendedIsKnown` from `DeployInv`, about the remaining plans of the runs at work: a
  run that has not failed has each object of the phases it will vouch for behind it or still in its plan
  (`WillMake`); who replaces a task or an alert resumes it later in the same plan (`WillResume`); what
  stands suspended belongs to a run at work that has failed or still has the resume in its plan
  (`SuspenderWorks`). `WillResume` is true of a plan when it is made because plans are concatenations of at
  most four directories' scripts, which unfolds without induction.
* `DoctorFailuresGenuine` holds in every state, by the order of the checks and
  the blocking between them: a check that merely rests on a broken subject stands behind the one that
  finds it broken. The check of the deployed objects is the exception, which fails when no warehouse is usable.
* `SplitterProofs!ScriptsSplitAsWritten`: `StatementsAsWritten` for scripts of any number of elements
  and any bodies that `MayHold` allows, block comments with `--` in them included. An element that is entered from code is left as it was entered, with its text in the buffer
  and its new lines counted (`BracketScanned`, from what the scanner is inside of after each of its
  characters, `Reached`; nothing in a body closes it, `BodyStaysOpen`). The exception is two strings that
  touch, `'a''b'`: the scanner takes their quotes for an escaped one and never leaves the string (`Merges`), which
  cuts no statement differently, because only a string begins with a quote (`QuoteBegins`). So at every
  boundary between elements scanner and author agree on the statements, the buffer and the line (`Agrees`). That a buffer
  is sent exactly when it holds SQL, unless it is `Misled` (`ExecutableIffSql`), is proved along the two passes of `_is_executable`:
  what stands before the first SQL element loses its line comments, then its block comments, each up to its own
  closing, until new lines are left (`LeadUnlined`, `LeadBlank`); the first character of SQL is no comment sign
  and no white space (`SqlBegins`) and survives both passes, since a pass only ever appends to what it keeps.

The two loops above are modelled by recursive functions. The library's theorems on recursion and induction take
an operator as a parameter, which the provers cannot instantiate; `PrefixInduction` has the same
facts about sets and functions: a set of numbers has a least element, a set that contains 0 and with n also n + 1
contains every prefix length, and a loop over N elements has a run (`LoopExists`), whose rounds
the lemmas `LinesRuns`, `BlocksRuns`, `ScanRuns`, `WrittenRuns` and `TextRuns` identify with those of the model.

The invariants `LogInv`, `AuditInv`, `LedgerInv` and `GoldenInv` were model-checked on the
instance of `MartsLifecycle` before they were proved, the parts of `History` and `WarehouseInv` on that of
`SimulatedFeed`, and `DeployInv` on that of `OperatorTools`.

Only model-checked: liveness (`EveryEventAdjudicated`, `RunEnds`, `SetupSucceeds`), which the prover
cannot do. Every other property of a passing run is stated by a theorem. The five properties that runs
violate are not theorems.

## 5. Plan

1. (done) capture: `EventLifecycle`, `ChangeCapture`, proofs.
2. (done) adjudication and marts: `Adjudication`, `TradeMarts`, proofs of all their properties that hold.
3. (done) landing and DAG: `FileLoad`, `PipelineRun`, proofs of all their safety properties.
4. (done) simulator: `FaultCatalogue`, `TradeGenerator`, `SimulatedFeed`, proofs of all their safety
   properties.
5. (done) operation: `StatementSplitter`, `PlatformDeploy`, `SetupDoctor`, proofs of all their safety
   properties.
6. Left: `SNP_TRADE` and `TRADE_RULE_RESULT` as further marts; the cast diagnostics behind
   `well_formed`; the scorecard's thresholds.

Not modelled:
* `SNP_TRADE` is written by dbt's snapshot strategy; the repository names only the columns to compare.
* `TRADE_RULE_RESULT` is appended above the same kind of watermark as `FCT_TRADE_REJECTED`.
* Dimensions, reporting views, monitoring views and the dashboard read and keep no state.
* Alerts and callbacks build messages; a failed delivery is swallowed.
* Snowpipe: nothing in the code drives it. The stage archive removes only what
  `COPY_HISTORY` confirms.
* Credentials, sessions and retries of connections; `selfcheck`, `run_sql` and `validate_dags`, which
  read and print; terraform and CI.
