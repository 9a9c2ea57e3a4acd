----------------------------- MODULE TradeMarts -----------------------------
(***************************************************************************)
(* Adjudication and the tables dbt derives from it: the adjudicated log,   *)
(* the version ledger FCT_TRADE_VERSION, the golden record FCT_TRADE and   *)
(* the compliance table FCT_TRADE_REJECTED.                                *)
(*                                                                         *)
(* One run is one adjudication followed by the marts.  Between the two the *)
(* DAG has its reject-rate gate, and any dbt invocation may fail part way, *)
(* so a run may end with some of its marts not built; the next run, or a   *)
(* retry of the task, builds on what it finds.                             *)
(*                                                                         *)
(* Timestamps are counted in runs.  Inside a run the adjudication's        *)
(* current_timestamp() is before the ledger's, and the ledger's before     *)
(* FCT_TRADE's, so "later than the newest row of the table I write" is     *)
(* exactly "stamped in a later run than that row".                         *)
(***************************************************************************)
EXTENDS Adjudication, Sequences

CONSTANTS
    Inbox,          \* what the upstream systems may send, a set of arrivals
    MaxBatch,       \* bound: events in one drained batch
    MaxEvents,      \* bound: events in all
    MaxRuns,        \* bound: runs
    MaxAttempts,    \* bound: repeated marts attempts of one run
    MaxDay          \* bound: days

ASSUME InboxAssumption == Inbox \subseteq Arrival

VARIABLES
    queue,          \* the rows of TRADE_EVENT_QUEUE
    lastEventSk,    \* the last EVENT_SK given
    seqBatchOrder,  \* the last batch_seq given
    adjudicated,    \* INT_TRADE_EVENT_ADJUDICATED
    ledger,         \* FCT_TRADE_VERSION
    golden,         \* FCT_TRADE
    rejected,       \* FCT_TRADE_REJECTED
    run,            \* runs started
    attempt,        \* marts attempts of the current run, after the first
    todo,           \* marts the current attempt has still to build
    businessDate

feedVars == <<queue, lastEventSk, seqBatchOrder>>
tableVars == <<adjudicated, ledger, golden, rejected>>
runVars == <<run, attempt, todo>>
vars == <<feedVars, tableVars, runVars, businessDate>>

-----------------------------------------------------------------------------
Mart == {"fct_trade_version", "fct_trade", "fct_trade_rejected"}
Status == {"LIVE", "EXPIRED", "CANCELLED"}

AdjudicatedRow == [event : Event, verdict : Verdict, state_rule_codes : SUBSET StateRule,
                   version_action : VersionAction, adjudicated_at : Nat]
LedgerRow == [event : Event, dbt_updated_at : Nat]
GoldenRow == [event : Event, lifecycle_status : Status, dbt_updated_at : Nat]
RejectedRow == [event_sk : Nat, disposition : {"REJECTED", "SUPERSEDED"},
                rejected_at : Nat, dbt_created_at : Nat \X Nat]

Accepted == {a \in adjudicated : a.verdict = "ACCEPTED"}
Refused == {a \in adjudicated : a.verdict # "ACCEPTED"}

Init ==
    /\ queue = {} /\ lastEventSk = 0 /\ seqBatchOrder = 0
    /\ adjudicated = {} /\ ledger = {} /\ golden = {} /\ rejected = {}
    /\ run = 0 /\ attempt = 0 /\ todo = {}
    /\ businessDate = 0

-----------------------------------------------------------------------------
(* One drain commits one batch.  Drains do not overlap here: what happens  *)
(* when they do is in ChangeCapture.                                       *)
Drain(batch) ==
    /\ lastEventSk + Len(batch) <= MaxEvents
    /\ queue' = queue \cup
         {[event_sk |-> lastEventSk + i, batch_seq |-> seqBatchOrder + 1,
           sent |-> batch[i]] : i \in 1..Len(batch)}
    /\ lastEventSk' = lastEventSk + Len(batch)
    /\ seqBatchOrder' = seqBatchOrder + 1
    /\ UNCHANGED <<tableVars, runVars, businessDate>>

-----------------------------------------------------------------------------
(* int_trade_event_adjudicated: the events above the watermark, judged     *)
(* against what earlier builds accepted, and merged on event_sk.           *)
Pending == {e \in queue : \A a \in adjudicated : e.batch_seq > a.event.batch_seq}

Judged(pending, prior, now) ==
    LET valid == {e \in pending : IsFieldValid(e, businessDate)} IN
    {[event |-> e,
      verdict |-> VerdictOn(valid, prior, e),
      state_rule_codes |-> StateRulesFired(valid, prior, e),
      version_action |-> VersionActionOf(valid, prior, e),
      adjudicated_at |-> now] : e \in pending}

Adjudicate ==
    /\ run < MaxRuns
    /\ run' = run + 1
    /\ attempt' = 0
    /\ todo' = Mart
    /\ adjudicated' =
         {a \in adjudicated : \A e \in Pending : e.event_sk # a.event.event_sk}
           \cup Judged(Pending, {a.event : a \in Accepted}, run + 1)
    /\ UNCHANGED <<feedVars, ledger, golden, rejected, businessDate>>

-----------------------------------------------------------------------------
(* Mutant: only the verdicts of the run that is building.                  *)
AcceptedThisRun == {a \in Accepted : a.adjudicated_at = run}

(* fct_trade_version: verdicts newer than the ledger, the last writer of   *)
(* each version, merged on (trade_id, trade_version).                      *)
NewlyAccepted == {a \in Accepted : \A r \in ledger : a.adjudicated_at > r.dbt_updated_at}

NewVersions ==
    {a.event : a \in {a \in NewlyAccepted : \A b \in NewlyAccepted :
                        SameVersion(b.event, a.event) => ~Outranks(b.event, a.event)}}

BuildVersionLedger ==
    /\ "fct_trade_version" \in todo
    /\ ledger' =
         {r \in ledger : \A e \in NewVersions : ~SameVersion(e, r.event)}
           \cup {[event |-> e, dbt_updated_at |-> run] : e \in NewVersions}
    /\ todo' = todo \ {"fct_trade_version"}
    /\ UNCHANGED <<feedVars, adjudicated, golden, rejected, run, attempt, businessDate>>

-----------------------------------------------------------------------------
(* Mutant: only the ledger rows of the run that is building.               *)
LedgerRowsThisRun == {r \in ledger : r.dbt_updated_at = run}

(* fct_trade: the highest version of each trade with a newer ledger row,   *)
(* and the live trades whose maturity has passed, merged on trade_id.      *)
NewLedgerRows == {r \in ledger : \A g \in golden : r.dbt_updated_at > g.dbt_updated_at}

Changes ==
    {r.event : r \in {r \in NewLedgerRows : \A q \in NewLedgerRows :
                        SameTrade(q.event, r.event) =>
                            q.event.sent.trade_version <= r.event.sent.trade_version}}

(* Mutant: a label the accepted_values test does not know.                 *)
UnknownStatus(e) ==
    IF e.sent.action = "CANCEL" THEN "WITHDRAWN" ELSE "LIVE"

LifecycleStatus(e) ==
    IF e.sent.action = "CANCEL" THEN "CANCELLED"
    ELSE IF Matured(e.sent.maturity_date, businessDate) THEN "EXPIRED" ELSE "LIVE"

(* Mutant: any status may expire.                                          *)
ExpiresAnyStatus(g) ==
    /\ Matured(g.event.sent.maturity_date, businessDate)
    /\ g.lifecycle_status # "EXPIRED"
    /\ \A e \in Changes : ~SameTrade(e, g.event)

(* Mutant: nothing is swept, a trade expires when its next event arrives.  *)
ExpiresWithEvent(g) == FALSE

(* Mutant: a trade that a new version rewrites is swept as well.           *)
ExpiresBesideChange(g) ==
    /\ Matured(g.event.sent.maturity_date, businessDate)
    /\ g.lifecycle_status = "LIVE"

NeedsExpiry(g) ==
    /\ Matured(g.event.sent.maturity_date, businessDate)
    /\ g.lifecycle_status = "LIVE"
    /\ \A e \in Changes : ~SameTrade(e, g.event)

BuildTrade ==
    /\ "fct_trade" \in todo
    /\ "fct_trade_version" \notin todo
    /\ golden' =
         {g \in golden : /\ \A e \in Changes : ~SameTrade(e, g.event)
                         /\ ~NeedsExpiry(g)}
           \cup {[event |-> e, lifecycle_status |-> LifecycleStatus(e),
                  dbt_updated_at |-> run] : e \in Changes}
           \cup {[g EXCEPT !.lifecycle_status = "EXPIRED", !.dbt_updated_at = run] :
                   g \in {g \in golden : NeedsExpiry(g)}}
    /\ todo' = todo \ {"fct_trade"}
    /\ UNCHANGED <<feedVars, adjudicated, ledger, rejected, run, attempt, businessDate>>

-----------------------------------------------------------------------------
(* Mutant: the watermark admits the newest rows again.                     *)
RefusedSinceInclusive ==
    {a \in Refused : \A r \in rejected : a.adjudicated_at >= r.rejected_at}

(* fct_trade_rejected: refused events newer than the table, appended.      *)
NewlyRefused ==
    {a \in Refused : \A r \in rejected : a.adjudicated_at > r.rejected_at}

BuildRejected ==
    /\ "fct_trade_rejected" \in todo
    /\ rejected' = rejected \cup
         {[event_sk |-> a.event.event_sk, disposition |-> a.verdict,
           rejected_at |-> a.adjudicated_at,
           dbt_created_at |-> <<run, attempt>>] : a \in NewlyRefused}
    /\ todo' = todo \ {"fct_trade_rejected"}
    /\ UNCHANGED <<feedVars, adjudicated, ledger, golden, run, attempt, businessDate>>

-----------------------------------------------------------------------------
(* The marts task is tried again, by its retries or by an operator: dbt    *)
(* builds every model of it again, those that had succeeded included.      *)
RetryMarts ==
    /\ run > 0
    /\ attempt < MaxAttempts
    /\ attempt' = attempt + 1
    /\ todo' = Mart
    /\ UNCHANGED <<feedVars, tableVars, run, businessDate>>

NextDay ==
    /\ businessDate < MaxDay
    /\ businessDate' = businessDate + 1
    /\ UNCHANGED <<feedVars, tableVars, runVars>>

Batch == UNION {[1..n -> Inbox] : n \in 1..MaxBatch}

Next ==
    \/ \E batch \in Batch : Drain(batch)
    \/ Adjudicate
    \/ BuildVersionLedger
    \/ BuildTrade
    \/ BuildRejected
    \/ RetryMarts
    \/ NextDay

Spec == Init /\ [][Next]_vars

-----------------------------------------------------------------------------
TypeOK ==
    /\ queue \subseteq Event
    /\ lastEventSk \in Nat
    /\ seqBatchOrder \in Nat
    /\ adjudicated \subseteq AdjudicatedRow
    /\ ledger \subseteq LedgerRow
    /\ golden \subseteq GoldenRow
    /\ rejected \subseteq RejectedRow
    /\ run \in Nat
    /\ attempt \in Nat
    /\ todo \subseteq Mart
    /\ businessDate \in Nat

(* Rule R1, over the whole history: an event accepted after another of its *)
(* trade, in a later build or later in the same one, is never of a lower   *)
(* version.  The mark of int_trade_event_adjudicated.sql has to combine    *)
(* what is stored with what the run has accepted so far.                   *)
AcceptedInOrder ==
    \A a, b \in Accepted :
        /\ SameTrade(a.event, b.event)
        /\ \/ a.adjudicated_at < b.adjudicated_at
           \/ a.adjudicated_at = b.adjudicated_at /\ Precedes(a.event, b.event)
        => a.event.sent.trade_version <= b.event.sent.trade_version

(* Rule R2 inside a build: of several field-valid events of one version at *)
(* most one is accepted.                                                   *)
OneAcceptedPerVersion ==
    \A a, b \in Accepted :
        SameVersion(a.event, b.event) /\ a.adjudicated_at = b.adjudicated_at => a = b

(* A trade is NEW once: version_action tells the first accepted event of a *)
(* trade from every later one, across and within builds.                   *)
OneNewPerTrade ==
    \A a, b \in Accepted :
        /\ SameTrade(a.event, b.event)
        /\ a.version_action = "NEW" /\ b.version_action = "NEW"
        /\ a.event.sent.trade_version > 0 /\ b.event.sent.trade_version > 0
        => a = b

(* "One row per accepted version, ever": once fct_trade_version is built,  *)
(* each accepted version has exactly one row, though runs before this one  *)
(* may have ended without building it.                                     *)
LedgerComplete ==
    "fct_trade_version" \notin todo =>
        /\ \A a \in Accepted : \E r \in ledger : SameVersion(r.event, a.event)
        /\ \A r, q \in ledger : SameVersion(r.event, q.event) => r = q
        /\ \A r \in ledger : \E a \in Accepted : a.event = r.event

(* "FCT_TRADE is then a trivial projection of the maximum version, and the *)
(* two can never disagree": once fct_trade is built, a trade of the ledger *)
(* has one golden row, and it is the ledger's row of its highest version.  *)
GoldenIsLedgerTop ==
    todo \cap {"fct_trade_version", "fct_trade"} = {} =>
        /\ \A r \in ledger : \E g \in golden :
             /\ SameTrade(g.event, r.event)
             /\ r.event.sent.trade_version <= g.event.sent.trade_version
        /\ \A g, h \in golden : SameTrade(g.event, h.event) => g = h
        /\ \A g \in golden : \E r \in ledger : r.event = g.event

(* "Append-only and never deleted", with no unique key to lean on: however *)
(* often the marts are retried, a refused event has one row, and has it as *)
(* soon as fct_trade_rejected is built.                                    *)
RejectedAuditedOnce ==
    /\ \A r, q \in rejected : r.event_sk = q.event_sk => r = q
    /\ "fct_trade_rejected" \notin todo =>
         \A a \in Refused : \E r \in rejected :
             r.event_sk = a.event.event_sk /\ r.disposition = a.verdict

(* Rule R4: every build of fct_trade leaves no matured trade LIVE, those   *)
(* that received no event in the run included.                             *)
ExpirySwept ==
    [][BuildTrade => \A g \in golden' :
         g.lifecycle_status = "LIVE" => ~Matured(g.event.sent.maturity_date, businessDate)]_vars

(* The golden record never moves a trade back to a lower version.          *)
GoldenNeverGoesBack ==
    [][\A g \in golden : \E h \in golden' :
         /\ SameTrade(g.event, h.event)
         /\ g.event.sent.trade_version <= h.event.sent.trade_version]_vars

(* "CANCELLED beats EXPIRED beats LIVE": a trade the golden record shows   *)
(* as cancelled is never shown as live or expired again.                   *)
CancelledStays ==
    [][\A g \in golden, h \in golden' :
         SameTrade(g.event, h.event) /\ g.lifecycle_status = "CANCELLED"
           => h.lifecycle_status = "CANCELLED"]_vars

(* "A rejected event must have no influence on any later decision": a      *)
(* version is refused as stale only on the authority of an accepted one.   *)
StaleAgainstAccepted ==
    \A a \in adjudicated : "RJ001" \in a.state_rule_codes =>
        \E b \in Accepted : /\ SameTrade(b.event, a.event)
                            /\ b.event.sent.trade_version > a.event.sent.trade_version

(* "Cancellation is terminal": once its marts are built, a trade with an   *)
(* accepted cancellation is CANCELLED.                                     *)
CancellationTerminal ==
    todo = {} =>
        \A a \in Accepted, g \in golden :
            SameTrade(a.event, g.event) /\ a.event.sent.action = "CANCEL"
              => g.lifecycle_status = "CANCELLED"
=============================================================================
