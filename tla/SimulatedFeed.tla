---------------------------- MODULE SimulatedFeed ----------------------------
(***************************************************************************)
(* The simulators that share a trade book, the files and manifests they    *)
(* write, and a warehouse that lands the files and judges their events as  *)
(* Adjudication does; then the reconciler, which compares the manifest of  *)
(* a batch with the verdicts on its rows.                                  *)
(*                                                                         *)
(* A batch is generated in memory while its simulator holds the lock, so   *)
(* nothing else happens between two of its events.                         *)
(***************************************************************************)
EXTENDS TradeGenerator, SequencesExt

CONSTANTS
    Sim,                    \* simulators
    HoldsWhileWriting,      \* those that release the lock after the manifest
    HoldsWhileLoading,      \* those that release it after the load
    NoSim,
    MaxBatches,             \* bound: batches begun
    MaxEvents,              \* bound: events per batch
    MaxTotal,               \* bound: events in all
    MaxResets,              \* bound: uses of reset-book
    MaxDay                  \* bound: days

ASSUME SimAssumption ==
    /\ HoldsWhileLoading \subseteq HoldsWhileWriting /\ HoldsWhileWriting \subseteq Sim
    /\ NoSim \notin Sim
    /\ {MaxBatches, MaxEvents, MaxTotal, MaxResets, MaxDay} \subseteq Nat

VARIABLES
    today,
    book,           \* trade_book.json
    lock,           \* the holder of trade_book.lock
    sim,            \* simulator |-> where it is, its batch and its generator
    batch,          \* the batches begun, in the order the book was loaded
    loads,          \* files landed so far
    builds          \* builds of the adjudicated log so far

vars == <<today, book, lock, sim, batch, loads, builds>>

Asleep == [pc |-> "idle", b |-> 0, gen |-> StartGenerator(EmptyBook(0), 0)]

(* manifest: the expectations, once the files are written; landed: its     *)
(* place in the order of batch_seq;                                        *)
(* build: the build that judged its rows, and built_on the business date.  *)
NewBatch(universe, g) ==
    [universe |-> universe, as_of |-> g.as_of, floor |-> g.floor, events |-> <<>>,
     manifest |-> <<>>, landed |-> 0, build |-> 0, built_on |-> 0, verdicts |-> <<>>]

Events == FoldLeft(LAMBDA n, b : n + Len(b.events), 0, batch)
Generating == \E s \in Sim : sim[s].pc = "generating"

Init ==
    /\ today = 0 /\ book = EmptyBook(0) /\ lock = NoSim
    /\ sim = [s \in Sim |-> Asleep]
    /\ batch = <<>> /\ loads = 0 /\ builds = 0

-----------------------------------------------------------------------------
(* TradeBook.exclusive: wait for the lock, load the book.  Days may pass   *)
(* before a batch, and before a build.                                     *)
Acquire(s) ==
    /\ ~Generating /\ sim[s].pc = "idle" /\ lock = NoSim
    /\ Len(batch) < MaxBatches /\ Events < MaxTotal
    /\ lock' = s
    /\ today' \in today..MaxDay
    /\ LET g == StartGenerator(book, today') IN
       /\ sim' = [sim EXCEPT ![s] = [pc |-> "generating", b |-> Len(batch) + 1, gen |-> g]]
       /\ batch' = Append(batch, NewBatch(book.universe, g))
    /\ UNCHANGED <<book, loads, builds>>

Generate(s) ==
    /\ sim[s].pc = "generating"
    /\ LET g == sim[s].gen IN
       /\ Len(g.events) < MaxEvents /\ Events + Len(g.events) < MaxTotal
       /\ \E d \in Drafts(g) :
            /\ d.trade_id \in Trade /\ d.trade_version \in Version
            /\ \E c \in {NoFault} \cup UNION {Corruptions(f) : f \in Faults} :
                 sim' = [sim EXCEPT ![s].gen = Emit(g, d, c)]
    /\ UNCHANGED <<today, book, lock, batch, loads, builds>>

(* What leaving TradeBook.exclusive does, for the holder s: the generator  *)
(* is forgotten but for its book, which is saved.                          *)
Release(s) == book' = sim[s].gen.book /\ lock' = NoSim

KeepLock == UNCHANGED <<book, lock>>

(* The batch is complete.  The stream command releases the lock here.      *)
FinishBatch(s) ==
    /\ sim[s].pc = "generating" /\ sim[s].gen.events # <<>>
    /\ batch' = [batch EXCEPT ![sim[s].b].events = sim[s].gen.events]
    /\ sim' = [sim EXCEPT ![s].pc = "writing", ![s].gen.events = <<>>]
    /\ IF s \in HoldsWhileWriting THEN KeepLock ELSE Release(s)
    /\ UNCHANGED <<today, loads, builds>>

(* BatchWriter.write, build_manifest and write_manifest.  A file is loaded *)
(* only once its manifest exists, so the two count as one step.            *)
WriteFiles(s) ==
    /\ sim[s].pc = "writing" /\ ~Generating
    /\ LET b == batch[sim[s].b] IN
       batch' = [batch EXCEPT ![sim[s].b].manifest = BuildManifest(b.events, b.floor)]
    /\ IF s \in HoldsWhileLoading
         THEN sim' = [sim EXCEPT ![s].pc = "loading"] /\ KeepLock
         ELSE /\ sim' = [sim EXCEPT ![s] = Asleep]
              /\ IF s \in HoldsWhileWriting THEN Release(s) ELSE KeepLock
    /\ UNCHANGED <<today, loads, builds>>

(* trade-sim load has loaded its file and leaves the lock.                 *)
FinishLoad(s) ==
    /\ sim[s].pc = "loading" /\ ~Generating /\ batch[sim[s].b].landed > 0
    /\ sim' = [sim EXCEPT ![s] = Asleep]
    /\ Release(s)
    /\ UNCHANGED <<today, batch, loads, builds>>

(* Mutant: the book is saved only when the batch succeeds.                 *)
LeaveUnsaved(s) ==
    /\ sim[s].pc \in {"writing", "loading"} /\ ~Generating
    /\ sim' = [sim EXCEPT ![s] = Asleep]
    /\ lock' = IF lock = s THEN NoSim ELSE lock
    /\ UNCHANGED <<today, book, batch, loads, builds>>

(* Mutant: the lock is left behind.                                        *)
LeaveLocked(s) ==
    /\ sim[s].pc \in {"writing", "loading"} /\ ~Generating
    /\ sim' = [sim EXCEPT ![s] = Asleep]
    /\ UNCHANGED <<today, book, lock, batch, loads, builds>>

(* Writing or loading raises.  The book is saved all the same.             *)
Fail(s) ==
    /\ sim[s].pc \in {"writing", "loading"} /\ ~Generating
    /\ sim' = [sim EXCEPT ![s] = Asleep]
    /\ IF lock = s THEN Release(s) ELSE KeepLock
    /\ UNCHANGED <<today, batch, loads, builds>>

(* trade-sim reset-book deletes the book, whoever holds its lock.          *)
ResetBook ==
    /\ ~Generating /\ book.next_sequence > 1 /\ book.universe < MaxResets
    /\ book' = EmptyBook(book.universe + 1)
    /\ UNCHANGED <<today, lock, sim, batch, loads, builds>>

-----------------------------------------------------------------------------
(* The warehouse.  A landed file is drained as a batch of its own.  An     *)
(* event without identity leaves no row that a trade's history can see.    *)
Land(i) ==
    /\ ~Generating /\ batch[i].manifest # <<>> /\ batch[i].landed = 0
    /\ batch' = [batch EXCEPT ![i].landed = loads + 1]
    /\ loads' = loads + 1
    /\ UNCHANGED <<today, book, lock, sim, builds>>

(* The field codes of every payload the simulators produce.                *)
CodesOf ==
    [d \in {NoDamage} \cup UNION {Damage[f] : f \in Faults} |-> FieldCodes(Damaged(Payload, d))]

Row(i, k) ==
    LET e == batch[i].events[k] IN
    [event_sk |-> MaxEvents * batch[i].landed + k, batch_seq |-> batch[i].landed,
     sent |-> [trade_id |-> e.draft.trade_id, trade_version |-> e.draft.trade_version,
               action |-> e.draft.action, effective_event_ts |-> e.draft.effective_event_ts,
               well_formed |-> CodesOf[e.damage] \subseteq WarnRules,
               maturity_date |-> e.draft.maturity_date]]

RowIndexes(i) == {k \in DOMAIN batch[i].events : Identified(batch[i].events[k])}

Pending == {i \in DOMAIN batch : batch[i].landed > 0 /\ batch[i].build = 0}
Built == {i \in DOMAIN batch : batch[i].build > 0}

RowsOf(B) == UNION {{Row(i, k) : k \in RowIndexes(i)} : i \in B}
AcceptedRows ==
    UNION {{Row(i, k) : k \in {n \in RowIndexes(i) : batch[i].verdicts[n].verdict = "ACCEPTED"}} :
             i \in Built}

FieldRulesFired(e, date) ==
    CodesOf[e.damage] \cup
    (IF Matured(e.draft.maturity_date, date) /\ e.draft.action # "CANCEL" THEN {"RJ003"} ELSE {})

(* One dbt build of the adjudicated log.                                   *)
Build ==
    /\ ~Generating /\ Pending # {}
    /\ builds' = builds + 1 /\ today' \in today..MaxDay
    /\ LET valid == {r \in RowsOf(Pending) : IsFieldValid(r, today')}
           decide(i, k) == [verdict |-> VerdictOn(valid, AcceptedRows, Row(i, k)),
                            codes |-> FieldRulesFired(batch[i].events[k], today')
                                        \cup StateRulesFired(valid, AcceptedRows, Row(i, k))] IN
       batch' = [i \in DOMAIN batch |->
                   IF i \in Pending
                     THEN [batch[i] EXCEPT
                             !.build = builds + 1, !.built_on = today',
                             !.verdicts = [k \in DOMAIN batch[i].events |->
                                IF k \in RowIndexes(i) THEN decide(i, k)
                                ELSE [verdict |-> "none", codes |-> {}]]]
                     ELSE batch[i]]
    /\ UNCHANGED <<book, lock, sim, loads>>

Next ==
    \/ \E s \in Sim : \/ Acquire(s) \/ Generate(s) \/ FinishBatch(s) \/ WriteFiles(s)
                      \/ FinishLoad(s) \/ Fail(s)
    \/ ResetBook \/ Build
    \/ \E i \in DOMAIN batch : Land(i)

Spec == Init /\ [][Next]_vars

-----------------------------------------------------------------------------
(* The reconciler, on the batch i.  Rows come back in any order.           *)
KeyOf(e) == <<e.draft.trade_id, e.draft.trade_version>>

Keys(i) == {KeyOf(batch[i].events[k]) : k \in RowIndexes(i) \cap DOMAIN batch[i].manifest}

IndexesOf(i, key) == {k \in RowIndexes(i) : KeyOf(batch[i].events[k]) = key}

(* Mutant: the first row left answers.                                     *)
ClaimFirst(unclaimed, e) == 1

(* _claim_row, for a non-empty pool: verdict and codes, verdict, any.      *)
ClaimRow(unclaimed, e) ==
    LET same == {n \in DOMAIN unclaimed : unclaimed[n].verdict = e.expected_verdict}
        exact == {n \in same : e.expected_rule_codes \subseteq unclaimed[n].codes}
        first(S) == CHOOSE n \in S : \A m \in S : n <= m IN
    IF exact # {} THEN first(exact) ELSE IF same # {} THEN first(same) ELSE 1

(* reconcile, one expectation: the row it claims leaves the pool.          *)
Claim(found, e) ==
    IF found.unclaimed = <<>> THEN [found EXCEPT !.missing = @ + 1]
    ELSE LET n == ClaimRow(found.unclaimed, e)
             row == found.unclaimed[n] IN
         [unclaimed |-> RemoveAt(found.unclaimed, n), missing |-> found.missing,
          verdict_mismatches |-> found.verdict_mismatches
             + IF row.verdict = e.expected_verdict THEN 0 ELSE 1,
          rule_code_mismatches |-> found.rule_code_mismatches
             + IF e.expected_rule_codes \subseteq row.codes THEN 0 ELSE 1]

(* reconcile, for one trade and version: the expectations mine, in the     *)
(* order of the manifest, each claim one of the rows.                      *)
Compare(manifest, mine, rows) ==
    LET after[n \in 0 .. Len(manifest)] ==
            IF n = 0 THEN [unclaimed |-> rows, missing |-> 0, verdict_mismatches |-> 0,
                           rule_code_mismatches |-> 0]
            ELSE IF n \in mine THEN Claim(after[n - 1], manifest[n])
            ELSE after[n - 1] IN
    after[Len(manifest)]

(* What it may find for each key of a built batch, in whatever order its   *)
(* rows are fetched.                                                       *)
Results(i) ==
    LET orders(S) == Bijection(1 .. Cardinality(S), S)
        rows(order) == [n \in DOMAIN order |-> batch[i].verdicts[order[n]]] IN
    UNION {LET mine == IndexesOf(i, key) IN
           {Compare(batch[i].manifest, mine, rows(order)) : order \in orders(mine)} :
             key \in Keys(i)}

-----------------------------------------------------------------------------
TypeOK ==
    /\ today \in 0..MaxDay /\ lock \in Sim \cup {NoSim}
    /\ \A s \in Sim : lock = s => sim[s].pc # "idle"
    /\ DOMAIN book.trades \subseteq Trade /\ book.next_sequence \in Nat
    /\ \A s \in Sim : /\ sim[s].pc \in {"idle", "generating", "writing", "loading"}
                      /\ sim[s].b \in 0..Len(batch)
    /\ \A i \in DOMAIN batch :
         batch[i].landed \in 0..loads /\ batch[i].build \in 0..builds

(* A batch is in step when it and all batches generated before it were     *)
(* landed and built in the order they were generated, each in a build of   *)
(* its own, with no book reset in between.                                 *)
InStep(i) ==
    /\ \A j \in 1..i : batch[j].universe = 0 /\ batch[j].build > 0
    /\ \A j, k \in 1..i : j < k => batch[j].build < batch[k].build
    /\ \A k \in DOMAIN batch : k > i /\ batch[k].build > 0 => batch[k].build > batch[i].build

NothingMatured(i) ==
    \A j \in 1..i : \A k \in DOMAIN batch[j].events :
        ~Matured(batch[j].events[k].draft.maturity_date, batch[j].built_on)

Foretold(i) ==
    \A k \in RowIndexes(i) \cap DOMAIN batch[i].manifest :
        /\ batch[i].verdicts[k].verdict = batch[i].manifest[k].expected_verdict
        /\ batch[i].manifest[k].expected_rule_codes \subseteq batch[i].verdicts[k].codes

(* The manifest is ground truth: for a batch in step of which nothing has  *)
(* matured, every event gets the verdict its manifest promises and at      *)
(* least the codes, however resends, late arrivals, faults and             *)
(* cancellations are mixed (_settle_version_arbitration against the model  *)
(* int_trade_event_adjudicated).                                           *)
ManifestForetells ==
    \A i \in DOMAIN batch : InStep(i) /\ NothingMatured(i) => Foretold(i)

(* The book remembers what the warehouse knows: when all that was generated*)
(* is in step, a trade's version and cancellation in the book are those    *)
(* that were accepted.                                                     *)
BookFollowsWarehouse ==
    (\A i \in DOMAIN batch : InStep(i) /\ NothingMatured(i))
      /\ lock = NoSim /\ book.universe = 0 =>
    \A t \in Trade :
        LET accepted == {r.sent : r \in {q \in AcceptedRows : q.sent.trade_id = t}} IN
        /\ \A a \in accepted : a.trade_version <= Known(book, t)
        /\ t \in DOMAIN book.trades =>
             /\ \E a \in accepted : a.trade_version = Known(book, t)
             /\ book.trades[t].is_cancelled <=> \E a \in accepted : a.action = "CANCEL"

(* Two events of one universe never take the same version of a trade, and  *)
(* no identifier is allocated twice, though several simulators share the   *)
(* book and their batches fail (TradeBook.exclusive).                      *)
MintedOnce ==
    \A i, j \in DOMAIN batch : \A k \in DOMAIN batch[i].events, n \in DOMAIN batch[j].events :
        LET e == batch[i].events[k]
            f == batch[j].events[n] IN
        /\ <<i, k>> # <<j, n>> /\ batch[i].universe = batch[j].universe
        /\ e.draft.trade_id = f.draft.trade_id
        => /\ ~(e.draft.action = "NEW" /\ f.draft.action = "NEW")
           /\ TakesVersion(e.draft, e.injected_fault) /\ TakesVersion(f.draft, f.injected_fault)
                => e.draft.trade_version # f.draft.trade_version

(* Business time runs forward: an event of a trade is stamped after all    *)
(* events of the trade emitted before it, in its batch or an earlier one,  *)
(* whether they were meant to be accepted or not (last_event_ts).          *)
BusinessTimeRuns ==
    \A i, j \in DOMAIN batch : \A k \in DOMAIN batch[i].events, n \in DOMAIN batch[j].events :
        LET e == batch[i].events[k].draft
            f == batch[j].events[n].draft IN
        /\ i < j \/ (i = j /\ k < n)
        /\ batch[i].universe = batch[j].universe /\ e.trade_id = f.trade_id
        => e.effective_event_ts < f.effective_event_ts

(* The reconciler finds a batch in step in order: in whatever sequence the *)
(* rows of a trade and version come back, no expectation is left without a *)
(* row and none is given a row of another verdict (_claim_row).            *)
ReconcileFindsNoWrongVerdict ==
    \A i \in DOMAIN batch : InStep(i) /\ NothingMatured(i) =>
        \A r \in Results(i) : r.verdict_mismatches = 0 /\ r.missing = 0
=============================================================================
