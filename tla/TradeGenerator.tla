--------------------------- MODULE TradeGenerator ---------------------------
(***************************************************************************)
(* What the simulator does with its trade book while it makes a batch, and *)
(* the verdicts it promises for the batch.  Everything here happens in     *)
(* memory; SimulatedFeed has the files, the lock and the processes.        *)
(*                                                                         *)
(* Of the clock only the order of a trade's events matters: business time  *)
(* counts the events emitted for the trade.                                *)
(***************************************************************************)
EXTENDS Adjudication, FaultCatalogue, Sequences

CONSTANTS
    Faults,         \* the faults drawn, a subset of Fault
    Payload,        \* the payload of an event without fault
    Tenors          \* days from trade date to maturity

ASSUME GeneratorAssumption ==
    Faults \subseteq Fault /\ Payload \in CleanPayloads /\ Tenors \subseteq Nat

(* trades maps the identifiers booked to their entries.  universe is       *)
(* history: the number of times a book was started afresh.                 *)
EmptyBook(n) == [next_sequence |-> 1, trades |-> <<>>, universe |-> n]

Known(book, t) == IF t \in DOMAIN book.trades THEN book.trades[t].trade_version ELSE 0

Amendable(book) == {t \in DOMAIN book.trades : ~book.trades[t].is_cancelled}

(* A generator at work: the book, the events so far, and the pools that    *)
(* trades for amendments and resends are drawn from.                       *)
StartGenerator(book, as_of) ==
    [book |-> book, as_of |-> as_of, events |-> <<>>,
     floor |-> [t \in DOMAIN book.trades |-> book.trades[t].trade_version],
     amendable |-> Amendable(book),
     resendable |-> {t \in Amendable(book) : book.trades[t].trade_version > 1},
     replaceable |-> {}]

-----------------------------------------------------------------------------
(* Drafts: the event before a fault is injected.  mints says that it takes *)
(* a version of its own (mutates_book).                                    *)
BuildNew(g) ==
    {[trade_id |-> g.book.next_sequence, trade_version |-> 1, action |-> "NEW",
      effective_event_ts |-> 1, maturity_date |-> g.as_of + d, mints |-> TRUE] : d \in Tenors}

EventTimestamp(g, t) == g.book.trades[t].last_event_ts + 1

Follow(g, t, version, action, mints) ==
    [trade_id |-> t, trade_version |-> version, action |-> action,
     effective_event_ts |-> EventTimestamp(g, t),
     maturity_date |-> g.book.trades[t].maturity_date, mints |-> mints]

BuildAmendment(g) ==
    {Follow(g, t, Known(g.book, t) + 1, a, TRUE) : t \in g.amendable, a \in {"AMEND", "CANCEL"}}

BuildReplacement(g) ==
    {Follow(g, t, Known(g.book, t), "AMEND", FALSE) : t \in g.replaceable}

BuildStale(g) ==
    {Follow(g, t, IF Known(g.book, t) > back THEN Known(g.book, t) - back ELSE 1, "AMEND", FALSE) :
        t \in g.resendable, back \in {1, 2}}

Drafts(g) == BuildNew(g) \cup BuildAmendment(g) \cup BuildReplacement(g) \cup BuildStale(g)

(* Mutant: a fault leaves the version free only if it destroys identity.   *)
TakesVersionUnlessLost(draft, fault) ==
    draft.mints /\ fault \notin IDENTITY_DESTROYING_FAULTS

(* A rejected event must not advance the book; a flagged one does.         *)
TakesVersion(draft, fault) ==
    draft.mints /\ (fault = "none" \/ fault \in WARN_ONLY_FAULTS)

(* The entry of a trade once the event has been booked.                    *)
Booked(draft) ==
    [trade_version |-> draft.trade_version, is_cancelled |-> draft.action = "CANCEL",
     last_event_ts |-> draft.effective_event_ts, maturity_date |-> draft.maturity_date]

WithEntry(trades, t, entry) ==
    [u \in DOMAIN trades \cup {t} |-> IF u = t THEN entry ELSE trades[u]]

(* Mutant: business time stands still for events that take no version.     *)
OnlyVersionsAdvanceTime(book, draft, fault) ==
    IF TakesVersion(draft, fault)
      THEN WithEntry(book.trades, draft.trade_id, Booked(draft)) ELSE book.trades

(* _apply_to_book, _apply_replacement and the advance of last_event_ts.    *)
TradesAfter(book, draft, fault) ==
    IF TakesVersion(draft, fault)
      THEN WithEntry(book.trades, draft.trade_id, Booked(draft))
      ELSE [u \in DOMAIN book.trades |->
              IF u = draft.trade_id
                THEN [book.trades[u] EXCEPT !.last_event_ts = draft.effective_event_ts]
                ELSE book.trades[u]]

BookAfter(book, draft, fault) ==
    [book EXCEPT !.next_sequence = IF draft.action = "NEW" THEN @ + 1 ELSE @,
                 !.trades = TradesAfter(book, draft, fault)]

(* corruption is a member of Corruptions, or NoFault.                      *)
NoDamage == [f \in {} |-> "null"]

NoFault == [damage |-> NoDamage, injected_fault |-> "none", expected_rule_codes |-> {}]

(* The event as emitted, with the verdict expected of it so far.           *)
GeneratedEvent(draft, corruption, known) ==
    LET fault == corruption.injected_fault
        late == draft.trade_version < known /\ fault \notin IDENTITY_DESTROYING_FAULTS
        harmless == fault = "none" \/ fault \in WARN_ONLY_FAULTS IN
    [draft |-> draft, damage |-> corruption.damage, injected_fault |-> fault,
     field_valid |-> harmless,
     expected_verdict |-> IF harmless /\ ~late THEN "ACCEPTED" ELSE "REJECTED",
     expected_rule_codes |-> IF late THEN {"RJ001"} ELSE corruption.expected_rule_codes]

(* generate, one event.  The pools gain a trade when it is booked and when *)
(* it gets a second version, and lose it when it is cancelled.             *)
Emit(g, draft, corruption) ==
    LET t == draft.trade_id
        fault == corruption.injected_fault
        book == BookAfter(g.book, draft, fault)
        takes(action) == TakesVersion(draft, fault) /\ draft.action = action
        pool(S, enters) == (IF enters THEN S \cup {t} ELSE S)
                              \ (IF takes("CANCEL") THEN {t} ELSE {}) IN
    [g EXCEPT !.book = book,
              !.events = Append(@, GeneratedEvent(draft, corruption, Known(book, t))),
              !.amendable = pool(@, takes("NEW")),
              !.replaceable = pool(@, takes("NEW")),
              !.resendable = pool(@, takes("AMEND") /\ draft.trade_version = 2)]

-----------------------------------------------------------------------------
(* _settle_version_arbitration, over the events of one batch.              *)
Identified(e) == e.injected_fault \notin IDENTITY_DESTROYING_FAULTS

Contends(events, i) == Identified(events[i]) /\ events[i].field_valid

RaceLost(events, i) ==
    /\ Contends(events, i)
    /\ \E j \in DOMAIN events :
        /\ Contends(events, j)
        /\ events[j].draft.trade_id = events[i].draft.trade_id
        /\ events[j].draft.trade_version = events[i].draft.trade_version
        /\ \/ events[j].draft.effective_event_ts > events[i].draft.effective_event_ts
           \/ /\ events[j].draft.effective_event_ts = events[i].draft.effective_event_ts
              /\ j > i

(* Is a version above that of event i known when i arrives?                *)
Overtaken(events, floor, i) ==
    LET t == events[i].draft.trade_id
        v == events[i].draft.trade_version IN
    \/ t \in DOMAIN floor /\ v < floor[t]
    \/ \E j \in DOMAIN events :
        /\ Contends(events, j) /\ ~RaceLost(events, j)
        /\ events[j].draft.trade_id = t /\ v < events[j].draft.trade_version
        /\ events[j].draft.effective_event_ts < events[i].draft.effective_event_ts

Unsettled(events, floor, i) == events[i]    \* Mutant: expectations as emitted

Settled(events, floor, i) ==
    LET e == events[i] IN
    IF RaceLost(events, i)
      THEN [e EXCEPT !.expected_verdict = "SUPERSEDED", !.expected_rule_codes = {"RJ009"}]
    ELSE IF Identified(e) /\ "RJ001" \in e.expected_rule_codes /\ ~Overtaken(events, floor, i)
      THEN [e EXCEPT !.expected_rule_codes = @ \ {"RJ001"},
                     !.expected_verdict = IF e.field_valid /\ e.expected_rule_codes = {"RJ001"}
                                            THEN "ACCEPTED" ELSE @]
    ELSE e

(* One ExpectedVerdict for each event, in the order of the events.         *)
BuildManifest(events, floor) ==
    [i \in DOMAIN events |->
        LET e == Settled(events, floor, i) IN
        [expected_verdict |-> e.expected_verdict, expected_rule_codes |-> e.expected_rule_codes]]
=============================================================================
