------------------------- MODULE SimulatedFeedProofs -------------------------
(***************************************************************************)
(* What holds of the simulators' feed for every number of simulators,      *)
(* batches, events, resets and days, whatever faults, tenors and payload   *)
(* are drawn.  First the facts about one event that this rests on: what a  *)
(* generator does to its book and its batch.  A log is what was generated  *)
(* so far, batch by batch in the order the book was loaded, with the       *)
(* universe and the floor of each.                                         *)
(***************************************************************************)
EXTENDS MCSimulatedFeed, SequenceTheorems, TLAPS

-----------------------------------------------------------------------------
(* THE GENERATOR'S BOOK                                                  *)

Identifier == Trade \cap Nat

Entry == [trade_version : Nat \ {0}, is_cancelled : BOOLEAN, last_event_ts : Nat,
          maturity_date : Nat]

Trades == UNION {[T -> Entry] : T \in SUBSET Identifier}
Book == [next_sequence : Nat, trades : Trades, universe : Nat]

(* Identifiers are allocated in sequence.                                  *)
Allocated(held) == \A t \in DOMAIN held.trades : t < held.next_sequence

Draft == [trade_id : Identifier, trade_version : Nat \ {0}, action : {"NEW", "AMEND", "CANCEL"},
          effective_event_ts : Nat, maturity_date : Nat, mints : BOOLEAN]

Drawn == {NoFault} \cup UNION {Corruptions(f) : f \in Faults}

Emitted == {GeneratedEvent(d, c, known) : d \in Draft, c \in Drawn, known \in Nat}

Floor == UNION {[T -> Nat] : T \in SUBSET Identifier}

Generator == [book : Book, as_of : Nat, events : Seq(Emitted), floor : Floor,
              amendable : SUBSET Identifier, resendable : SUBSET Identifier,
              replaceable : SUBSET Identifier]

(* A draft that the book allows: a new identifier, or the next version, a  *)
(* version known already or an older one of a trade that is not cancelled. *)
Allowed(held, d) ==
    \/ /\ d.trade_id = held.next_sequence /\ d.trade_version = 1
       /\ d.action = "NEW" /\ d.mints
    \/ /\ d.trade_id \in Amendable(held) /\ d.action \in {"AMEND", "CANCEL"}
       /\ d.effective_event_ts = held.trades[d.trade_id].last_event_ts + 1
       /\ IF d.mints THEN d.trade_version = Known(held, d.trade_id) + 1
          ELSE d.action = "AMEND" /\ d.trade_version <= Known(held, d.trade_id)

(* A generator draws from its book, which is not behind the floor.         *)
SoundGenerator(g) ==
    /\ Allocated(g.book)
    /\ g.amendable \cup g.resendable \cup g.replaceable \subseteq Amendable(g.book)
    /\ \A t \in DOMAIN g.floor : t \in DOMAIN g.book.trades /\ g.floor[t] <= Known(g.book, t)

-----------------------------------------------------------------------------
(* THE HISTORY OF A BOOK                                                   *)

Log == Seq([universe : Nat, floor : Floor, events : Seq(Emitted)])

(* No later event of batch i that may be accepted has the version of k.    *)
LastOfVersion(log, i, k) ==
    \A n \in DOMAIN log[i].events :
        /\ k < n /\ log[i].events[n].field_valid
        /\ log[i].events[n].draft.trade_id = log[i].events[k].draft.trade_id
        => log[i].events[n].draft.trade_version # log[i].events[k].draft.trade_version

UniversesPassed(held, log) == \A i \in DOMAIN log : log[i].universe <= held.universe

(* What the book says of an event of its universe.                         *)
InBook(held, e) ==
    LET t == e.draft.trade_id IN
    /\ t < held.next_sequence
    /\ t \in DOMAIN held.trades =>
         e.draft.effective_event_ts <= held.trades[t].last_event_ts
    /\ e.field_valid =>
         /\ t \in DOMAIN held.trades
         /\ e.draft.trade_version <= held.trades[t].trade_version
         /\ e.draft.action = "CANCEL" => held.trades[t].is_cancelled

Recorded(held, log) ==
    \A i \in DOMAIN log : log[i].universe = held.universe =>
        \A k \in DOMAIN log[i].events : InBook(held, log[i].events[k])

(* The event k of batch i may be accepted, and has version v of trade t.   *)
Carries(log, i, k, t, v) ==
    /\ log[i].events[k].field_valid
    /\ log[i].events[k].draft.trade_id = t /\ log[i].events[k].draft.trade_version = v
    /\ LastOfVersion(log, i, k)

(* The book knows nothing that was not generated.                          *)
VersionsWitnessed(held, log) ==
    \A t \in DOMAIN held.trades :
        \E i \in DOMAIN log : \E k \in DOMAIN log[i].events :
            log[i].universe = held.universe /\ Carries(log, i, k, t, held.trades[t].trade_version)

Cancels(e, t, v) ==
    /\ e.field_valid /\ e.draft.action = "CANCEL"
    /\ e.draft.trade_id = t /\ e.draft.trade_version = v

CancelsWitnessed(held, log) ==
    \A t \in DOMAIN held.trades : held.trades[t].is_cancelled =>
        \E i \in DOMAIN log : \E k \in DOMAIN log[i].events :
            /\ log[i].universe = held.universe
            /\ Cancels(log[i].events[k], t, held.trades[t].trade_version)

(* Two events of one trade in one universe do not clash.                   *)
Distinct(e, f) ==
    /\ ~(e.draft.action = "NEW" /\ f.draft.action = "NEW")
    /\ TakesVersion(e.draft, e.injected_fault) /\ TakesVersion(f.draft, f.injected_fault)
         => e.draft.trade_version # f.draft.trade_version

(* The later of two events of one trade has the later time, and comes after*)
(* no cancellation that was booked.                                        *)
Follows(f, e) ==
    /\ e.draft.effective_event_ts < f.draft.effective_event_ts
    /\ ~(e.field_valid /\ e.draft.action = "CANCEL")

Ordered(log) ==
    \A i, j \in DOMAIN log : \A k \in DOMAIN log[i].events, n \in DOMAIN log[j].events :
        LET e == log[i].events[k]
            f == log[j].events[n] IN
        /\ i < j \/ (i = j /\ k < n)
        /\ log[i].universe = log[j].universe /\ e.draft.trade_id = f.draft.trade_id
        => Distinct(e, f) /\ Follows(f, e)

(* The floor of a batch is what the batches before it reached.             *)
FloorAbove(log) ==
    \A i, j \in DOMAIN log : \A k \in DOMAIN log[i].events :
        LET e == log[i].events[k] IN
        i < j /\ log[i].universe = log[j].universe /\ e.field_valid
        => /\ e.draft.trade_id \in DOMAIN log[j].floor
           /\ e.draft.trade_version <= log[j].floor[e.draft.trade_id]

FloorReached(log) ==
    \A j \in DOMAIN log : \A t \in DOMAIN log[j].floor :
        \E i \in DOMAIN log : \E k \in DOMAIN log[i].events :
            /\ i < j /\ log[i].universe = log[j].universe
            /\ Carries(log, i, k, t, log[j].floor[t])

(* An event that may be accepted and is not marked late has the highest    *)
(* version known.                                                          *)
LateMarked(log) ==
    \A i \in DOMAIN log : \A n \in DOMAIN log[i].events :
        LET f == log[i].events[n]
            t == f.draft.trade_id IN
        f.field_valid /\ "RJ001" \notin f.expected_rule_codes
        => /\ t \in DOMAIN log[i].floor => log[i].floor[t] <= f.draft.trade_version
           /\ \A k \in DOMAIN log[i].events :
                k < n /\ log[i].events[k].field_valid /\ log[i].events[k].draft.trade_id = t
                => log[i].events[k].draft.trade_version <= f.draft.trade_version

History(held, log) ==
    /\ UniversesPassed(held, log) /\ Recorded(held, log)
    /\ VersionsWitnessed(held, log) /\ CancelsWitnessed(held, log)
    /\ Ordered(log) /\ FloorAbove(log) /\ FloorReached(log) /\ LateMarked(log)

-----------------------------------------------------------------------------
(* ONE EVENT                                                               *)

Harmless(fault) == fault = "none" \/ fault \in WARN_ONLY_FAULTS

LEMMA EventFields ==
    ASSUME NEW d \in Draft, NEW c \in Drawn, NEW known \in Nat,
           NEW e, e = GeneratedEvent(d, c, known)
    PROVE  /\ e.draft = d /\ e.damage = c.damage /\ e.injected_fault = c.injected_fault
           /\ e.field_valid <=> Harmless(c.injected_fault)
           /\ e.field_valid /\ "RJ001" \notin e.expected_rule_codes => known <= d.trade_version
<1>1. c.injected_fault \notin IDENTITY_DESTROYING_FAULTS \/ ~Harmless(c.injected_fault)
  BY DEF Harmless, WARN_ONLY_FAULTS, IDENTITY_DESTROYING_FAULTS
<1>2. d.trade_version \in Nat
  BY DEF Draft
<1>3. e.draft = d /\ e.damage = c.damage /\ e.injected_fault = c.injected_fault
      /\ (e.field_valid <=> Harmless(c.injected_fault))
  BY DEF GeneratedEvent, Harmless
<1>4. ASSUME e.field_valid, d.trade_version < known
      PROVE  e.expected_rule_codes = {"RJ001"}
  BY <1>1, <1>3, <1>4 DEF GeneratedEvent
<1>. QED
  BY <1>2, <1>3, <1>4

LEMMA EventType ==
    ASSUME NEW e \in Emitted
    PROVE  /\ e.draft \in Draft /\ e.field_valid \in BOOLEAN
           /\ TakesVersion(e.draft, e.injected_fault) <=> e.draft.mints /\ e.field_valid
           /\ e.field_valid => Identified(e)
<1>1. PICK d \in Draft, c \in Drawn, known \in Nat : e = GeneratedEvent(d, c, known)
  BY DEF Emitted
<1>2. e.draft = d /\ e.injected_fault = c.injected_fault
      /\ (e.field_valid <=> Harmless(c.injected_fault))
  BY <1>1, EventFields
<1>3. e.field_valid \in BOOLEAN
  BY <1>1 DEF GeneratedEvent
<1>. QED
  BY <1>2, <1>3 DEF TakesVersion, Harmless, Identified, WARN_ONLY_FAULTS,
                    IDENTITY_DESTROYING_FAULTS

LEMMA EntriesOf ==
    ASSUME NEW trades
    PROVE  trades \in Trades <=>
             /\ trades = [t \in DOMAIN trades |-> trades[t]]
             /\ DOMAIN trades \subseteq Identifier
             /\ \A t \in DOMAIN trades : trades[t] \in Entry
BY DEF Trades

LEMMA BookedType ==
    ASSUME NEW d \in Draft
    PROVE  /\ Booked(d) \in Entry
           /\ Booked(d).trade_version = d.trade_version
           /\ Booked(d).is_cancelled <=> d.action = "CANCEL"
           /\ Booked(d).last_event_ts = d.effective_event_ts
BY DEF Draft, Booked, Entry

(* The book after an event.                                                *)
LEMMA BookStep ==
    ASSUME NEW held \in Book, Allocated(held), NEW d \in Draft, NEW fault,
           Allowed(held, d), NEW next, next = BookAfter(held, d, fault)
    PROVE  /\ next \in Book /\ Allocated(next)
           /\ next.universe = held.universe /\ held.next_sequence <= next.next_sequence
           /\ d.trade_id < next.next_sequence
           /\ DOMAIN held.trades \subseteq DOMAIN next.trades
           /\ DOMAIN next.trades \subseteq DOMAIN held.trades \cup {d.trade_id}
           /\ \A t \in DOMAIN held.trades :
                 t # d.trade_id => next.trades[t] = held.trades[t]
           /\ d.trade_id \in DOMAIN next.trades =>
                 next.trades[d.trade_id].last_event_ts = d.effective_event_ts
           /\ IF TakesVersion(d, fault)
                THEN /\ d.trade_id \in DOMAIN next.trades
                     /\ next.trades[d.trade_id].trade_version = d.trade_version
                     /\ next.trades[d.trade_id].is_cancelled <=> d.action = "CANCEL"
                ELSE /\ DOMAIN next.trades = DOMAIN held.trades
                     /\ \A t \in DOMAIN held.trades :
                          /\ next.trades[t].trade_version = held.trades[t].trade_version
                          /\ next.trades[t].is_cancelled = held.trades[t].is_cancelled
<1>. DEFINE t == d.trade_id
<1>1. t \in Identifier /\ d.effective_event_ts \in Nat /\ d.trade_version \in Nat \ {0}
  BY DEF Draft
<1>2. /\ held.next_sequence \in Nat /\ held.universe \in Nat /\ held.trades \in Trades
      /\ held.trades = [u \in DOMAIN held.trades |-> held.trades[u]]
      /\ DOMAIN held.trades \subseteq Identifier
      /\ \A u \in DOMAIN held.trades : held.trades[u] \in Entry
  BY EntriesOf DEF Book
<1>3. /\ next.trades = TradesAfter(held, d, fault) /\ next.universe = held.universe
      /\ next.next_sequence = IF d.action = "NEW" THEN held.next_sequence + 1
                              ELSE held.next_sequence
      /\ next = [next_sequence |-> next.next_sequence, trades |-> next.trades,
                 universe |-> next.universe]
  BY DEF BookAfter, Book
<1>4. next.next_sequence \in Nat /\ held.next_sequence <= next.next_sequence
  BY <1>2, <1>3
<1>5. t < next.next_sequence
  <2>1. CASE d.action = "NEW"
    <3>1. t = held.next_sequence
      BY <2>1 DEF Allowed
    <3>. QED
      BY <1>2, <1>3, <2>1, <3>1
  <2>2. CASE d.action # "NEW"
    <3>1. t \in DOMAIN held.trades
      BY <2>2 DEF Allowed, Amendable
    <3>. QED
      BY <1>2, <1>3, <2>2, <3>1 DEF Allocated
  <2>. QED
    BY <2>1, <2>2
<1>6. CASE TakesVersion(d, fault)
  <2>1. next.trades = [u \in DOMAIN held.trades \cup {t} |->
                          IF u = t THEN Booked(d) ELSE held.trades[u]]
    BY <1>3, <1>6 DEF TradesAfter, WithEntry
  <2>2. DOMAIN next.trades = DOMAIN held.trades \cup {t} /\ next.trades[t] = Booked(d)
        /\ \A u \in DOMAIN held.trades : u # t => next.trades[u] = held.trades[u]
    BY <2>1
  <2>3. next.trades \in Trades
    BY <1>1, <1>2, <2>1, <2>2, BookedType, EntriesOf
  <2>4. next \in Book
    BY <1>2, <1>3, <1>4, <2>3 DEF Book
  <2>5. Allocated(next)
    BY <1>1, <1>2, <1>4, <1>5, <2>2 DEF Allocated, Identifier
  <2>. QED
    BY <1>3, <1>4, <1>5, <1>6, <2>2, <2>4, <2>5, BookedType
<1>7. CASE ~TakesVersion(d, fault)
  <2>1. next.trades = [u \in DOMAIN held.trades |->
                          IF u = t THEN [held.trades[u] EXCEPT !.last_event_ts = d.effective_event_ts]
                          ELSE held.trades[u]]
    BY <1>3, <1>7 DEF TradesAfter
  <2>2. DOMAIN next.trades = DOMAIN held.trades
        /\ \A u \in DOMAIN held.trades : u # t => next.trades[u] = held.trades[u]
    BY <2>1
  <2>3. ASSUME t \in DOMAIN held.trades
        PROVE  /\ next.trades[t] \in Entry
               /\ next.trades[t].trade_version = held.trades[t].trade_version
               /\ next.trades[t].is_cancelled = held.trades[t].is_cancelled
               /\ next.trades[t].last_event_ts = d.effective_event_ts
    BY <1>1, <1>2, <2>1, <2>3 DEF Entry
  <2>4. next.trades \in Trades
    BY <1>2, <2>1, <2>2, <2>3, EntriesOf
  <2>5. next \in Book
    BY <1>2, <1>3, <1>4, <2>4 DEF Book
  <2>6. Allocated(next)
    BY <1>2, <1>4, <2>2 DEF Allocated, Identifier
  <2>. QED
    BY <1>3, <1>4, <1>5, <1>7, <2>2, <2>3, <2>5, <2>6
<1>. QED
  BY <1>6, <1>7

LEMMA FollowAllowed ==
    ASSUME NEW g \in Generator, NEW t \in Amendable(g.book), NEW v \in Nat \ {0},
           NEW a \in {"AMEND", "CANCEL"}
    PROVE  /\ v = Known(g.book, t) + 1 =>
                /\ Follow(g, t, v, a, TRUE) \in Draft
                /\ Allowed(g.book, Follow(g, t, v, a, TRUE))
           /\ v <= Known(g.book, t) =>
                /\ Follow(g, t, v, "AMEND", FALSE) \in Draft
                /\ Allowed(g.book, Follow(g, t, v, "AMEND", FALSE))
<1>1. t \in Identifier /\ g.book.trades[t] \in Entry
  BY EntriesOf DEF Generator, Book, Amendable
<1>2. EventTimestamp(g, t) \in Nat /\ g.book.trades[t].maturity_date \in Nat
  BY <1>1 DEF EventTimestamp, Entry
<1>3. /\ Follow(g, t, v, a, TRUE) \in Draft
      /\ Follow(g, t, v, "AMEND", FALSE) \in Draft
  BY <1>1, <1>2 DEF Follow, Draft
<1>4. v = Known(g.book, t) + 1 => Allowed(g.book, Follow(g, t, v, a, TRUE))
  BY DEF Follow, Allowed, EventTimestamp
<1>5. v <= Known(g.book, t) => Allowed(g.book, Follow(g, t, v, "AMEND", FALSE))
  BY DEF Follow, Allowed, EventTimestamp
<1>. QED
  BY <1>3, <1>4, <1>5

(* Every draft is one that the book allows.                                *)
LEMMA DraftsAllowed ==
    ASSUME NEW g \in Generator, SoundGenerator(g), NEW d \in Drafts(g), d.trade_id \in Trade
    PROVE  d \in Draft /\ Allowed(g.book, d)
<1>1. g.book.next_sequence \in Nat /\ g.as_of \in Nat
  BY DEF Generator, Book
<1>2. CASE d \in BuildNew(g)
  <2>1. PICK days \in Tenors :
          d = [trade_id |-> g.book.next_sequence, trade_version |-> 1, action |-> "NEW",
               effective_event_ts |-> 1, maturity_date |-> g.as_of + days, mints |-> TRUE]
    BY <1>2 DEF BuildNew
  <2>2. days \in Nat
    BY GeneratorAssumption
  <2>. QED
    BY <1>1, <2>1, <2>2 DEF Draft, Allowed, Identifier
<1>3. ASSUME NEW t \in Amendable(g.book)
      PROVE  Known(g.book, t) \in Nat \ {0}
  BY EntriesOf DEF Amendable, Known, Entry, Generator, Book
<1>4. g.amendable \subseteq Amendable(g.book) /\ g.replaceable \subseteq Amendable(g.book)
      /\ g.resendable \subseteq Amendable(g.book)
  BY DEF SoundGenerator
<1>5. CASE d \in BuildAmendment(g)
  <2>1. PICK t \in g.amendable, a \in {"AMEND", "CANCEL"} :
          d = Follow(g, t, Known(g.book, t) + 1, a, TRUE)
    BY <1>5 DEF BuildAmendment, Follow
  <2>. DEFINE v == Known(g.book, t) + 1
  <2>2. t \in Amendable(g.book) /\ v \in Nat \ {0} /\ v = Known(g.book, t) + 1
    BY <1>3, <1>4
  <2>3. d = Follow(g, t, v, a, TRUE)
    BY <2>1
  <2>. HIDE DEF v
  <2>. QED
    BY <2>2, <2>3, FollowAllowed
<1>6. CASE d \in BuildReplacement(g)
  <2>1. PICK t \in g.replaceable : d = Follow(g, t, Known(g.book, t), "AMEND", FALSE)
    BY <1>6 DEF BuildReplacement, Follow
  <2>2. t \in Amendable(g.book) /\ Known(g.book, t) \in Nat \ {0}
        /\ Known(g.book, t) <= Known(g.book, t)
    BY <1>3, <1>4
  <2>. QED
    BY <2>1, <2>2, FollowAllowed
<1>7. CASE d \in BuildStale(g)
  <2>. DEFINE Older(t, back) == IF Known(g.book, t) > back THEN Known(g.book, t) - back ELSE 1
  <2>1. PICK t \in g.resendable, back \in {1, 2} : d = Follow(g, t, Older(t, back), "AMEND", FALSE)
    BY <1>7 DEF BuildStale, Follow
  <2>2. t \in Amendable(g.book) /\ Known(g.book, t) \in Nat \ {0}
    BY <1>3, <1>4
  <2>3. Older(t, back) \in Nat \ {0} /\ Older(t, back) <= Known(g.book, t)
    BY <2>2
  <2>. HIDE DEF Older
  <2>. QED
    BY <2>1, <2>2, <2>3, FollowAllowed
<1>. QED
  BY <1>2, <1>5, <1>6, <1>7 DEF Drafts

(* What an event changes of its generator.                                 *)
LEMMA GeneratorStep ==
    ASSUME NEW g \in Generator, SoundGenerator(g), NEW d \in Draft, NEW c \in Drawn,
           Allowed(g.book, d), NEW next, next = Emit(g, d, c)
    PROVE  /\ next \in Generator /\ SoundGenerator(next)
           /\ next.book = BookAfter(g.book, d, c.injected_fault)
           /\ next.floor = g.floor /\ next.as_of = g.as_of
           /\ Known(next.book, d.trade_id) \in Nat
           /\ next.events = Append(g.events,
                                   GeneratedEvent(d, c, Known(next.book, d.trade_id)))
<1>. DEFINE t == d.trade_id
            fault == c.injected_fault
            held == BookAfter(g.book, d, fault)
            e == GeneratedEvent(d, c, Known(held, t))
<1>1. /\ g.book \in Book /\ Allocated(g.book) /\ g.events \in Seq(Emitted)
      /\ g.floor \in Floor /\ g.as_of \in Nat /\ t \in Identifier
      /\ g.amendable \subseteq Identifier /\ g.resendable \subseteq Identifier
      /\ g.replaceable \subseteq Identifier
  BY DEF Generator, SoundGenerator, Draft
<1>2. /\ held \in Book /\ Allocated(held)
      /\ DOMAIN g.book.trades \subseteq DOMAIN held.trades
      /\ DOMAIN held.trades \subseteq DOMAIN g.book.trades \cup {t}
      /\ \A u \in DOMAIN g.book.trades : u # t => held.trades[u] = g.book.trades[u]
      /\ IF TakesVersion(d, fault)
           THEN /\ t \in DOMAIN held.trades /\ held.trades[t].trade_version = d.trade_version
                /\ held.trades[t].is_cancelled <=> d.action = "CANCEL"
           ELSE \A u \in DOMAIN g.book.trades :
                  /\ held.trades[u].trade_version = g.book.trades[u].trade_version
                  /\ held.trades[u].is_cancelled = g.book.trades[u].is_cancelled
  BY <1>1, BookStep
<1>3. \A u \in DOMAIN held.trades : held.trades[u] \in Entry
  BY <1>2, EntriesOf DEF Book
<1>4. Known(held, t) \in Nat
  BY <1>3 DEF Known, Entry
<1>5. e \in Emitted
  BY <1>4 DEF Emitted
<1>6. Append(g.events, e) \in Seq(Emitted)
  BY <1>1, <1>5
<1>. HIDE DEF held, e
<1>7. /\ next.book = held /\ next.events = Append(g.events, e)
      /\ next.floor = g.floor /\ next.as_of = g.as_of
      /\ next.amendable \subseteq g.amendable \cup {t}
      /\ next.resendable \subseteq g.resendable \cup {t}
      /\ next.replaceable \subseteq g.replaceable \cup {t}
      /\ next = [book |-> next.book, as_of |-> next.as_of, events |-> next.events,
                 floor |-> next.floor, amendable |-> next.amendable,
                 resendable |-> next.resendable, replaceable |-> next.replaceable]
  BY DEF Emit, Generator, held, e
<1>8. next \in Generator
  BY <1>1, <1>2, <1>6, <1>7 DEF Generator
<1>9. next.amendable \cup next.resendable \cup next.replaceable \subseteq Amendable(held)
  <2>1. CASE TakesVersion(d, fault) /\ d.action = "CANCEL"
    <3>1. next.amendable \cup next.resendable \cup next.replaceable
            \subseteq (g.amendable \cup g.resendable \cup g.replaceable) \ {t}
      BY <2>1 DEF Emit, Generator
    <3>. QED
      BY <1>2, <3>1 DEF SoundGenerator, Amendable
  <2>2. CASE TakesVersion(d, fault) /\ d.action # "CANCEL"
    <3>1. t \in Amendable(held)
      BY <1>2, <2>2 DEF Amendable
    <3>. QED
      BY <1>2, <1>7, <2>2, <3>1 DEF SoundGenerator, Amendable
  <2>3. CASE ~TakesVersion(d, fault)
    <3>1. next.amendable = g.amendable /\ next.resendable = g.resendable
          /\ next.replaceable = g.replaceable
      BY <2>3 DEF Emit, Generator
    <3>. QED
      BY <1>2, <2>3, <3>1 DEF SoundGenerator, Amendable
  <2>. QED
    BY <2>1, <2>2, <2>3
<1>10. ASSUME NEW u \in DOMAIN g.floor
       PROVE  u \in DOMAIN held.trades /\ g.floor[u] <= Known(held, u)
  <2>1. /\ u \in DOMAIN g.book.trades /\ g.floor[u] <= g.book.trades[u].trade_version
        /\ g.floor[u] \in Nat /\ g.book.trades[u] \in Entry
    BY <1>1, EntriesOf DEF SoundGenerator, Known, Floor, Book
  <2>2. u \in DOMAIN held.trades /\ held.trades[u] \in Entry
    BY <1>2, <1>3, <2>1
  <2>3. CASE u = t /\ TakesVersion(d, fault)
    <3>1. d.trade_version = Known(g.book, t) + 1
      BY <1>1, <2>1, <2>3 DEF Allowed, Allocated, TakesVersion, Identifier, Book
    <3>. QED
      BY <1>2, <2>1, <2>2, <2>3, <3>1 DEF Known, Entry
  <2>4. CASE ~(u = t /\ TakesVersion(d, fault))
    BY <1>2, <2>1, <2>2, <2>4 DEF Known
  <2>. QED
    BY <2>3, <2>4
<1>11. SoundGenerator(next)
  BY <1>2, <1>7, <1>9, <1>10 DEF SoundGenerator
<1>. QED
  BY <1>4, <1>7, <1>8, <1>11 DEF held, e

-----------------------------------------------------------------------------
(* A DRAFT BECOMES AN EVENT                                                *)

Emission(held, next, d, c, e) ==
    /\ held \in Book /\ Allocated(held) /\ d \in Draft /\ c \in Drawn /\ Allowed(held, d)
    /\ next = BookAfter(held, d, c.injected_fault)
    /\ e = GeneratedEvent(d, c, Known(next, d.trade_id))

(* The event as the books before and after it see it.                      *)
EventBetween(held, next, e) ==
    LET t == e.draft.trade_id IN
    /\ held \in Book /\ next \in Book /\ e \in Emitted
    /\ t \in Nat /\ t < next.next_sequence
    /\ next.universe = held.universe /\ held.next_sequence <= next.next_sequence
    /\ DOMAIN held.trades \subseteq DOMAIN next.trades
    /\ DOMAIN next.trades \subseteq DOMAIN held.trades \cup {t}
    /\ \A u \in DOMAIN held.trades : u # t => next.trades[u] = held.trades[u]
    /\ \/ t = held.next_sequence /\ t \notin DOMAIN held.trades
       \/ /\ t \in DOMAIN held.trades /\ ~held.trades[t].is_cancelled
          /\ e.draft.action # "NEW"
          /\ e.draft.effective_event_ts = held.trades[t].last_event_ts + 1
          /\ held.trades[t].trade_version <= next.trades[t].trade_version
    /\ t \in DOMAIN next.trades => next.trades[t].last_event_ts = e.draft.effective_event_ts
    /\ e.field_valid =>
         /\ t \in DOMAIN next.trades
         /\ e.draft.trade_version <= next.trades[t].trade_version
         /\ e.draft.action = "CANCEL" => next.trades[t].is_cancelled
         /\ "RJ001" \notin e.expected_rule_codes =>
              next.trades[t].trade_version <= e.draft.trade_version
    /\ IF TakesVersion(e.draft, e.injected_fault)
         THEN /\ e.field_valid /\ next.trades[t].trade_version = e.draft.trade_version
              /\ t \in DOMAIN held.trades => held.trades[t].trade_version < e.draft.trade_version
              /\ next.trades[t].is_cancelled => e.draft.action = "CANCEL"
         ELSE /\ DOMAIN next.trades = DOMAIN held.trades
              /\ \A u \in DOMAIN held.trades :
                   /\ next.trades[u].trade_version = held.trades[u].trade_version
                   /\ next.trades[u].is_cancelled = held.trades[u].is_cancelled

LEMMA EmissionFacts ==
    ASSUME NEW held, NEW next, NEW d, NEW c, NEW e, Emission(held, next, d, c, e)
    PROVE  EventBetween(held, next, e)
<1>. DEFINE t == d.trade_id
            fault == c.injected_fault
<1>1. /\ held \in Book /\ Allocated(held) /\ d \in Draft /\ c \in Drawn /\ Allowed(held, d)
      /\ next = BookAfter(held, d, fault) /\ e = GeneratedEvent(d, c, Known(next, t))
  BY DEF Emission
<1>2. /\ next \in Book /\ Allocated(next)
      /\ next.universe = held.universe /\ held.next_sequence <= next.next_sequence
      /\ t < next.next_sequence
      /\ DOMAIN held.trades \subseteq DOMAIN next.trades
      /\ DOMAIN next.trades \subseteq DOMAIN held.trades \cup {t}
      /\ \A u \in DOMAIN held.trades : u # t => next.trades[u] = held.trades[u]
      /\ t \in DOMAIN next.trades => next.trades[t].last_event_ts = d.effective_event_ts
      /\ IF TakesVersion(d, fault)
           THEN /\ t \in DOMAIN next.trades /\ next.trades[t].trade_version = d.trade_version
                /\ next.trades[t].is_cancelled <=> d.action = "CANCEL"
           ELSE /\ DOMAIN next.trades = DOMAIN held.trades
                /\ \A u \in DOMAIN held.trades :
                     /\ next.trades[u].trade_version = held.trades[u].trade_version
                     /\ next.trades[u].is_cancelled = held.trades[u].is_cancelled
  BY <1>1, BookStep
<1>3. /\ \A u \in DOMAIN held.trades : u \in Identifier /\ held.trades[u] \in Entry
      /\ \A u \in DOMAIN next.trades : u \in Identifier /\ next.trades[u] \in Entry
      /\ held.next_sequence \in Nat
  BY <1>1, <1>2, EntriesOf DEF Book
<1>4. Known(next, t) \in Nat
  BY <1>3 DEF Known, Entry
<1>5. /\ e.draft = d /\ e.injected_fault = fault
      /\ (e.field_valid <=> Harmless(fault))
      /\ e.field_valid /\ "RJ001" \notin e.expected_rule_codes => Known(next, t) <= d.trade_version
  BY <1>1, <1>4, EventFields
<1>6. e \in Emitted
  BY <1>1, <1>4 DEF Emitted
<1>7. TakesVersion(d, fault) <=> d.mints /\ e.field_valid
  BY <1>5, <1>6, EventType
<1>8. /\ t \in Nat /\ d.trade_version \in Nat \ {0} /\ d.effective_event_ts \in Nat
      /\ d.mints \in BOOLEAN
  BY <1>1 DEF Draft, Identifier
<1>9. \/ t = held.next_sequence /\ t \notin DOMAIN held.trades /\ d.mints
      \/ /\ t \in DOMAIN held.trades /\ ~held.trades[t].is_cancelled /\ d.action # "NEW"
         /\ d.effective_event_ts = held.trades[t].last_event_ts + 1
         /\ IF d.mints THEN d.trade_version = held.trades[t].trade_version + 1
            ELSE d.action = "AMEND" /\ d.trade_version <= held.trades[t].trade_version
  <2>1. CASE t = held.next_sequence /\ d.mints
    BY <1>1, <1>3, <2>1 DEF Allocated
  <2>2. CASE t \in Amendable(held)
    <3>1. t \in DOMAIN held.trades /\ ~held.trades[t].is_cancelled
          /\ Known(held, t) = held.trades[t].trade_version
      BY <2>2 DEF Amendable, Known
    <3>2. t # held.next_sequence
      BY <1>1, <1>3, <3>1 DEF Allocated, Identifier
    <3>. QED
      BY <1>1, <3>1, <3>2 DEF Allowed
  <2>. QED
    BY <1>1, <2>1, <2>2 DEF Allowed
<1>10. CASE TakesVersion(d, fault)
  <2>1. t \in DOMAIN next.trades /\ next.trades[t].trade_version = d.trade_version
        /\ (next.trades[t].is_cancelled <=> d.action = "CANCEL") /\ e.field_valid /\ d.mints
    BY <1>2, <1>7, <1>10
  <2>2. t \in DOMAIN held.trades =>
          /\ held.trades[t].trade_version \in Nat
          /\ d.trade_version = held.trades[t].trade_version + 1
    BY <1>3, <1>8, <1>9, <2>1 DEF Entry, Allocated
  <2>. QED
    BY <1>1, <1>2, <1>3, <1>5, <1>6, <1>8, <1>9, <1>10, <2>1, <2>2 DEF EventBetween, Known, Entry
<1>11. CASE ~TakesVersion(d, fault)
  <2>1. /\ DOMAIN next.trades = DOMAIN held.trades
        /\ \A u \in DOMAIN held.trades :
             /\ next.trades[u].trade_version = held.trades[u].trade_version
             /\ next.trades[u].is_cancelled = held.trades[u].is_cancelled
    BY <1>2, <1>11
  <2>2. e.field_valid =>
          /\ t \in DOMAIN held.trades /\ d.action = "AMEND"
          /\ d.trade_version <= held.trades[t].trade_version
    BY <1>7, <1>8, <1>9, <1>11
  <2>3. t \in DOMAIN held.trades =>
          held.trades[t].trade_version \in Nat /\ Known(next, t) = held.trades[t].trade_version
    BY <1>3, <2>1 DEF Known, Entry
  <2>. QED
    BY <1>1, <1>2, <1>5, <1>6, <1>8, <1>9, <1>11, <2>1, <2>2, <2>3 DEF EventBetween
<1>. QED
  BY <1>10, <1>11

-----------------------------------------------------------------------------
(* THE LOG GAINS AN EVENT                                                  *)

(* new is log with event e added to its last batch, m, at position l.      *)
Grown(log, new, m, l, e) ==
    /\ m \in DOMAIN log /\ DOMAIN new = DOMAIN log
    /\ \A i \in DOMAIN log :
         /\ i \in Nat /\ i <= m
         /\ new[i].universe = log[i].universe /\ new[i].floor = log[i].floor
         /\ \A k \in DOMAIN log[i].events :
              /\ k \in Nat /\ k \in DOMAIN new[i].events
              /\ new[i].events[k] = log[i].events[k]
         /\ \A k \in DOMAIN new[i].events :
              k \in DOMAIN log[i].events \/ (i = m /\ k = l)
    /\ l \in Nat /\ l \in DOMAIN new[m].events /\ new[m].events[l] = e
    /\ \A k \in DOMAIN log[m].events : k < l

LEMMA LogType ==
    ASSUME NEW log \in Log, NEW i \in DOMAIN log
    PROVE  /\ i \in Nat /\ log[i].universe \in Nat /\ log[i].floor \in Floor
           /\ log[i].events \in Seq(Emitted)
           /\ \A k \in DOMAIN log[i].events : k \in Nat /\ log[i].events[k] \in Emitted
<1>. DEFINE R == [universe : Nat, floor : Floor, events : Seq(Emitted)]
<1>1. i \in Nat /\ log[i] \in R
  <2>1. log \in Seq(R)
    BY DEF Log
  <2>. HIDE DEF R
  <2>. QED
    BY <2>1
<1>2. log[i].events \in Seq(Emitted)
  BY <1>1
<1>. QED
  BY <1>1, <1>2

LEMMA InBookKept ==
    ASSUME NEW held, NEW next, NEW e, EventBetween(held, next, e),
           NEW f \in Emitted, InBook(held, f)
    PROVE  InBook(next, f)
<1>. DEFINE t == e.draft.trade_id
            u == f.draft.trade_id
<1>1. /\ u \in Nat /\ f.draft.effective_event_ts \in Nat /\ f.draft.trade_version \in Nat
      /\ f.field_valid \in BOOLEAN
  BY EventType DEF Draft, Identifier
<1>2. /\ held.next_sequence \in Nat /\ next.next_sequence \in Nat
      /\ \A x \in DOMAIN held.trades : held.trades[x] \in Entry
      /\ \A x \in DOMAIN next.trades : next.trades[x] \in Entry
  BY EntriesOf DEF EventBetween, Book
<1>3. CASE u # t
  <2>1. u \in DOMAIN next.trades =>
          u \in DOMAIN held.trades /\ next.trades[u] = held.trades[u]
    BY <1>3 DEF EventBetween
  <2>2. u < next.next_sequence
    BY <1>1, <1>2 DEF EventBetween, InBook
  <2>3. u \in DOMAIN held.trades => u \in DOMAIN next.trades
    BY DEF EventBetween
  <2>. QED
    BY <2>1, <2>2, <2>3 DEF InBook
<1>4. CASE u = t
  <2>1. /\ t \in DOMAIN held.trades /\ ~held.trades[t].is_cancelled
        /\ e.draft.effective_event_ts = held.trades[t].last_event_ts + 1
        /\ held.trades[t].trade_version <= next.trades[t].trade_version
    BY <1>1, <1>2, <1>4 DEF EventBetween, InBook
  <2>2. /\ t \in DOMAIN next.trades /\ t < next.next_sequence
        /\ next.trades[t].last_event_ts = held.trades[t].last_event_ts + 1
    BY <2>1 DEF EventBetween
  <2>3. /\ held.trades[t].trade_version \in Nat /\ next.trades[t].trade_version \in Nat
        /\ held.trades[t].last_event_ts \in Nat
    BY <1>2, <2>1, <2>2 DEF Entry
  <2>. QED
    BY <1>1, <1>4, <2>1, <2>2, <2>3 DEF InBook
<1>. QED
  BY <1>3, <1>4

LEMMA InBookNew ==
    ASSUME NEW held, NEW next, NEW e, EventBetween(held, next, e)
    PROVE  InBook(next, e)
<1>1. \A x \in DOMAIN next.trades : next.trades[x] \in Entry
  BY EntriesOf DEF EventBetween, Book
<1>. QED
  BY <1>1 DEF EventBetween, InBook, Entry

(* The new event follows every event of its trade in its universe.         *)
LEMMA NewFollows ==
    ASSUME NEW held, NEW next, NEW e, EventBetween(held, next, e),
           NEW f \in Emitted, InBook(held, f), f.draft.trade_id = e.draft.trade_id
    PROVE  Distinct(f, e) /\ Follows(e, f)
<1>. DEFINE t == e.draft.trade_id
<1>1. /\ f.draft.effective_event_ts \in Nat /\ f.draft.trade_version \in Nat
      /\ f.field_valid \in BOOLEAN /\ e.draft.trade_version \in Nat
      /\ TakesVersion(f.draft, f.injected_fault) => f.field_valid
  BY EventType DEF Draft, EventBetween
<1>2. held.next_sequence \in Nat /\ \A x \in DOMAIN held.trades : held.trades[x] \in Entry
  BY EntriesOf DEF EventBetween, Book
<1>3. /\ t \in DOMAIN held.trades /\ ~held.trades[t].is_cancelled /\ e.draft.action # "NEW"
      /\ e.draft.effective_event_ts = held.trades[t].last_event_ts + 1
  BY <1>2 DEF EventBetween, InBook
<1>4. held.trades[t].last_event_ts \in Nat /\ held.trades[t].trade_version \in Nat
  BY <1>2, <1>3 DEF Entry
<1>5. Follows(e, f)
  BY <1>1, <1>3, <1>4 DEF Follows, InBook
<1>6. ASSUME TakesVersion(e.draft, e.injected_fault), TakesVersion(f.draft, f.injected_fault)
      PROVE  f.draft.trade_version # e.draft.trade_version
  <2>1. held.trades[t].trade_version < e.draft.trade_version
    BY <1>3, <1>6 DEF EventBetween
  <2>2. f.draft.trade_version <= held.trades[t].trade_version
    BY <1>1, <1>6 DEF InBook
  <2>. QED
    BY <1>1, <1>4, <2>1, <2>2
<1>. QED
  BY <1>3, <1>5, <1>6 DEF Distinct

(* What is last of its version stays so when an event of another trade, of *)
(* another version, or one that must be refused is added.                  *)
LEMMA CarriesKept ==
    ASSUME NEW log, NEW new, NEW m, NEW l, NEW e, Grown(log, new, m, l, e),
           NEW i \in DOMAIN log, NEW k \in DOMAIN log[i].events, NEW t, NEW v,
           Carries(log, i, k, t, v),
           i # m \/ ~e.field_valid \/ e.draft.trade_id # t \/ e.draft.trade_version # v
    PROVE  k \in DOMAIN new[i].events /\ Carries(new, i, k, t, v)
<1>1. k \in DOMAIN new[i].events /\ new[i].events[k] = log[i].events[k]
  BY DEF Grown
<1>2. ASSUME NEW n \in DOMAIN new[i].events, k < n, new[i].events[n].field_valid,
             new[i].events[n].draft.trade_id = t
      PROVE  new[i].events[n].draft.trade_version # v
  <2>1. CASE n \in DOMAIN log[i].events
    <3>1. new[i].events[n] = log[i].events[n]
      BY <2>1 DEF Grown
    <3>. QED
      BY <1>2, <2>1, <3>1 DEF Carries, LastOfVersion
  <2>2. CASE i = m /\ n = l
    <3>1. new[i].events[n] = e
      BY <2>2 DEF Grown
    <3>. QED
      BY <1>2, <2>2, <3>1
  <2>. QED
    BY <2>1, <2>2 DEF Grown
<1>. QED
  BY <1>1, <1>2 DEF Carries, LastOfVersion

LEMMA NewCarries ==
    ASSUME NEW log, NEW new, NEW m, NEW l, NEW e, Grown(log, new, m, l, e), e.field_valid
    PROVE  /\ l \in DOMAIN new[m].events
           /\ Carries(new, m, l, e.draft.trade_id, e.draft.trade_version)
<1>1. /\ l \in Nat /\ l \in DOMAIN new[m].events /\ new[m].events[l] = e /\ m \in DOMAIN log
      /\ \A n \in DOMAIN new[m].events : n = l \/ (n \in Nat /\ n < l)
  BY DEF Grown
<1>2. LastOfVersion(new, m, l)
  BY <1>1 DEF LastOfVersion
<1>. QED
  BY <1>1, <1>2 DEF Carries

(* An event of a grown log is an old one in its place, or the new one.     *)
LEMMA GrownCases ==
    ASSUME NEW log, NEW new, NEW m, NEW l, NEW e, Grown(log, new, m, l, e),
           NEW i \in DOMAIN new, NEW k \in DOMAIN new[i].events
    PROVE  /\ i \in DOMAIN log /\ i \in Nat /\ m \in Nat /\ i <= m
           /\ new[i].universe = log[i].universe /\ new[i].floor = log[i].floor
           /\ \/ /\ k \in DOMAIN log[i].events /\ k \in Nat
                 /\ new[i].events[k] = log[i].events[k]
                 /\ i = m => k < l
              \/ i = m /\ k = l /\ l \in Nat /\ new[i].events[k] = e
BY DEF Grown

LEMMA RecordedStep ==
    ASSUME NEW log \in Log, NEW new, NEW m, NEW l, NEW e, Grown(log, new, m, l, e),
           NEW held, NEW next, EventBetween(held, next, e), Recorded(held, log)
    PROVE  Recorded(next, new)
<1>. SUFFICES ASSUME NEW i \in DOMAIN new, new[i].universe = next.universe,
                     NEW k \in DOMAIN new[i].events
              PROVE  InBook(next, new[i].events[k])
  BY DEF Recorded
<1>1. next.universe = held.universe
  BY DEF EventBetween
<1>2. i \in DOMAIN log /\ log[i].universe = held.universe
  BY <1>1, GrownCases
<1>3. CASE k \in DOMAIN log[i].events /\ new[i].events[k] = log[i].events[k]
  BY <1>2, <1>3, InBookKept, LogType DEF Recorded
<1>4. CASE new[i].events[k] = e
  BY <1>4, InBookNew
<1>. QED
  BY <1>3, <1>4, GrownCases

LEMMA OrderedStep ==
    ASSUME NEW log \in Log, NEW new, NEW m, NEW l, NEW e, Grown(log, new, m, l, e),
           NEW held, NEW next, EventBetween(held, next, e), log[m].universe = held.universe,
           Recorded(held, log), Ordered(log)
    PROVE  Ordered(new)
<1>. SUFFICES ASSUME NEW i \in DOMAIN new, NEW j \in DOMAIN new,
                     NEW k \in DOMAIN new[i].events, NEW n \in DOMAIN new[j].events,
                     i < j \/ (i = j /\ k < n), new[i].universe = new[j].universe,
                     new[i].events[k].draft.trade_id = new[j].events[n].draft.trade_id
              PROVE  /\ Distinct(new[i].events[k], new[j].events[n])
                     /\ Follows(new[j].events[n], new[i].events[k])
  BY DEF Ordered
<1>1. /\ i \in DOMAIN log /\ i \in Nat /\ m \in Nat /\ i <= m
      /\ new[i].universe = log[i].universe
      /\ \/ /\ k \in DOMAIN log[i].events /\ k \in Nat
            /\ new[i].events[k] = log[i].events[k] /\ (i = m => k < l)
         \/ i = m /\ k = l /\ l \in Nat /\ new[i].events[k] = e
  BY GrownCases
<1>2. /\ j \in DOMAIN log /\ j \in Nat /\ j <= m
      /\ new[j].universe = log[j].universe
      /\ \/ /\ n \in DOMAIN log[j].events /\ n \in Nat
            /\ new[j].events[n] = log[j].events[n] /\ (j = m => n < l)
         \/ j = m /\ n = l /\ l \in Nat /\ new[j].events[n] = e
  BY GrownCases
<1>3. k \in DOMAIN log[i].events /\ new[i].events[k] = log[i].events[k]
  <2>1. SUFFICES ASSUME i = m, k = l, l \in Nat
                 PROVE  FALSE
    BY <1>1
  <2>2. j = m
    BY <1>1, <1>2, <2>1
  <2>. QED
    BY <1>2, <2>1, <2>2
<1>4. CASE n \in DOMAIN log[j].events /\ new[j].events[n] = log[j].events[n]
  BY <1>1, <1>2, <1>3, <1>4 DEF Ordered
<1>5. CASE j = m /\ new[j].events[n] = e
  <2>1. InBook(held, log[i].events[k]) /\ log[i].events[k] \in Emitted
    BY <1>1, <1>2, <1>3, <1>5, LogType DEF Recorded
  <2>. QED
    BY <1>3, <1>5, <2>1, NewFollows
<1>. QED
  BY <1>2, <1>4, <1>5

LEMMA WitnessedStep ==
    ASSUME NEW log \in Log, NEW new, NEW m, NEW l, NEW e, Grown(log, new, m, l, e),
           NEW held, NEW next, EventBetween(held, next, e), log[m].universe = held.universe,
           VersionsWitnessed(held, log), CancelsWitnessed(held, log)
    PROVE  VersionsWitnessed(next, new) /\ CancelsWitnessed(next, new)
<1>. DEFINE u == e.draft.trade_id
<1>1. /\ next.universe = held.universe /\ DOMAIN new = DOMAIN log /\ m \in DOMAIN log
      /\ \A i \in DOMAIN log : new[i].universe = log[i].universe
  BY DEF EventBetween, Grown
<1>2. ASSUME NEW t \in DOMAIN next.trades
      PROVE  \E i \in DOMAIN new : \E k \in DOMAIN new[i].events :
               /\ new[i].universe = next.universe
               /\ Carries(new, i, k, t, next.trades[t].trade_version)
  <2>1. CASE t = u /\ e.field_valid /\ e.draft.trade_version = next.trades[t].trade_version
    BY <1>1, <2>1, NewCarries
  <2>2. CASE ~(t = u /\ e.field_valid /\ e.draft.trade_version = next.trades[t].trade_version)
    <3>1. t \in DOMAIN held.trades /\ held.trades[t].trade_version = next.trades[t].trade_version
      BY <2>2 DEF EventBetween
    <3>. PICK i \in DOMAIN log : \E k \in DOMAIN log[i].events :
            log[i].universe = held.universe /\ Carries(log, i, k, t, held.trades[t].trade_version)
      BY <3>1 DEF VersionsWitnessed
    <3>2. PICK k \in DOMAIN log[i].events :
            log[i].universe = held.universe /\ Carries(log, i, k, t, held.trades[t].trade_version)
      OBVIOUS
    <3>3. k \in DOMAIN new[i].events /\ Carries(new, i, k, t, next.trades[t].trade_version)
      BY <2>2, <3>1, <3>2, CarriesKept
    <3>. QED
      BY <1>1, <3>2, <3>3
  <2>. QED
    BY <2>1, <2>2
<1>3. ASSUME NEW t \in DOMAIN next.trades, next.trades[t].is_cancelled
      PROVE  \E i \in DOMAIN new : \E k \in DOMAIN new[i].events :
               /\ new[i].universe = next.universe
               /\ Cancels(new[i].events[k], t, next.trades[t].trade_version)
  <2>1. CASE t = u /\ TakesVersion(e.draft, e.injected_fault)
    <3>1. Cancels(e, t, next.trades[t].trade_version)
      BY <1>3, <2>1 DEF EventBetween, Cancels
    <3>2. l \in DOMAIN new[m].events /\ new[m].events[l] = e
      BY DEF Grown
    <3>. QED
      BY <1>1, <2>1, <3>1, <3>2
  <2>2. CASE ~(t = u /\ TakesVersion(e.draft, e.injected_fault))
    <3>1. /\ t \in DOMAIN held.trades /\ held.trades[t].is_cancelled
          /\ next.trades[t].trade_version = held.trades[t].trade_version
      BY <1>3, <2>2 DEF EventBetween
    <3>. PICK i \in DOMAIN log : \E k \in DOMAIN log[i].events :
            /\ log[i].universe = held.universe
            /\ Cancels(log[i].events[k], t, held.trades[t].trade_version)
      BY <3>1 DEF CancelsWitnessed
    <3>2. PICK k \in DOMAIN log[i].events :
            /\ log[i].universe = held.universe
            /\ Cancels(log[i].events[k], t, held.trades[t].trade_version)
      OBVIOUS
    <3>3. k \in DOMAIN new[i].events /\ new[i].events[k] = log[i].events[k]
      BY DEF Grown
    <3>. QED
      BY <1>1, <3>1, <3>2, <3>3
  <2>. QED
    BY <2>1, <2>2
<1>. QED
  BY <1>2, <1>3 DEF VersionsWitnessed, CancelsWitnessed

LEMMA FloorsStep ==
    ASSUME NEW log, NEW new, NEW m, NEW l, NEW e, Grown(log, new, m, l, e),
           FloorAbove(log), FloorReached(log)
    PROVE  FloorAbove(new) /\ FloorReached(new)
<1>1. ASSUME NEW i \in DOMAIN new, NEW j \in DOMAIN new, i < j, NEW k \in DOMAIN new[i].events
      PROVE  /\ i \in DOMAIN log /\ j \in DOMAIN log /\ i # m
             /\ k \in DOMAIN log[i].events /\ new[i].events[k] = log[i].events[k]
             /\ new[i].universe = log[i].universe /\ new[j].universe = log[j].universe
             /\ new[j].floor = log[j].floor
  <2>1. /\ i \in Nat /\ j \in Nat /\ m \in Nat /\ j <= m /\ j \in DOMAIN log
        /\ new[j].universe = log[j].universe /\ new[j].floor = log[j].floor
    BY DEF Grown
  <2>2. i # m
    BY <1>1, <2>1
  <2>. QED
    BY <2>1, <2>2, GrownCases
<1>2. FloorAbove(new)
  BY <1>1 DEF FloorAbove
<1>3. ASSUME NEW j \in DOMAIN new, NEW t \in DOMAIN new[j].floor
      PROVE  \E i \in DOMAIN new : \E k \in DOMAIN new[i].events :
               /\ i < j /\ new[i].universe = new[j].universe
               /\ Carries(new, i, k, t, new[j].floor[t])
  <2>1. j \in DOMAIN log /\ new[j].floor = log[j].floor /\ new[j].universe = log[j].universe
        /\ DOMAIN new = DOMAIN log
    BY DEF Grown
  <2>. PICK i \in DOMAIN log : \E k \in DOMAIN log[i].events :
         /\ i < j /\ log[i].universe = log[j].universe
         /\ Carries(log, i, k, t, log[j].floor[t])
    BY <2>1 DEF FloorReached
  <2>2. PICK k \in DOMAIN log[i].events :
          /\ i < j /\ log[i].universe = log[j].universe
          /\ Carries(log, i, k, t, log[j].floor[t])
    OBVIOUS
  <2>3. i # m /\ new[i].universe = log[i].universe
    BY <2>1, <2>2 DEF Grown
  <2>4. k \in DOMAIN new[i].events /\ Carries(new, i, k, t, log[j].floor[t])
    BY <2>2, <2>3, CarriesKept
  <2>. QED
    BY <2>1, <2>2, <2>3, <2>4
<1>. QED
  BY <1>2, <1>3 DEF FloorReached

LEMMA LateStep ==
    ASSUME NEW log \in Log, NEW new, NEW m, NEW l, NEW e, Grown(log, new, m, l, e),
           NEW held, NEW next, EventBetween(held, next, e), log[m].universe = held.universe,
           \A t \in DOMAIN log[m].floor :
               t \in DOMAIN held.trades /\ log[m].floor[t] <= held.trades[t].trade_version,
           Recorded(held, log), LateMarked(log)
    PROVE  LateMarked(new)
<1>. SUFFICES ASSUME NEW i \in DOMAIN new, NEW n \in DOMAIN new[i].events,
                     new[i].events[n].field_valid,
                     "RJ001" \notin new[i].events[n].expected_rule_codes,
                     NEW t, t = new[i].events[n].draft.trade_id,
                     NEW v, v = new[i].events[n].draft.trade_version
              PROVE  /\ t \in DOMAIN new[i].floor => new[i].floor[t] <= v
                     /\ \A k \in DOMAIN new[i].events :
                          /\ k < n /\ new[i].events[k].field_valid
                          /\ new[i].events[k].draft.trade_id = t
                          => new[i].events[k].draft.trade_version <= v
  BY DEF LateMarked
<1>1. CASE n \in DOMAIN log[i].events /\ n \in Nat /\ new[i].events[n] = log[i].events[n]
           /\ (i = m => n < l)
  <2>1. i \in DOMAIN log /\ new[i].floor = log[i].floor
    BY GrownCases
  <2>2. ASSUME NEW k \in DOMAIN new[i].events, k < n
        PROVE  k \in DOMAIN log[i].events /\ new[i].events[k] = log[i].events[k]
    <3>1. \/ k \in DOMAIN log[i].events /\ new[i].events[k] = log[i].events[k]
          \/ i = m /\ k = l /\ l \in Nat
      BY GrownCases
    <3>2. ~(i = m /\ k = l /\ l \in Nat)
      BY <1>1, <2>2
    <3>. QED
      BY <3>1, <3>2
  <2>. QED
    BY <1>1, <2>1, <2>2 DEF LateMarked
<1>2. CASE i = m /\ n = l /\ l \in Nat /\ new[i].events[n] = e
  <2>1. /\ t = e.draft.trade_id /\ t \in DOMAIN next.trades
        /\ next.trades[t].trade_version <= v /\ v \in Nat
        /\ m \in DOMAIN log /\ new[m].floor = log[m].floor
        /\ \A x \in DOMAIN held.trades : held.trades[x] \in Entry
        /\ \A x \in DOMAIN next.trades : next.trades[x] \in Entry
    BY <1>2, EntriesOf, EventType DEF EventBetween, Book, Draft, Grown
  <2>2. held.next_sequence \in Nat
    BY DEF EventBetween, Book
  <2>3. t \in DOMAIN held.trades =>
          /\ held.trades[t].trade_version \in Nat /\ next.trades[t].trade_version \in Nat
          /\ held.trades[t].trade_version <= next.trades[t].trade_version
    BY <2>1, <2>2 DEF EventBetween, Entry
  <2>4. t \in DOMAIN log[m].floor => log[m].floor[t] <= v
    <3>1. t \in DOMAIN log[m].floor => log[m].floor[t] \in Nat
      BY <2>1, LogType DEF Floor
    <3>. QED
      BY <2>1, <2>3, <3>1
  <2>5. ASSUME NEW k \in DOMAIN new[m].events, k < l, new[m].events[k].field_valid,
               new[m].events[k].draft.trade_id = t
        PROVE  new[m].events[k].draft.trade_version <= v
    <3>1. k \in DOMAIN log[m].events /\ new[m].events[k] = log[m].events[k]
      BY <1>2, <2>1, <2>5, GrownCases
    <3>2. log[m].events[k] \in Emitted /\ InBook(held, log[m].events[k])
      BY <2>1, <3>1, LogType DEF Recorded
    <3>3. /\ t \in DOMAIN held.trades
          /\ log[m].events[k].draft.trade_version <= held.trades[t].trade_version
          /\ log[m].events[k].draft.trade_version \in Nat
      BY <2>5, <3>1, <3>2, EventType DEF InBook, Draft
    <3>. QED
      BY <2>1, <2>3, <3>1, <3>3 DEF Entry
  <2>. QED
    BY <1>2, <2>1, <2>4, <2>5
<1>. QED
  BY <1>1, <1>2, GrownCases

(* The history stays sound when a batch gains an event.                    *)
LEMMA HistoryGrows ==
    ASSUME NEW log \in Log, NEW new, NEW m, NEW l, NEW e, Grown(log, new, m, l, e),
           NEW held, NEW next, EventBetween(held, next, e), log[m].universe = held.universe,
           \A t \in DOMAIN log[m].floor :
               t \in DOMAIN held.trades /\ log[m].floor[t] <= held.trades[t].trade_version,
           History(held, log)
    PROVE  History(next, new)
<1>1. UniversesPassed(next, new)
  BY DEF UniversesPassed, History, Grown, EventBetween
<1>. QED
  BY <1>1, RecordedStep, OrderedStep, WitnessedStep, FloorsStep, LateStep DEF History

-----------------------------------------------------------------------------
(* A BATCH IS BEGUN, OR THE BOOK                                           *)

(* new is log with a batch added that has no event yet.                    *)
Opened(log, new, m, held) ==
    /\ m \in Nat /\ m \notin DOMAIN log /\ DOMAIN new = DOMAIN log \cup {m}
    /\ \A i \in DOMAIN log : i \in Nat /\ i < m /\ new[i] = log[i]
    /\ new[m].universe = held.universe /\ DOMAIN new[m].events = {}
    /\ DOMAIN new[m].floor = DOMAIN held.trades
    /\ \A t \in DOMAIN held.trades : new[m].floor[t] = held.trades[t].trade_version

LEMMA CarriesInOpened ==
    ASSUME NEW log, NEW new, NEW m, NEW held, Opened(log, new, m, held),
           NEW i \in DOMAIN log, NEW k \in DOMAIN log[i].events, NEW t, NEW v,
           Carries(log, i, k, t, v)
    PROVE  i \in DOMAIN new /\ k \in DOMAIN new[i].events /\ Carries(new, i, k, t, v)
BY DEF Opened, Carries, LastOfVersion

LEMMA HistoryOpens ==
    ASSUME NEW log \in Log, NEW new, NEW m, NEW held \in Book, Opened(log, new, m, held),
           History(held, log)
    PROVE  History(held, new)
<1>1. ASSUME NEW i \in DOMAIN new, NEW k \in DOMAIN new[i].events
      PROVE  i \in DOMAIN log /\ i \in Nat /\ i < m /\ new[i] = log[i]
  BY DEF Opened
<1>2. UniversesPassed(held, new)
  BY DEF UniversesPassed, History, Opened, Book
<1>3. Recorded(held, new) /\ Ordered(new) /\ LateMarked(new)
  BY <1>1 DEF History, Recorded, Ordered, LateMarked
<1>4. VersionsWitnessed(held, new)
  <2>. SUFFICES ASSUME NEW t \in DOMAIN held.trades
                PROVE  \E i \in DOMAIN new : \E k \in DOMAIN new[i].events :
                         /\ new[i].universe = held.universe
                         /\ Carries(new, i, k, t, held.trades[t].trade_version)
    BY DEF VersionsWitnessed
  <2>. PICK i \in DOMAIN log : \E k \in DOMAIN log[i].events :
         log[i].universe = held.universe /\ Carries(log, i, k, t, held.trades[t].trade_version)
    BY DEF History, VersionsWitnessed
  <2>1. new[i].universe = log[i].universe
    BY DEF Opened
  <2>. QED
    BY <2>1, CarriesInOpened
<1>5. CancelsWitnessed(held, new)
  BY DEF History, CancelsWitnessed, Opened
<1>6. FloorAbove(new)
  <2>. SUFFICES ASSUME NEW i \in DOMAIN new, NEW j \in DOMAIN new,
                       NEW k \in DOMAIN new[i].events,
                       i < j, new[i].universe = new[j].universe, new[i].events[k].field_valid,
                       NEW t, t = new[i].events[k].draft.trade_id
                PROVE  /\ t \in DOMAIN new[j].floor
                       /\ new[i].events[k].draft.trade_version <= new[j].floor[t]
    BY DEF FloorAbove
  <2>1. i \in DOMAIN log /\ new[i] = log[i]
    BY <1>1
  <2>2. CASE j = m
    BY <2>1, <2>2 DEF History, Recorded, InBook, Opened
  <2>3. CASE j \in DOMAIN log
    <3>1. new[j] = log[j]
      BY <2>3 DEF Opened
    <3>. QED
      BY <2>1, <2>3, <3>1 DEF History, FloorAbove
  <2>. QED
    BY <2>2, <2>3 DEF Opened
<1>7. FloorReached(new)
  <2>. SUFFICES ASSUME NEW j \in DOMAIN new, NEW t \in DOMAIN new[j].floor
                PROVE  \E i \in DOMAIN new : \E k \in DOMAIN new[i].events :
                         /\ i < j /\ new[i].universe = new[j].universe
                         /\ Carries(new, i, k, t, new[j].floor[t])
    BY DEF FloorReached
  <2>1. CASE j = m
    <3>1. t \in DOMAIN held.trades /\ new[j].floor[t] = held.trades[t].trade_version
          /\ new[j].universe = held.universe
      BY <2>1 DEF Opened
    <3>. PICK i \in DOMAIN log : \E k \in DOMAIN log[i].events :
           log[i].universe = held.universe /\ Carries(log, i, k, t, held.trades[t].trade_version)
      BY <3>1 DEF History, VersionsWitnessed
    <3>2. i < m /\ new[i].universe = log[i].universe
      BY DEF Opened
    <3>. QED
      BY <2>1, <3>1, <3>2, CarriesInOpened
  <2>2. CASE j \in DOMAIN log
    <3>1. new[j] = log[j]
      BY <2>2 DEF Opened
    <3>. PICK i \in DOMAIN log : \E k \in DOMAIN log[i].events :
           /\ i < j /\ log[i].universe = log[j].universe
           /\ Carries(log, i, k, t, log[j].floor[t])
      BY <2>2, <3>1 DEF History, FloorReached
    <3>2. new[i].universe = log[i].universe
      BY DEF Opened
    <3>. QED
      BY <3>1, <3>2, CarriesInOpened
  <2>. QED
    BY <2>1, <2>2 DEF Opened
<1>. QED
  BY <1>2, <1>3, <1>4, <1>5, <1>6, <1>7 DEF History

LEMMA EmptyBookType ==
    ASSUME NEW n \in Nat
    PROVE  /\ EmptyBook(n) \in Book /\ Allocated(EmptyBook(n))
           /\ EmptyBook(n).universe = n /\ DOMAIN EmptyBook(n).trades = {}
<1>1. <<>> \in Trades /\ DOMAIN <<>> = {}
  <2>1. <<>> = [t \in {} |-> t]
    OBVIOUS
  <2>2. <<>> \in [{} -> Entry]
    OBVIOUS
  <2>. QED
    BY <2>1, <2>2 DEF Trades
<1>. QED
  BY <1>1 DEF EmptyBook, Book, Allocated

LEMMA HistoryRestarts ==
    ASSUME NEW log \in Log, NEW held \in Book, History(held, log), NEW next \in Book,
           held.universe < next.universe, DOMAIN next.trades = {}
    PROVE  History(next, log)
<1>1. \A i \in DOMAIN log : log[i].universe < next.universe /\ log[i].universe \in Nat
  BY LogType DEF History, UniversesPassed, Book
<1>2. UniversesPassed(next, log) /\ Recorded(next, log)
  BY <1>1 DEF UniversesPassed, Recorded, Book
<1>. QED
  BY <1>2 DEF History, VersionsWitnessed, CancelsWitnessed

-----------------------------------------------------------------------------
(* THE FEED                                                                *)

Expectation == [expected_verdict : Verdict, expected_rule_codes : SUBSET Codes]
Decision == [verdict : Verdict \cup {"none"}, codes : SUBSET Codes]

BatchRow ==
    [universe : Nat, as_of : Nat, floor : Floor, events : Seq(Emitted),
     manifest : Seq(Expectation), landed : Nat, build : Nat, built_on : Nat,
     verdicts : Seq(Decision)]

SimState == [pc : {"idle", "generating", "writing", "loading"}, b : Nat, gen : Generator]

FeedType ==
    /\ today \in 0..MaxDay /\ lock \in Sim \cup {NoSim} /\ loads \in Nat /\ builds \in Nat
    /\ book \in Book /\ Allocated(book)
    /\ sim \in [Sim -> SimState]
    /\ batch \in Seq(BatchRow)
    /\ \A s \in Sim : /\ sim[s].b <= Len(batch) /\ (sim[s].pc # "idle" => sim[s].b > 0)
                      /\ Allocated(sim[s].gen.book)
    /\ \A i \in DOMAIN batch : batch[i].landed <= loads /\ batch[i].build <= builds

(* A simulator is in the lock while it generates, and after that as long   *)
(* as its command keeps it there.                                          *)
Holds(s) ==
    \/ sim[s].pc = "generating"
    \/ sim[s].pc \in {"writing", "loading"} /\ s \in HoldsWhileWriting

LockInv ==
    \A s \in Sim : /\ lock = s <=> Holds(s)
                   /\ sim[s].pc = "loading" => s \in HoldsWhileLoading

(* The batch of a simulator at work is the last one, and nobody has seen it*)
GeneratorInv ==
    \A s \in Sim : sim[s].pc = "generating" =>
        /\ Len(batch) \in DOMAIN batch /\ sim[s].b = Len(batch)
        /\ LET b == batch[Len(batch)] IN
           /\ b.universe = sim[s].gen.book.universe /\ b.floor = sim[s].gen.floor
           /\ b.events = <<>> /\ b.manifest = <<>> /\ b.landed = 0 /\ b.build = 0
        /\ SoundGenerator(sim[s].gen)

(* The book as it will be saved, and what was generated so far.            *)
AtWork == lock # NoSim /\ sim[lock].pc = "generating"
Current == IF lock = NoSim THEN book ELSE sim[lock].gen.book
Generated(i) == IF AtWork /\ i = Len(batch) THEN sim[lock].gen.events ELSE batch[i].events

LogNow ==
    [i \in DOMAIN batch |->
        [universe |-> batch[i].universe, floor |-> batch[i].floor, events |-> Generated(i)]]

FeedInv == FeedType /\ LockInv /\ GeneratorInv /\ History(Current, LogNow)

-----------------------------------------------------------------------------
LEMMA FeedFields ==
    ASSUME FeedType
    PROVE  /\ Len(batch) \in Nat /\ DOMAIN batch = 1..Len(batch)
           /\ \A i \in DOMAIN batch : batch[i] \in BatchRow
           /\ \A s \in Sim : sim[s] \in SimState /\ sim[s].gen \in Generator
                             /\ sim[s].gen.book \in Book
<1>1. batch \in Seq(BatchRow)
  BY DEF FeedType
<1>2. Len(batch) \in Nat /\ DOMAIN batch = 1..Len(batch)
      /\ \A i \in DOMAIN batch : batch[i] \in BatchRow
  <2>. HIDE DEF BatchRow
  <2>. QED
    BY <1>1
<1>. QED
  BY <1>2 DEF FeedType, SimState, Generator

LEMMA StartType ==
    ASSUME NEW b \in Book, Allocated(b), NEW day \in Nat
    PROVE  /\ StartGenerator(b, day) \in Generator /\ SoundGenerator(StartGenerator(b, day))
           /\ StartGenerator(b, day).book = b /\ StartGenerator(b, day).events = <<>>
           /\ DOMAIN StartGenerator(b, day).floor = DOMAIN b.trades
           /\ \A t \in DOMAIN b.trades :
                StartGenerator(b, day).floor[t] = b.trades[t].trade_version
<1>1. /\ DOMAIN b.trades \subseteq Identifier
      /\ \A t \in DOMAIN b.trades : b.trades[t] \in Entry
  BY EntriesOf DEF Book
<1>2. [t \in DOMAIN b.trades |-> b.trades[t].trade_version] \in Floor
  <2>1. [t \in DOMAIN b.trades |-> b.trades[t].trade_version] \in [DOMAIN b.trades -> Nat]
    BY <1>1 DEF Entry
  <2>. QED
    BY <1>1, <2>1 DEF Floor
<1>3. StartGenerator(b, day) \in Generator
  BY <1>1, <1>2 DEF StartGenerator, Generator, Amendable
<1>4. \A t \in DOMAIN b.trades : b.trades[t].trade_version <= Known(b, t)
  BY <1>1 DEF Known, Entry
<1>. QED
  BY <1>3, <1>4 DEF StartGenerator, SoundGenerator, Amendable

LEMMA AsleepType ==
    Asleep \in SimState /\ Asleep.pc = "idle" /\ Asleep.b = 0 /\ Allocated(Asleep.gen.book)
BY EmptyBookType, StartType DEF Asleep, SimState

LEMMA FeedInit == Init => FeedInv
<1>. SUFFICES ASSUME Init PROVE FeedInv
  OBVIOUS
<1>1. EmptyBook(0) \in Book /\ Allocated(EmptyBook(0)) /\ DOMAIN EmptyBook(0).trades = {}
  BY EmptyBookType
<1>2. FeedType
  BY <1>1, AsleepType, SimAssumption DEF Init, FeedType
<1>3. LockInv /\ GeneratorInv
  BY AsleepType, SimAssumption DEF Init, LockInv, GeneratorInv, Holds
<1>4. Current = EmptyBook(0) /\ DOMAIN LogNow = {}
  BY DEF Init, Current, LogNow
<1>5. History(Current, LogNow)
  BY <1>1, <1>4 DEF History, UniversesPassed, Recorded, VersionsWitnessed, CancelsWitnessed,
                    Ordered, FloorAbove, FloorReached, LateMarked
<1>. QED
  BY <1>2, <1>3, <1>5 DEF FeedInv

LEMMA LogNowType ==
    ASSUME FeedType
    PROVE  /\ LogNow \in Log /\ DOMAIN LogNow = DOMAIN batch
           /\ \A i \in DOMAIN batch :
                /\ LogNow[i].universe = batch[i].universe /\ LogNow[i].floor = batch[i].floor
                /\ LogNow[i].events = Generated(i)
<1>. DEFINE R == [universe : Nat, floor : Floor, events : Seq(Emitted)]
<1>1. /\ DOMAIN LogNow = DOMAIN batch
      /\ \A i \in DOMAIN batch :
           LogNow[i] = [universe |-> batch[i].universe, floor |-> batch[i].floor,
                        events |-> Generated(i)]
  BY DEF LogNow
<1>2. ASSUME NEW i \in DOMAIN batch
      PROVE  LogNow[i] \in R
  <2>1. batch[i] \in BatchRow
    BY FeedFields
  <2>2. Generated(i) \in Seq(Emitted)
    <3>1. AtWork => sim[lock].gen.events \in Seq(Emitted)
      BY FeedFields DEF FeedType, AtWork, Generator
    <3>. QED
      BY <2>1, <3>1 DEF Generated, BatchRow
  <2>3. batch[i].universe \in Nat /\ batch[i].floor \in Floor
    BY <2>1 DEF BatchRow
  <2>. QED
    BY <1>1, <2>2, <2>3
<1>3. LogNow \in [1..Len(batch) -> R]
  <2>. HIDE DEF R
  <2>. QED
    BY <1>2, FeedFields DEF LogNow
<1>4. LogNow \in Seq(R)
  <2>. HIDE DEF R
  <2>. QED
    BY <1>3, FeedFields
<1>5. LogNow \in Log
  BY <1>4 DEF Log
<1>6. ASSUME NEW i \in DOMAIN batch
      PROVE  /\ LogNow[i].universe = batch[i].universe /\ LogNow[i].floor = batch[i].floor
             /\ LogNow[i].events = Generated(i)
  BY <1>1
<1>. QED
  BY <1>1, <1>5, <1>6

-----------------------------------------------------------------------------
(* STEPS THAT GENERATE NOTHING                                             *)

LEMMA RowReplaced ==
    ASSUME FeedType, NEW i \in DOMAIN batch, NEW r \in BatchRow, batch' = [batch EXCEPT ![i] = r]
    PROVE  /\ batch' \in Seq(BatchRow) /\ Len(batch') = Len(batch)
           /\ DOMAIN batch' = DOMAIN batch /\ batch'[i] = r
           /\ \A j \in DOMAIN batch : j # i => batch'[j] = batch[j]
<1>1. batch \in Seq(BatchRow)
  BY DEF FeedType
<1>. HIDE DEF BatchRow
<1>. QED
  BY <1>1

(* The history is kept if the current book and what was generated are.     *)
LEMMA HistoryKept ==
    ASSUME History(Current, LogNow), Current' = Current, DOMAIN batch' = DOMAIN batch,
           \A i \in DOMAIN batch :
             /\ batch'[i].universe = batch[i].universe /\ batch'[i].floor = batch[i].floor
             /\ Generated(i)' = Generated(i)
    PROVE  History(Current, LogNow)'
<1>1. LogNow' = LogNow
  BY DEF LogNow
<1>. QED
  BY <1>1

(* Nobody generates: what was generated is what the batches hold.          *)
LEMMA NobodyGenerates ==
    ASSUME FeedType, ~Generating
    PROVE  ~AtWork /\ \A i : Generated(i) = batch[i].events
BY DEF FeedType, Generating, AtWork, Generated

LEMMA NobodyGeneratesNext ==
    ASSUME FeedType, FeedType', \A s \in Sim : sim'[s].pc # "generating"
    PROVE  ~AtWork' /\ \A i : Generated(i)' = batch'[i].events
BY DEF FeedType, AtWork, Generated

LEMMA LandStep ==
    ASSUME FeedInv, NEW i \in DOMAIN batch, Land(i)
    PROVE  FeedInv'
<1>. DEFINE r == [batch[i] EXCEPT !.landed = loads + 1]
<1>1. FeedType /\ LockInv /\ GeneratorInv /\ History(Current, LogNow) /\ ~Generating
      /\ UNCHANGED <<today, book, lock, sim, builds>> /\ loads' = loads + 1 /\ loads \in Nat
      /\ batch' = [batch EXCEPT ![i] = r]
  BY DEF FeedInv, FeedType, Land
<1>2. /\ r \in BatchRow /\ r.universe = batch[i].universe /\ r.floor = batch[i].floor
      /\ r.events = batch[i].events /\ r.landed = loads + 1 /\ r.build = batch[i].build
  <2>1. batch[i] \in BatchRow /\ loads + 1 \in Nat
    BY <1>1, FeedFields
  <2>. QED
    BY <2>1 DEF BatchRow
<1>. HIDE DEF r
<1>3. /\ batch' \in Seq(BatchRow) /\ Len(batch') = Len(batch)
      /\ DOMAIN batch' = DOMAIN batch /\ batch'[i] = r
      /\ \A j \in DOMAIN batch : j # i => batch'[j] = batch[j]
  BY <1>1, <1>2, RowReplaced
<1>4. FeedType'
  <2>1. \A j \in DOMAIN batch : batch[j].landed \in Nat
    BY <1>1, FeedFields DEF BatchRow
  <2>2. \A j \in DOMAIN batch' : batch'[j].landed <= loads' /\ batch'[j].build <= builds'
    BY <1>1, <1>2, <1>3, <2>1 DEF FeedType
  <2>. QED
    BY <1>1, <1>3, <2>2 DEF FeedType
<1>5. LockInv' /\ GeneratorInv'
  BY <1>1 DEF LockInv, Holds, GeneratorInv, Generating
<1>6. History(Current, LogNow)'
  <2>1. Current' = Current /\ \A s \in Sim : sim'[s].pc # "generating"
    BY <1>1 DEF Current, Generating
  <2>2. \A j \in DOMAIN batch : Generated(j)' = Generated(j)
    BY <1>1, <1>2, <1>3, <1>4, <2>1, NobodyGenerates, NobodyGeneratesNext
  <2>. QED
    BY <1>1, <1>2, <1>3, <2>1, <2>2, HistoryKept
<1>. QED
  BY <1>4, <1>5, <1>6 DEF FeedInv

LEMMA ResetStep ==
    ASSUME FeedInv, ResetBook
    PROVE  FeedInv'
<1>1. FeedType /\ LockInv /\ GeneratorInv /\ History(Current, LogNow) /\ ~Generating
      /\ UNCHANGED <<today, lock, sim, batch, loads, builds>>
      /\ book' = EmptyBook(book.universe + 1) /\ book \in Book
  BY DEF FeedInv, FeedType, ResetBook
<1>2. book.universe \in Nat
  BY <1>1 DEF Book
<1>3. /\ book' \in Book /\ Allocated(book') /\ book'.universe = book.universe + 1
      /\ DOMAIN book'.trades = {}
  BY <1>1, <1>2, EmptyBookType
<1>4. FeedType' /\ LockInv' /\ GeneratorInv'
  BY <1>1, <1>3 DEF FeedType, LockInv, Holds, GeneratorInv
<1>5. LogNow' = LogNow
  BY <1>1 DEF LogNow, Generated, AtWork
<1>6. CASE lock = NoSim
  <2>1. Current = book /\ Current' = book'
    BY <1>1, <1>6 DEF Current
  <2>2. book.universe < book'.universe
    BY <1>2, <1>3
  <2>3. History(book', LogNow)
    BY <1>1, <1>3, <2>1, <2>2, LogNowType, HistoryRestarts
  <2>. QED
    BY <1>4, <1>5, <2>1, <2>3 DEF FeedInv
<1>7. CASE lock # NoSim
  <2>1. Current' = Current
    BY <1>1, <1>7 DEF Current
  <2>. QED
    BY <1>1, <1>4, <1>5, <2>1 DEF FeedInv
<1>. QED
  BY <1>6, <1>7

(* A simulator that was not generating goes on or goes to sleep.           *)
LEMMA SimMoves ==
    ASSUME FeedInv, NEW s \in Sim, NEW x \in SimState, ~Generating, sim[s].pc # "idle",
           sim' = [sim EXCEPT ![s] = x],
           \/ x = Asleep
           \/ x.pc = "loading" /\ x.b = sim[s].b /\ x.gen = sim[s].gen /\ s \in HoldsWhileLoading,
           IF lock = s /\ x = Asleep THEN Release(s) ELSE KeepLock,
           UNCHANGED <<today, loads, builds>>,
           batch' \in Seq(BatchRow), Len(batch') = Len(batch), DOMAIN batch' = DOMAIN batch,
           \A i \in DOMAIN batch :
             /\ batch'[i].universe = batch[i].universe /\ batch'[i].floor = batch[i].floor
             /\ batch'[i].events = batch[i].events
             /\ batch'[i].landed = batch[i].landed /\ batch'[i].build = batch[i].build
    PROVE  FeedInv'
<1>1. FeedType /\ LockInv /\ GeneratorInv /\ History(Current, LogNow)
  BY DEF FeedInv
<1>2. /\ sim' \in [Sim -> SimState] /\ sim'[s] = x /\ sim[s] \in SimState
      /\ \A y \in Sim : y # s => sim'[y] = sim[y]
  BY <1>1 DEF FeedType
<1>3. x.pc \in {"idle", "loading"} /\ x.b \in {0, sim[s].b} /\ (x = Asleep => x.pc = "idle")
      /\ (x.pc = "idle" => x = Asleep) /\ (x.pc # "idle" => x.b = sim[s].b)
  BY AsleepType
<1>4. \A y \in Sim : sim'[y].pc # "generating"
  BY <1>2, <1>3 DEF Generating
<1>5. /\ sim[s].gen.book \in Book /\ Allocated(sim[s].gen.book) /\ Allocated(x.gen.book)
      /\ sim[s].b \in Nat /\ sim[s].b <= Len(batch) /\ sim[s].b > 0 /\ Len(batch) \in Nat
  BY <1>1, FeedFields, AsleepType DEF FeedType, SimState
<1>6. /\ lock' \in {lock, NoSim} /\ book' \in {book, sim[s].gen.book}
      /\ \A i \in DOMAIN batch' : batch'[i].landed <= loads' /\ batch'[i].build <= builds'
  BY <1>1 DEF Release, KeepLock, FeedType
<1>7. \A y \in Sim : /\ sim'[y].b <= Len(batch') /\ (sim'[y].pc # "idle" => sim'[y].b > 0)
                     /\ Allocated(sim'[y].gen.book)
  BY <1>1, <1>2, <1>3, <1>5 DEF FeedType
<1>8. FeedType'
  BY <1>1, <1>2, <1>5, <1>6, <1>7 DEF FeedType
<1>9. LockInv'
  <2>1. NoSim \notin Sim /\ HoldsWhileLoading \subseteq HoldsWhileWriting
    BY SimAssumption
  <2>2. CASE x = Asleep
    <3>1. lock' = IF lock = s THEN NoSim ELSE lock
      BY <2>2 DEF Release, KeepLock
    <3>. QED
      BY <1>1, <1>2, <1>3, <2>1, <2>2, <3>1 DEF LockInv, Holds
  <2>3. CASE x.pc = "loading"
    <3>1. lock' = lock /\ s \in HoldsWhileLoading /\ sim[s].pc \in {"writing", "loading"}
      BY <1>2, <1>3, <2>3 DEF KeepLock, Generating, SimState
    <3>. QED
      BY <1>1, <1>2, <1>3, <2>1, <2>3, <3>1 DEF LockInv, Holds
  <2>. QED
    BY <2>2, <2>3
<1>10. GeneratorInv'
  BY <1>4 DEF GeneratorInv
<1>11. Current' = Current
  <2>1. NoSim \notin Sim
    BY SimAssumption
  <2>2. CASE lock = s /\ x = Asleep
    BY <2>1, <2>2 DEF Release, Current
  <2>3. CASE ~(lock = s /\ x = Asleep)
    <3>1. lock' = lock /\ book' = book
      BY <2>3 DEF KeepLock
    <3>2. lock = s => x.gen = sim[s].gen
      BY <2>3
    <3>. QED
      BY <1>1, <1>2, <2>1, <3>1, <3>2 DEF Current, FeedType
  <2>. QED
    BY <2>2, <2>3
<1>12. \A i \in DOMAIN batch : Generated(i)' = Generated(i)
  BY <1>1, <1>4, <1>8, NobodyGenerates, NobodyGeneratesNext
<1>13. History(Current, LogNow)'
  BY <1>1, <1>11, <1>12, HistoryKept
<1>. QED
  BY <1>8, <1>9, <1>10, <1>13 DEF FeedInv

LEMMA FieldRuleNames == \A p : FieldCodes(p) \subseteq Codes
BY DEF FieldCodes, FieldRule, Codes

LEMMA ExpectedCodes ==
    ASSUME NEW c \in Drawn
    PROVE  c.expected_rule_codes \subseteq Codes /\ "RJ001" \notin c.expected_rule_codes
<1>1. ASSUME NEW f \in Fault
      PROVE  FAULT_EXPECTATIONS[f] \subseteq Codes /\ "RJ001" \notin FAULT_EXPECTATIONS[f]
  BY DEF Fault, FAULT_EXPECTATIONS, Codes
<1>2. CASE c = NoFault
  BY <1>2 DEF NoFault
<1>3. ASSUME NEW f \in Faults, c \in Corruptions(f)
      PROVE  c.expected_rule_codes \subseteq Codes /\ "RJ001" \notin c.expected_rule_codes
  <2>1. PICK d \in Damage[f] :
          c = [damage |-> d, injected_fault |-> f, expected_rule_codes |-> CodesFor(f, d)]
    BY <1>3 DEF Corruptions
  <2>2. CodesFor(f, d) \in {{"RJ004"}, FAULT_EXPECTATIONS[f]}
    BY DEF CodesFor
  <2>3. f \in Fault
    BY GeneratorAssumption
  <2>. QED
    BY <1>1, <2>1, <2>2, <2>3 DEF Codes
<1>. QED
  BY <1>2, <1>3 DEF Drawn

LEMMA ExpectationType ==
    ASSUME NEW e \in Emitted
    PROVE  e.expected_verdict \in Verdict /\ e.expected_rule_codes \subseteq Codes
<1>1. PICK d \in Draft, c \in Drawn, known \in Nat : e = GeneratedEvent(d, c, known)
  BY DEF Emitted
<1>2. /\ e.expected_verdict \in {"ACCEPTED", "REJECTED"}
      /\ e.expected_rule_codes \in {{"RJ001"}, c.expected_rule_codes}
  BY <1>1 DEF GeneratedEvent
<1>. QED
  BY <1>2, ExpectedCodes DEF Verdict, Codes

LEMMA ManifestType ==
    ASSUME NEW events \in Seq(Emitted), NEW floor
    PROVE  BuildManifest(events, floor) \in Seq(Expectation)
<1>1. Len(events) \in Nat /\ DOMAIN events = 1..Len(events)
      /\ \A i \in DOMAIN events : events[i] \in Emitted
  BY DEF Emitted
<1>2. ASSUME NEW i \in DOMAIN events
      PROVE  /\ Settled(events, floor, i).expected_verdict \in Verdict
             /\ Settled(events, floor, i).expected_rule_codes \subseteq Codes
  <2>1. events[i] \in Emitted /\ events[i].expected_verdict \in Verdict
        /\ events[i].expected_rule_codes \subseteq Codes
    BY <1>1, ExpectationType
  <2>2. DOMAIN events[i] = {"draft", "damage", "injected_fault", "field_valid",
                            "expected_verdict", "expected_rule_codes"}
    BY <2>1 DEF Emitted, GeneratedEvent
  <2>. HIDE DEF Codes
  <2>3. {"RJ009"} \subseteq Codes
    BY DEF Codes
  <2>. QED
    BY <2>1, <2>2, <2>3 DEF Settled, Verdict
<1>3. BuildManifest(events, floor) \in [1..Len(events) -> Expectation]
  BY <1>1, <1>2 DEF BuildManifest, Expectation
<1>. QED
  BY <1>1, <1>3

LEMMA FieldCodesKnown ==
    ASSUME NEW e \in Emitted
    PROVE  e.damage \in DOMAIN CodesOf /\ CodesOf[e.damage] \subseteq Codes
<1>1. PICK d \in Draft, c \in Drawn, known \in Nat : e = GeneratedEvent(d, c, known)
  BY DEF Emitted
<1>2. e.damage = c.damage
  BY <1>1 DEF GeneratedEvent
<1>3. c.damage \in {NoDamage} \cup UNION {Damage[f] : f \in Faults}
  BY DEF Drawn, NoFault, Corruptions
<1>4. CodesOf[e.damage] = FieldCodes(Damaged(Payload, e.damage)) /\ e.damage \in DOMAIN CodesOf
  BY <1>2, <1>3 DEF CodesOf
<1>. QED
  BY <1>4, FieldRuleNames

LEMMA WriteStep ==
    ASSUME FeedInv, NEW s \in Sim, WriteFiles(s)
    PROVE  FeedInv'
<1>. DEFINE b == sim[s].b
            r == [batch[b] EXCEPT !.manifest = BuildManifest(batch[b].events, batch[b].floor)]
            x == IF s \in HoldsWhileLoading THEN [sim[s] EXCEPT !.pc = "loading"] ELSE Asleep
<1>1. FeedType /\ LockInv /\ ~Generating /\ sim[s].pc = "writing"
  BY DEF FeedInv, WriteFiles
<1>2. sim[s] \in SimState /\ b \in DOMAIN batch /\ batch[b] \in BatchRow
  BY <1>1, FeedFields DEF FeedType, SimState
<1>3. /\ r \in BatchRow /\ r.universe = batch[b].universe /\ r.floor = batch[b].floor
      /\ r.events = batch[b].events /\ r.landed = batch[b].landed /\ r.build = batch[b].build
  <2>1. BuildManifest(batch[b].events, batch[b].floor) \in Seq(Expectation)
    BY <1>2, ManifestType DEF BatchRow
  <2>. QED
    BY <1>2, <2>1 DEF BatchRow
<1>4. batch' = [batch EXCEPT ![b] = r]
  BY DEF WriteFiles
<1>5. /\ x \in SimState /\ sim' = [sim EXCEPT ![s] = x]
      /\ \/ x = Asleep
         \/ x.pc = "loading" /\ x.b = sim[s].b /\ x.gen = sim[s].gen /\ s \in HoldsWhileLoading
  BY <1>2, AsleepType DEF WriteFiles, SimState
<1>6. IF lock = s /\ x = Asleep THEN Release(s) ELSE KeepLock
  <2>1. (x = Asleep) <=> s \notin HoldsWhileLoading
    BY <1>2, AsleepType DEF SimState
  <2>2. lock = s <=> s \in HoldsWhileWriting
    BY <1>1 DEF LockInv, Holds
  <2>. HIDE DEF x
  <2>3. HoldsWhileLoading \subseteq HoldsWhileWriting
    BY SimAssumption
  <2>4. CASE s \in HoldsWhileLoading
    BY <2>1, <2>4 DEF WriteFiles
  <2>5. CASE s \notin HoldsWhileLoading
    BY <2>1, <2>2, <2>5 DEF WriteFiles
  <2>. QED
    BY <2>4, <2>5
<1>. HIDE DEF r, x, b
<1>7. /\ batch' \in Seq(BatchRow) /\ Len(batch') = Len(batch)
      /\ DOMAIN batch' = DOMAIN batch /\ batch'[b] = r
      /\ \A j \in DOMAIN batch : j # b => batch'[j] = batch[j]
  BY <1>1, <1>2, <1>3, <1>4, RowReplaced
<1>8. UNCHANGED <<today, loads, builds>>
  BY DEF WriteFiles
<1>9. \A i \in DOMAIN batch :
        /\ batch'[i].universe = batch[i].universe /\ batch'[i].floor = batch[i].floor
        /\ batch'[i].events = batch[i].events
        /\ batch'[i].landed = batch[i].landed /\ batch'[i].build = batch[i].build
  BY <1>3, <1>7
<1>. QED
  BY <1>1, <1>5, <1>6, <1>7, <1>8, <1>9, SimMoves

LEMMA SleepStep ==
    ASSUME FeedInv, NEW s \in Sim, FinishLoad(s) \/ Fail(s)
    PROVE  FeedInv'
<1>1. FeedType /\ LockInv /\ ~Generating /\ sim[s].pc \in {"writing", "loading"}
      /\ sim' = [sim EXCEPT ![s] = Asleep] /\ UNCHANGED <<today, batch, loads, builds>>
  BY DEF FeedInv, FinishLoad, Fail
<1>2. IF lock = s THEN Release(s) ELSE KeepLock
  <2>1. CASE FinishLoad(s)
    <3>1. lock = s /\ Release(s)
      BY <1>1, <2>1, SimAssumption DEF FinishLoad, LockInv, Holds
    <3>. QED
      BY <3>1
  <2>2. CASE Fail(s)
    BY <2>2 DEF Fail
  <2>. QED
    BY <2>1, <2>2
<1>3. batch \in Seq(BatchRow)
  BY <1>1 DEF FeedType
<1>4. IF lock = s /\ Asleep = Asleep THEN Release(s) ELSE KeepLock
  BY <1>2
<1>. HIDE DEF BatchRow
<1>. QED
  BY <1>1, <1>3, <1>4, AsleepType, SimMoves

(* The batch is complete: what was generated is now in it.                 *)
LEMMA FinishStep ==
    ASSUME FeedInv, NEW s \in Sim, FinishBatch(s)
    PROVE  FeedInv'
<1>. DEFINE b == sim[s].b
            r == [batch[b] EXCEPT !.events = sim[s].gen.events]
            x == [sim[s] EXCEPT !.pc = "writing", !.gen.events = <<>>]
<1>1. FeedType /\ LockInv /\ GeneratorInv /\ History(Current, LogNow)
      /\ sim[s].pc = "generating" /\ UNCHANGED <<today, loads, builds>>
      /\ batch' = [batch EXCEPT ![b] = r] /\ sim' = [sim EXCEPT ![s] = x]
      /\ IF s \in HoldsWhileWriting THEN KeepLock ELSE Release(s)
  BY DEF FeedInv, FinishBatch
<1>2. /\ sim[s] \in SimState /\ sim[s].gen \in Generator /\ b \in DOMAIN batch
      /\ batch[b] \in BatchRow /\ b = Len(batch) /\ lock = s /\ Len(batch) \in Nat
  BY <1>1, FeedFields DEF FeedType, GeneratorInv, LockInv, Holds
<1>3. /\ r \in BatchRow /\ r.universe = batch[b].universe /\ r.floor = batch[b].floor
      /\ r.events = sim[s].gen.events /\ r.landed = batch[b].landed /\ r.build = batch[b].build
  BY <1>2 DEF BatchRow, Generator
<1>4. /\ x \in SimState /\ x.pc = "writing" /\ x.b = b /\ x.gen.book = sim[s].gen.book
  <2>1. [sim[s].gen EXCEPT !.events = <<>>] \in Generator
    <3>1. <<>> \in Seq(Emitted)
      OBVIOUS
    <3>. QED
      BY <1>2, <3>1 DEF Generator
  <2>. QED
    BY <1>2, <2>1 DEF SimState, Generator
<1>. HIDE DEF r, x
<1>5. /\ batch' \in Seq(BatchRow) /\ Len(batch') = Len(batch)
      /\ DOMAIN batch' = DOMAIN batch /\ batch'[b] = r
      /\ \A j \in DOMAIN batch : j # b => batch'[j] = batch[j]
  BY <1>1, <1>2, <1>3, RowReplaced
<1>6. /\ sim' \in [Sim -> SimState] /\ sim'[s] = x
      /\ \A y \in Sim : y # s => sim'[y] = sim[y]
  BY <1>1, <1>4 DEF FeedType
<1>7. \A y \in Sim : sim'[y].pc # "generating"
  BY <1>1, <1>2, <1>4, <1>6 DEF LockInv, Holds
<1>8. FeedType'
  <2>1. \A i \in DOMAIN batch' : batch'[i].landed <= loads' /\ batch'[i].build <= builds'
    BY <1>1, <1>3, <1>5 DEF FeedType
  <2>2. \A y \in Sim : /\ sim'[y].b <= Len(batch') /\ (sim'[y].pc # "idle" => sim'[y].b > 0)
                       /\ Allocated(sim'[y].gen.book)
    BY <1>1, <1>2, <1>4, <1>5, <1>6 DEF FeedType
  <2>3. lock' \in Sim \cup {NoSim} /\ book' \in Book /\ Allocated(book')
    BY <1>1, <1>2, FeedFields DEF FeedType, Release, KeepLock
  <2>. QED
    BY <1>1, <1>5, <1>6, <2>1, <2>2, <2>3 DEF FeedType
<1>9. LockInv'
  <2>1. lock' = IF s \in HoldsWhileWriting THEN s ELSE NoSim
    BY <1>1, <1>2 DEF Release, KeepLock
  <2>. QED
    BY <1>1, <1>2, <1>4, <1>6, <2>1, SimAssumption DEF LockInv, Holds
<1>10. GeneratorInv'
  BY <1>7 DEF GeneratorInv
<1>11. Current' = Current
  BY <1>1, <1>2, <1>4, <1>6, SimAssumption DEF Current, Release, KeepLock
<1>12. \A i \in DOMAIN batch : Generated(i)' = Generated(i)
  <2>1. AtWork
    BY <1>1, <1>2, SimAssumption DEF AtWork
  <2>2. \A i \in DOMAIN batch :
          Generated(i) = IF i = b THEN sim[s].gen.events ELSE batch[i].events
    BY <1>2, <2>1 DEF Generated
  <2>3. \A i : Generated(i)' = batch'[i].events
    BY <1>1, <1>7, <1>8, NobodyGeneratesNext
  <2>. QED
    BY <1>3, <1>5, <2>2, <2>3
<1>13. History(Current, LogNow)'
  BY <1>1, <1>3, <1>5, <1>11, <1>12, HistoryKept
<1>. QED
  BY <1>8, <1>9, <1>10, <1>13 DEF FeedInv

-----------------------------------------------------------------------------
(* STEPS OF A GENERATOR                                                    *)

LEMMA AcquireStep ==
    ASSUME FeedInv, NEW s \in Sim, Acquire(s)
    PROVE  FeedInv'
<1>. DEFINE m == Len(batch) + 1
            g == StartGenerator(book, today')
            r == NewBatch(book.universe, g)
            x == [pc |-> "generating", b |-> m, gen |-> g]
<1>1. FeedType /\ LockInv /\ History(Current, LogNow) /\ ~Generating
      /\ lock = NoSim /\ lock' = s /\ UNCHANGED <<book, loads, builds>>
      /\ today' \in today..MaxDay /\ sim' = [sim EXCEPT ![s] = x] /\ batch' = Append(batch, r)
  BY DEF FeedInv, Acquire
<1>2. /\ today' \in 0..MaxDay /\ today' \in Nat /\ book \in Book /\ Allocated(book)
      /\ book.universe \in Nat /\ loads \in Nat /\ builds \in Nat
  BY <1>1, SimAssumption DEF FeedType, Book
<1>3. /\ g \in Generator /\ SoundGenerator(g) /\ g.book = book /\ g.events = <<>>
      /\ DOMAIN g.floor = DOMAIN book.trades /\ Allocated(g.book)
      /\ \A t \in DOMAIN book.trades : g.floor[t] = book.trades[t].trade_version
  BY <1>2, StartType
<1>. HIDE DEF g
<1>4. r \in BatchRow
  <2>1. /\ <<>> \in Seq(Emitted) /\ <<>> \in Seq(Expectation) /\ <<>> \in Seq(Decision)
    OBVIOUS
  <2>2. g.as_of \in Nat /\ g.floor \in Floor
    BY <1>3 DEF Generator
  <2>. QED
    BY <1>2, <2>1, <2>2 DEF NewBatch, BatchRow
<1>5. /\ r.universe = book.universe /\ r.floor = g.floor /\ r.events = <<>>
      /\ r.manifest = <<>> /\ r.landed = 0 /\ r.build = 0
  BY DEF NewBatch
<1>. HIDE DEF r
<1>6. /\ batch \in Seq(BatchRow) /\ Len(batch) \in Nat /\ DOMAIN batch = 1..Len(batch)
  BY <1>1, FeedFields DEF FeedType
<1>7. /\ batch' \in Seq(BatchRow) /\ Len(batch') = m /\ DOMAIN batch' = 1..m /\ batch'[m] = r
      /\ \A j \in DOMAIN batch : batch'[j] = batch[j]
  <2>. HIDE DEF BatchRow
  <2>. QED
    BY <1>1, <1>4, <1>6
<1>8. x \in SimState
  BY <1>3, <1>6 DEF SimState
<1>9. /\ sim' \in [Sim -> SimState] /\ sim'[s] = x
      /\ \A y \in Sim : y # s => sim'[y] = sim[y]
  BY <1>1, <1>8 DEF FeedType
<1>10. FeedType'
  <2>1. \A i \in DOMAIN batch' : batch'[i].landed <= loads' /\ batch'[i].build <= builds'
    BY <1>1, <1>2, <1>5, <1>6, <1>7 DEF FeedType
  <2>2. \A y \in Sim : sim[y].b \in Nat
    BY <1>1, FeedFields DEF SimState
  <2>3. \A y \in Sim : /\ sim'[y].b <= Len(batch') /\ (sim'[y].pc # "idle" => sim'[y].b > 0)
                       /\ Allocated(sim'[y].gen.book)
    BY <1>1, <1>3, <1>6, <1>7, <1>9, <2>2 DEF FeedType
  <2>. QED
    BY <1>1, <1>2, <1>7, <1>9, <2>1, <2>3 DEF FeedType
<1>11. LockInv'
  <2>1. \A y \in Sim : ~Holds(y)
    BY <1>1, SimAssumption DEF LockInv
  <2>2. \A y \in Sim : Holds(y)' <=> y = s
    BY <1>9, <2>1 DEF Holds
  <2>3. \A y \in Sim : sim'[y].pc = "loading" => y \in HoldsWhileLoading
    BY <1>1, <1>9 DEF LockInv
  <2>. QED
    BY <1>1, <2>2, <2>3 DEF LockInv
<1>12. GeneratorInv'
  <2>1. \A y \in Sim : sim'[y].pc = "generating" => y = s
    BY <1>1, <1>9 DEF Generating
  <2>2. /\ m \in DOMAIN batch' /\ sim'[s].b = m /\ sim'[s].gen = g
    BY <1>6, <1>7, <1>9
  <2>. QED
    BY <1>3, <1>5, <1>7, <2>1, <2>2 DEF GeneratorInv
<1>13. History(Current, LogNow)'
  <2>1. Current = book /\ Current' = book /\ AtWork'
    BY <1>1, <1>3, <1>9, SimAssumption DEF Current, AtWork
  <2>2. /\ LogNow \in Log /\ DOMAIN LogNow = DOMAIN batch
        /\ \A i \in DOMAIN batch :
             /\ LogNow[i].universe = batch[i].universe /\ LogNow[i].floor = batch[i].floor
             /\ LogNow[i].events = batch[i].events
    BY <1>1, LogNowType, NobodyGenerates
  <2>3. \A i \in DOMAIN batch' :
          LogNow'[i] = [universe |-> batch'[i].universe, floor |-> batch'[i].floor,
                        events |-> Generated(i)']
    BY DEF LogNow
  <2>4. \A i : Generated(i)' = IF i = m THEN <<>> ELSE batch'[i].events
    <3>1. lock' = s /\ sim'[s].gen.events = <<>> /\ Len(batch') = m
      BY <1>1, <1>3, <1>7, <1>9
    <3>. QED
      BY <2>1, <3>1 DEF Generated
  <2>5. \A i \in DOMAIN batch : i \in Nat /\ i < m /\ LogNow'[i] = LogNow[i]
    <3>1. \A i \in DOMAIN batch : i \in Nat /\ i < m /\ i # m /\ i \in DOMAIN batch'
      BY <1>6, <1>7
    <3>2. \A i \in DOMAIN batch : Generated(i) = batch[i].events
      BY <1>1, NobodyGenerates
    <3>. QED
      BY <1>7, <2>3, <2>4, <3>1, <3>2 DEF LogNow
  <2>6. DOMAIN LogNow' = DOMAIN LogNow \cup {m} /\ m \in Nat /\ m \notin DOMAIN LogNow
    BY <1>6, <1>7, <2>2 DEF LogNow
  <2>7. Opened(LogNow, LogNow', m, book)
    <3>1. m \in DOMAIN batch'
      BY <1>6, <1>7
    <3>2. LogNow'[m] = [universe |-> book.universe, floor |-> g.floor, events |-> <<>>]
      BY <1>5, <1>7, <2>3, <2>4, <3>1
    <3>3. DOMAIN LogNow'[m].events = {}
      BY <3>2
    <3>. QED
      BY <1>3, <2>2, <2>5, <2>6, <3>2, <3>3 DEF Opened
  <2>. QED
    BY <1>1, <1>2, <2>1, <2>2, <2>7, HistoryOpens
<1>. QED
  BY <1>10, <1>11, <1>12, <1>13 DEF FeedInv

LEMMA OneMore ==
    ASSUME NEW S, NEW q \in Seq(S), NEW e \in S, NEW r, r = Append(q, e), NEW l, l = Len(q) + 1
    PROVE  /\ l \in Nat /\ l > 0 /\ DOMAIN q = 1..(l - 1) /\ DOMAIN r = 1..l
           /\ r[l] = e /\ \A k \in DOMAIN q : r[k] = q[k]
OBVIOUS

LEMMA GenerateStep ==
    ASSUME FeedInv, NEW s \in Sim, Generate(s)
    PROVE  FeedInv'
<1>. DEFINE g == sim[s].gen
            m == Len(batch)
            l == Len(g.events) + 1
<1>1. FeedType /\ LockInv /\ GeneratorInv /\ History(Current, LogNow)
      /\ sim[s].pc = "generating" /\ UNCHANGED <<today, book, lock, batch, loads, builds>>
  BY DEF FeedInv, Generate
<1>2. PICK d \in Drafts(g) : d.trade_id \in Trade /\ \E c \in Drawn :
         sim' = [sim EXCEPT ![s].gen = Emit(g, d, c)]
  BY DEF Generate, Drawn
<1>3. PICK c \in Drawn : sim' = [sim EXCEPT ![s].gen = Emit(g, d, c)]
  BY <1>2
<1>. DEFINE next == Emit(g, d, c)
            e == GeneratedEvent(d, c, Known(next.book, d.trade_id))
            x == [sim[s] EXCEPT !.gen = next]
<1>4. /\ sim[s] \in SimState /\ g \in Generator /\ g.book \in Book /\ lock = s
      /\ m \in Nat /\ m \in DOMAIN batch /\ sim[s].b = m /\ SoundGenerator(g)
      /\ DOMAIN batch = 1..m /\ batch[m].universe = g.book.universe /\ batch[m].floor = g.floor
  BY <1>1, FeedFields DEF GeneratorInv, LockInv, Holds
<1>5. d \in Draft /\ Allowed(g.book, d)
  BY <1>2, <1>4, DraftsAllowed
<1>6. /\ next \in Generator /\ SoundGenerator(next)
      /\ next.book = BookAfter(g.book, d, c.injected_fault)
      /\ next.floor = g.floor /\ Known(next.book, d.trade_id) \in Nat
      /\ next.events = Append(g.events, e)
  <2>. HIDE DEF g, next
  <2>. QED
    BY <1>4, <1>5, GeneratorStep DEF next
<1>7. EventBetween(g.book, next.book, e)
  <2>1. Allocated(g.book)
    BY <1>4 DEF SoundGenerator
  <2>2. Emission(g.book, next.book, d, c, e)
    BY <1>4, <1>5, <1>6, <2>1 DEF Emission
  <2>. QED
    BY <2>2, EmissionFacts
<1>8. x \in SimState /\ x.pc = "generating" /\ x.b = m /\ x.gen = next /\ sim' = [sim EXCEPT ![s] = x]
  <2>. HIDE DEF g, next
  <2>1. x \in SimState /\ x.pc = "generating" /\ x.b = m /\ x.gen = next
    BY <1>1, <1>4, <1>6 DEF SimState
  <2>2. sim' = [sim EXCEPT ![s].gen = next]
    BY <1>3 DEF next
  <2>. QED
    BY <2>1, <2>2
<1>. HIDE DEF next, e, x
<1>9. /\ sim' \in [Sim -> SimState] /\ sim'[s] = x
      /\ \A y \in Sim : y # s => sim'[y] = sim[y]
  BY <1>1, <1>8 DEF FeedType
<1>10. \A y \in Sim : sim'[y].pc = sim[y].pc /\ sim'[y].b = sim[y].b
  BY <1>1, <1>4, <1>8, <1>9
<1>11. FeedType'
  <2>1. Allocated(next.book)
    BY <1>6 DEF SoundGenerator
  <2>2. \A y \in Sim : /\ sim'[y].b <= Len(batch') /\ (sim'[y].pc # "idle" => sim'[y].b > 0)
                       /\ Allocated(sim'[y].gen.book)
    BY <1>1, <1>8, <1>9, <1>10, <2>1 DEF FeedType
  <2>. QED
    BY <1>1, <1>9, <2>2 DEF FeedType
<1>12. LockInv'
  BY <1>1, <1>10 DEF LockInv, Holds
<1>13. GeneratorInv'
  <2>1. \A y \in Sim : sim'[y].pc = "generating" => y = s
    BY <1>1, <1>4, <1>10 DEF LockInv, Holds
  <2>2. sim'[s].gen = next /\ sim'[s].gen.book.universe = g.book.universe
    BY <1>7, <1>8, <1>9 DEF EventBetween
  <2>3. /\ batch[m].events = <<>> /\ batch[m].manifest = <<>> /\ batch[m].landed = 0
        /\ batch[m].build = 0
    BY <1>1 DEF GeneratorInv
  <2>. QED
    BY <1>1, <1>4, <1>6, <1>10, <2>1, <2>2, <2>3 DEF GeneratorInv
<1>14. History(Current, LogNow)'
  <2>1. /\ Current = g.book /\ Current' = next.book
        /\ \A i : Generated(i) = IF i = m THEN g.events ELSE batch[i].events
        /\ \A i : Generated(i)' = IF i = m THEN next.events ELSE batch[i].events
    BY <1>1, <1>4, <1>8, <1>9, SimAssumption DEF Current, AtWork, Generated
  <2>2. /\ LogNow \in Log /\ DOMAIN LogNow = DOMAIN batch
        /\ \A i \in DOMAIN batch :
             /\ LogNow[i].universe = batch[i].universe /\ LogNow[i].floor = batch[i].floor
             /\ LogNow[i].events = Generated(i)
    BY <1>1, LogNowType
  <2>3. /\ DOMAIN LogNow' = DOMAIN batch
        /\ \A i \in DOMAIN batch :
             /\ LogNow'[i].universe = batch[i].universe /\ LogNow'[i].floor = batch[i].floor
             /\ LogNow'[i].events = Generated(i)'
    BY <1>1 DEF LogNow
  <2>4. /\ g.events \in Seq(Emitted) /\ e \in Emitted
    BY <1>4, <1>7 DEF Generator, EventBetween
  <2>5. /\ l \in Nat /\ l > 0 /\ DOMAIN g.events = 1..(l - 1) /\ DOMAIN next.events = 1..l
        /\ next.events[l] = e /\ \A k \in DOMAIN g.events : next.events[k] = g.events[k]
    <3>. HIDE DEF g
    <3>1. l = Len(g.events) + 1 /\ next.events = Append(g.events, e)
      BY <1>6
    <3>. HIDE DEF l
    <3>. QED
      BY <2>4, <3>1, OneMore
  <2>. HIDE DEF l, m, g
  <2>6. Grown(LogNow, LogNow', m, l, e)
    <3>1. \A i \in DOMAIN batch : i \in Nat /\ i <= m /\ \A k \in DOMAIN LogNow[i].events : k \in Nat
      BY <1>4, <2>2, LogType
    <3>2. \A i \in DOMAIN batch : i # m => LogNow'[i].events = LogNow[i].events
      BY <2>1, <2>2, <2>3
    <3>3. LogNow[m].events = g.events /\ LogNow'[m].events = next.events
      BY <1>4, <2>1, <2>2, <2>3
    <3>4. \A k \in DOMAIN g.events : k \in DOMAIN next.events /\ k < l /\ k \in Nat
      BY <2>5
    <3>5. \A k \in DOMAIN next.events : k \in DOMAIN g.events \/ k = l
      <4>1. 1..l = 1..(l - 1) \cup {l}
        BY <2>5
      <4>. QED
        BY <2>5, <4>1
    <3>6. l \in DOMAIN next.events
      BY <2>5
    <3>. QED
      BY <1>4, <2>2, <2>3, <2>5, <3>1, <3>2, <3>3, <3>4, <3>5, <3>6 DEF Grown
  <2>7. /\ LogNow[m].universe = g.book.universe
        /\ \A t \in DOMAIN LogNow[m].floor :
             t \in DOMAIN g.book.trades /\ LogNow[m].floor[t] <= g.book.trades[t].trade_version
    BY <1>4, <2>2 DEF SoundGenerator, Known
  <2>. QED
    BY <1>1, <1>7, <2>1, <2>2, <2>6, <2>7, HistoryGrows
<1>. QED
  BY <1>11, <1>12, <1>13, <1>14 DEF FeedInv

-----------------------------------------------------------------------------
(* THE WAREHOUSE AND THE SPECIFICATION                                     *)

LEMMA FieldRulesType ==
    ASSUME NEW e \in Emitted, NEW date
    PROVE  FieldRulesFired(e, date) \subseteq Codes
<1>1. "RJ003" \in Codes /\ CodesOf[e.damage] \subseteq Codes
  BY FieldCodesKnown DEF Codes
<1>. QED
  BY <1>1 DEF FieldRulesFired

LEMMA StateRulesType ==
    ASSUME NEW valid, NEW prior, NEW r
    PROVE  /\ StateRulesFired(valid, prior, r) \subseteq Codes
           /\ VerdictOn(valid, prior, r) \in Verdict
<1>1. StateRule \subseteq Codes
  BY DEF StateRule, Codes
<1>2. StateRulesFired(valid, prior, r) \subseteq StateRule
  BY DEF StateRulesFired
<1>3. VerdictOn(valid, prior, r) \in Verdict
  BY DEF VerdictOn, Verdict
<1>. QED
  BY <1>1, <1>2, <1>3

(* What the build leaves of a batch.                                       *)
LEMMA BuiltRow ==
    ASSUME FeedType, Build, NEW i \in DOMAIN batch
    PROVE  /\ batch'[i] \in BatchRow /\ batch'[i].universe = batch[i].universe
           /\ batch'[i].floor = batch[i].floor /\ batch'[i].events = batch[i].events
           /\ batch'[i].manifest = batch[i].manifest /\ batch'[i].landed = batch[i].landed
           /\ i \in Pending => batch'[i].build = builds + 1
           /\ i \notin Pending => batch'[i] = batch[i]
<1>. DEFINE valid == {r \in RowsOf(Pending) : IsFieldValid(r, today')}
            decide(k) == [verdict |-> VerdictOn(valid, AcceptedRows, Row(i, k)),
                          codes |-> FieldRulesFired(batch[i].events[k], today')
                                      \cup StateRulesFired(valid, AcceptedRows, Row(i, k))]
            verdicts == [k \in DOMAIN batch[i].events |->
                           IF k \in RowIndexes(i) THEN decide(k)
                           ELSE [verdict |-> "none", codes |-> {}]]
<1>1. batch'[i] = IF i \in Pending
                    THEN [batch[i] EXCEPT !.build = builds + 1, !.built_on = today',
                                          !.verdicts = verdicts]
                    ELSE batch[i]
  BY DEF Build
<1>2. batch[i] \in BatchRow
  BY FeedFields
<1>3. batch[i].events \in Seq(Emitted)
  BY <1>2 DEF BatchRow
<1>4. DOMAIN batch[i].events = 1..Len(batch[i].events) /\ Len(batch[i].events) \in Nat
      /\ \A k \in DOMAIN batch[i].events : batch[i].events[k] \in Emitted
  <2>. HIDE DEF Emitted
  <2>. QED
    BY <1>3
<1>5. \A k \in DOMAIN batch[i].events : decide(k) \in Decision
  <2>1. SUFFICES ASSUME NEW k \in DOMAIN batch[i].events PROVE decide(k) \in Decision
    OBVIOUS
  <2>2. /\ FieldRulesFired(batch[i].events[k], today') \subseteq Codes
        /\ StateRulesFired(valid, AcceptedRows, Row(i, k)) \subseteq Codes
        /\ VerdictOn(valid, AcceptedRows, Row(i, k)) \in Verdict
    <3>. HIDE DEF valid
    <3>. QED
      BY <1>4, FieldRulesType, StateRulesType
  <2>. HIDE DEF valid
  <2>. QED
    BY <2>2 DEF Decision
<1>6. verdicts \in Seq(Decision)
  <2>1. [verdict |-> "none", codes |-> {}] \in Decision
    BY DEF Decision
  <2>. HIDE DEF decide
  <2>2. verdicts \in [1..Len(batch[i].events) -> Decision]
    BY <1>4, <1>5, <2>1
  <2>. HIDE DEF verdicts, Decision
  <2>. QED
    BY <1>4, <2>2
<1>. HIDE DEF verdicts
<1>7. CASE i \in Pending
  <2>1. builds + 1 \in Nat /\ today' \in Nat
    <3>1. today' \in today..MaxDay
      BY DEF Build
    <3>. QED
      BY <3>1, SimAssumption DEF FeedType
  <2>. QED
    BY <1>1, <1>2, <1>6, <1>7, <2>1 DEF BatchRow
<1>8. CASE i \notin Pending
  BY <1>1, <1>2, <1>8
<1>. QED
  BY <1>7, <1>8

LEMMA BuildStep ==
    ASSUME FeedInv, Build
    PROVE  FeedInv'
<1>1. FeedType /\ LockInv /\ GeneratorInv /\ History(Current, LogNow) /\ ~Generating
      /\ UNCHANGED <<book, lock, sim, loads>> /\ builds' = builds + 1 /\ builds \in Nat
      /\ today' \in today..MaxDay /\ today \in 0..MaxDay
  BY DEF FeedInv, FeedType, Build
<1>2. \A i \in DOMAIN batch :
        /\ batch'[i] \in BatchRow /\ batch'[i].universe = batch[i].universe
        /\ batch'[i].floor = batch[i].floor /\ batch'[i].events = batch[i].events
        /\ batch'[i].landed = batch[i].landed
        /\ i \in Pending => batch'[i].build = builds + 1
        /\ i \notin Pending => batch'[i] = batch[i]
  BY <1>1, BuiltRow
<1>3. /\ batch' \in Seq(BatchRow) /\ Len(batch') = Len(batch) /\ DOMAIN batch' = DOMAIN batch
  <2>1. DOMAIN batch' = DOMAIN batch /\ batch' = [i \in DOMAIN batch |-> batch'[i]]
    BY DEF Build
  <2>2. batch' \in [1..Len(batch) -> BatchRow] /\ Len(batch) \in Nat
    BY <1>1, <1>2, <2>1, FeedFields
  <2>. HIDE DEF BatchRow
  <2>. QED
    BY <1>1, <2>1, <2>2, FeedFields
<1>4. FeedType'
  <2>1. today' \in 0..MaxDay
    BY <1>1, SimAssumption
  <2>2. \A i \in DOMAIN batch : batch[i].build \in Nat
    BY <1>1, FeedFields DEF BatchRow
  <2>3. \A i \in DOMAIN batch' : batch'[i].landed <= loads' /\ batch'[i].build <= builds'
    BY <1>1, <1>2, <1>3, <2>2 DEF FeedType
  <2>. QED
    BY <1>1, <1>3, <2>1, <2>3 DEF FeedType
<1>5. LockInv' /\ GeneratorInv'
  BY <1>1 DEF LockInv, Holds, GeneratorInv, Generating
<1>6. History(Current, LogNow)'
  <2>1. Current' = Current /\ \A s \in Sim : sim'[s].pc # "generating"
    BY <1>1 DEF Current, Generating
  <2>2. \A j \in DOMAIN batch : Generated(j)' = Generated(j)
    BY <1>1, <1>2, <1>4, <2>1, NobodyGenerates, NobodyGeneratesNext
  <2>. QED
    BY <1>1, <1>2, <1>3, <2>1, <2>2, HistoryKept
<1>. QED
  BY <1>4, <1>5, <1>6 DEF FeedInv

LEMMA FeedStep == FeedInv /\ [Next]_vars => FeedInv'
<1>. SUFFICES ASSUME FeedInv, [Next]_vars PROVE FeedInv'
  OBVIOUS
<1>1. ASSUME NEW s \in Sim, Acquire(s) PROVE FeedInv'
  BY <1>1, AcquireStep
<1>2. ASSUME NEW s \in Sim, Generate(s) PROVE FeedInv'
  BY <1>2, GenerateStep
<1>3. ASSUME NEW s \in Sim, FinishBatch(s) PROVE FeedInv'
  BY <1>3, FinishStep
<1>4. ASSUME NEW s \in Sim, WriteFiles(s) PROVE FeedInv'
  BY <1>4, WriteStep
<1>5. ASSUME NEW s \in Sim, FinishLoad(s) \/ Fail(s) PROVE FeedInv'
  BY <1>5, SleepStep
<1>6. CASE ResetBook
  BY <1>6, ResetStep
<1>7. CASE Build
  BY <1>7, BuildStep
<1>8. ASSUME NEW i \in DOMAIN batch, Land(i) PROVE FeedInv'
  BY <1>8, LandStep
<1>9. CASE UNCHANGED vars
  BY <1>9 DEF vars, FeedInv, FeedType, LockInv, Holds, GeneratorInv, Current, LogNow, Generated,
              AtWork
<1>. QED
  BY <1>1, <1>2, <1>3, <1>4, <1>5, <1>6, <1>7, <1>8, <1>9 DEF Next

(* The invariant that the rest stands on: who holds the lock and its reads,*)
(* what the saved and the live generator are worth, and that the book is   *)
(* what the events generated so far made of it.                            *)
THEOREM FeedInvariant == Spec => []FeedInv
BY FeedInit, FeedStep, PTL DEF Spec

-----------------------------------------------------------------------------
(* WHAT THE RUN CHECKS                                                     *)

(* The lock has a holder only while one is at work, the book names trades  *)
(* only, and no batch is landed or built before it was counted.            *)
THEOREM FeedTypeCorrect == Spec => []TypeOK
<1>1. ASSUME FeedInv PROVE TypeOK
  <2>1. FeedType /\ LockInv
    BY <1>1 DEF FeedInv
  <2>2. \A s \in Sim : lock = s => sim[s].pc # "idle"
    BY <2>1 DEF LockInv, Holds
  <2>3. DOMAIN book.trades \subseteq Trade /\ book.next_sequence \in Nat
    BY <2>1, EntriesOf DEF FeedType, Book, Identifier
  <2>4. \A s \in Sim : /\ sim[s].pc \in {"idle", "generating", "writing", "loading"}
                       /\ sim[s].b \in 0..Len(batch)
    BY <2>1, FeedFields DEF FeedType, SimState
  <2>5. ASSUME NEW i \in DOMAIN batch
        PROVE  batch[i].landed \in 0..loads /\ batch[i].build \in 0..builds
    <3>1. batch[i].landed \in Nat /\ batch[i].build \in Nat
      BY <2>1, FeedFields DEF BatchRow
    <3>. QED
      BY <2>1, <3>1 DEF FeedType
  <2>. QED
    BY <2>1, <2>2, <2>3, <2>4, <2>5 DEF TypeOK, FeedType
<1>. QED
  BY <1>1, FeedInvariant, PTL

(* What a batch holds is what was generated for it, or nothing yet.        *)
LEMMA EventsGenerated ==
    ASSUME FeedInv, NEW i \in DOMAIN batch, NEW k \in DOMAIN batch[i].events
    PROVE  /\ i \in DOMAIN LogNow /\ LogNow[i].universe = batch[i].universe
           /\ k \in DOMAIN LogNow[i].events /\ LogNow[i].events = batch[i].events
<1>1. FeedType /\ LockInv /\ GeneratorInv
  BY DEF FeedInv
<1>2. ~(AtWork /\ i = Len(batch))
  <2>1. ASSUME AtWork, i = Len(batch) PROVE FALSE
    <3>1. lock \in Sim /\ sim[lock].pc = "generating"
      BY <1>1, <2>1 DEF FeedType, AtWork
    <3>2. batch[i].events = <<>>
      BY <1>1, <2>1, <3>1 DEF GeneratorInv
    <3>. QED
      BY <3>2
  <2>. QED
    BY <2>1
<1>3. Generated(i) = batch[i].events
  BY <1>2 DEF Generated
<1>. QED
  BY <1>1, <1>3, LogNowType

(* For any number of simulators on one book: an identifier is allocated    *)
(* once, and no two events that take a version of a trade take the same,   *)
(* whatever fails and however often the book is reset.                     *)
THEOREM IdentifiersMintedOnce == Spec => []MintedOnce
<1>1. ASSUME FeedInv PROVE MintedOnce
  <2>1. FeedType /\ Ordered(LogNow)
    BY <1>1 DEF FeedInv, History
  <2>2. SUFFICES ASSUME NEW i \in DOMAIN batch, NEW j \in DOMAIN batch,
                        NEW k \in DOMAIN batch[i].events, NEW n \in DOMAIN batch[j].events,
                        <<i, k>> # <<j, n>>, batch[i].universe = batch[j].universe,
                        batch[i].events[k].draft.trade_id = batch[j].events[n].draft.trade_id
                 PROVE  Distinct(batch[i].events[k], batch[j].events[n])
    BY DEF MintedOnce, Distinct
  <2>3. /\ i \in DOMAIN LogNow /\ LogNow[i].universe = batch[i].universe
        /\ k \in DOMAIN LogNow[i].events /\ LogNow[i].events = batch[i].events
    BY <1>1, EventsGenerated
  <2>4. /\ j \in DOMAIN LogNow /\ LogNow[j].universe = batch[j].universe
        /\ n \in DOMAIN LogNow[j].events /\ LogNow[j].events = batch[j].events
    BY <1>1, EventsGenerated
  <2>5. i \in Nat /\ j \in Nat /\ k \in Nat /\ n \in Nat
    BY <2>1, <2>3, <2>4, LogNowType, LogType
  <2>6. CASE i < j \/ (i = j /\ k < n)
    BY <2>1, <2>2, <2>3, <2>4, <2>6 DEF Ordered
  <2>7. CASE j < i \/ (j = i /\ n < k)
    <3>1. Distinct(batch[j].events[n], batch[i].events[k])
      BY <2>1, <2>2, <2>3, <2>4, <2>7 DEF Ordered
    <3>. QED
      BY <3>1 DEF Distinct
  <2>. QED
    BY <2>2, <2>5, <2>6, <2>7
<1>. QED
  BY <1>1, FeedInvariant, PTL

(* For any number of simulators on one book: an event of a trade is stamped*)
(* after every event of the trade generated before it.                     *)
THEOREM BusinessTimeAdvances == Spec => []BusinessTimeRuns
<1>1. ASSUME FeedInv PROVE BusinessTimeRuns
  <2>1. Ordered(LogNow)
    BY <1>1 DEF FeedInv, History
  <2>2. ASSUME NEW i \in DOMAIN batch, NEW j \in DOMAIN batch,
               NEW k \in DOMAIN batch[i].events, NEW n \in DOMAIN batch[j].events,
               i < j \/ (i = j /\ k < n), batch[i].universe = batch[j].universe,
               batch[i].events[k].draft.trade_id = batch[j].events[n].draft.trade_id
        PROVE  batch[i].events[k].draft.effective_event_ts
                 < batch[j].events[n].draft.effective_event_ts
    <3>1. /\ i \in DOMAIN LogNow /\ LogNow[i].universe = batch[i].universe
          /\ k \in DOMAIN LogNow[i].events /\ LogNow[i].events = batch[i].events
      BY <1>1, EventsGenerated
    <3>2. /\ j \in DOMAIN LogNow /\ LogNow[j].universe = batch[j].universe
          /\ n \in DOMAIN LogNow[j].events /\ LogNow[j].events = batch[j].events
      BY <1>1, EventsGenerated
    <3>. QED
      BY <2>1, <2>2, <3>1, <3>2 DEF Ordered, Follows
  <2>. QED
    BY <2>2 DEF BusinessTimeRuns
<1>. QED
  BY <1>1, FeedInvariant, PTL
=============================================================================
