-------------------------- MODULE MartTablesProofs --------------------------
(***************************************************************************)
(* What holds of adjudication for every inbox, every batching of events    *)
(* into drains and of drains into builds, and whatever marts are built,    *)
(* skipped or retried in between; and of the tables dbt derives from the   *)
(* verdicts: each watermark finds all that is new and nothing that was     *)
(* there.                                                                  *)
(***************************************************************************)
EXTENDS TradeMarts, FiniteSetTheorems, WellFoundedInduction, TLAPS

-----------------------------------------------------------------------------
(* TYPE CORRECTNESS                                                        *)

(* A judged event is a row of the adjudicated log.                         *)
LEMMA JudgedType ==
    ASSUME NEW pending \in SUBSET Event, NEW prior, NEW now \in Nat
    PROVE  Judged(pending, prior, now) \subseteq AdjudicatedRow
<1>. DEFINE valid == {e \in pending : IsFieldValid(e, businessDate)}
<1>1. ASSUME NEW e \in pending
      PROVE  /\ VerdictOn(valid, prior, e) \in Verdict
             /\ StateRulesFired(valid, prior, e) \in SUBSET StateRule
             /\ VersionActionOf(valid, prior, e) \in VersionAction
  <2>1. VerdictOn(valid, prior, e) \in Verdict
    BY DEF VerdictOn, Verdict
  <2>2. StateRulesFired(valid, prior, e) \in SUBSET StateRule
    BY DEF StateRulesFired
  <2>3. VersionActionOf(valid, prior, e) \in VersionAction
    BY DEF VersionActionOf, VersionAction
  <2>. QED
    BY <2>1, <2>2, <2>3
<1>. HIDE DEF valid
<1>2. ASSUME NEW e \in pending
      PROVE  [event |-> e,
              verdict |-> VerdictOn(valid, prior, e),
              state_rule_codes |-> StateRulesFired(valid, prior, e),
              version_action |-> VersionActionOf(valid, prior, e),
              adjudicated_at |-> now] \in AdjudicatedRow
  BY <1>1 DEF AdjudicatedRow
<1>. QED
  BY <1>2 DEF Judged, valid

THEOREM TypeCorrect == Spec => []TypeOK
<1>1. Init => TypeOK
  BY DEF Init, TypeOK
<1>2. TypeOK /\ [Next]_vars => TypeOK'
  <2> SUFFICES ASSUME TypeOK, [Next]_vars
               PROVE  TypeOK'
    OBVIOUS
  <2> USE DEF TypeOK
  <2>1. ASSUME NEW batch \in Batch, Drain(batch)
        PROVE  TypeOK'
    <3>1. PICK n \in 1..MaxBatch : batch \in [1..n -> Inbox]
      BY DEF Batch
    <3>2. Len(batch) = n /\ n \in Nat
      BY <3>1
    <3>3. \A i \in 1..Len(batch) : batch[i] \in Arrival
      BY <3>1, <3>2, InboxAssumption
    <3>4. \A i \in 1..Len(batch) :
            [event_sk |-> lastEventSk + i, batch_seq |-> seqBatchOrder + 1,
             sent |-> batch[i]] \in Event
      BY <3>2, <3>3 DEF Event
    <3>. QED
      BY <2>1, <3>2, <3>4 DEF Drain, tableVars, runVars
  <2>2. CASE Adjudicate
    <3>1. run + 1 \in Nat /\ Pending \subseteq Event
      BY DEF Pending
    <3>2. Judged(Pending, {a.event : a \in Accepted}, run + 1) \subseteq AdjudicatedRow
      BY <3>1, JudgedType
    <3>. QED
      BY <2>2, <3>1, <3>2 DEF Adjudicate, feedVars
  <2>3. CASE BuildVersionLedger
    <3>1. NewVersions \subseteq Event
      BY DEF NewVersions, NewlyAccepted, Accepted, AdjudicatedRow
    <3>. QED
      BY <2>3, <3>1 DEF BuildVersionLedger, LedgerRow, feedVars
  <2>4. CASE BuildTrade
    <3>1. Changes \subseteq Event
      BY DEF Changes, NewLedgerRows, LedgerRow
    <3>2. \A e \in Changes :
            [event |-> e, lifecycle_status |-> LifecycleStatus(e),
             dbt_updated_at |-> run] \in GoldenRow
      BY <3>1 DEF LifecycleStatus, GoldenRow, Status
    <3>3. \A g \in golden :
            [g EXCEPT !.lifecycle_status = "EXPIRED", !.dbt_updated_at = run] \in GoldenRow
      BY DEF GoldenRow, Status
    <3>4. golden' \subseteq GoldenRow
      BY <2>4, <3>2, <3>3 DEF BuildTrade
    <3>. QED
      BY <2>4, <3>4 DEF BuildTrade, feedVars
  <2>5. CASE BuildRejected
    <3>1. \A a \in NewlyRefused :
            [event_sk |-> a.event.event_sk, disposition |-> a.verdict,
             rejected_at |-> a.adjudicated_at,
             dbt_created_at |-> <<run, attempt>>] \in RejectedRow
      BY DEF NewlyRefused, Refused, AdjudicatedRow, Verdict, Event, RejectedRow
    <3>. QED
      BY <2>5, <3>1 DEF BuildRejected, feedVars
  <2>6. CASE RetryMarts
    BY <2>6 DEF RetryMarts, feedVars, tableVars
  <2>7. CASE NextDay
    BY <2>7 DEF NextDay, feedVars, tableVars, runVars
  <2>8. CASE UNCHANGED vars
    BY <2>8 DEF vars, feedVars, tableVars, runVars
  <2>. QED
    BY <2>1, <2>2, <2>3, <2>4, <2>5, <2>6, <2>7, <2>8 DEF Next
<1>. QED
  BY <1>1, <1>2, PTL DEF Spec

-----------------------------------------------------------------------------
(* VERSION ARBITRATION                                                     *)

(* Every event has its own key, every verdict is on an event of the queue  *)
(* and no verdict is stamped later than the current run.                   *)
KeysAndStamps ==
    /\ \A e \in queue : e.event_sk <= lastEventSk
    /\ \A e, f \in queue : e.event_sk = f.event_sk => e = f
    /\ \A a \in adjudicated : a.event \in queue /\ a.adjudicated_at <= run
    /\ \A a, b \in adjudicated :
         a.event = b.event /\ a.adjudicated_at = b.adjudicated_at => a = b

ArbitrationInv ==
    /\ KeysAndStamps
    /\ AcceptedInOrder
    /\ OneAcceptedPerVersion

(* What an accepted verdict of a build says.                               *)
LEMMA JudgedAccepted ==
    ASSUME NEW pending, NEW prior, NEW now,
           NEW b \in Judged(pending, prior, now), b.verdict = "ACCEPTED",
           NEW valid, valid = {e \in pending : IsFieldValid(e, businessDate)}
    PROVE  /\ b.event \in valid
           /\ ~Loses(valid, b.event)
           /\ \A f \in MarksBefore(valid, prior, b.event) :
                 ~(b.event.sent.trade_version < f.sent.trade_version)
<1>1. VerdictOn(valid, prior, b.event) = "ACCEPTED"
  BY DEF Judged
<1>2. /\ ~Loses(valid, b.event)
      /\ b.event \in valid
      /\ ~RJ001(valid, prior, b.event)
  BY <1>1 DEF VerdictOn
<1>. QED
  BY <1>2 DEF RJ001

LEMMA JudgedFields ==
    ASSUME NEW pending, NEW prior, NEW now
    PROVE  /\ \A b \in Judged(pending, prior, now) :
                 b.event \in pending /\ b.adjudicated_at = now
           /\ \A b, c \in Judged(pending, prior, now) : b.event = c.event => b = c
<1>. DEFINE valid == {e \in pending : IsFieldValid(e, businessDate)}
            row(e) == [event |-> e,
                       verdict |-> VerdictOn(valid, prior, e),
                       state_rule_codes |-> StateRulesFired(valid, prior, e),
                       version_action |-> VersionActionOf(valid, prior, e),
                       adjudicated_at |-> now]
<1>1. Judged(pending, prior, now) = {row(e) : e \in pending}
  BY DEF Judged
<1>2. \A e : row(e).event = e /\ row(e).adjudicated_at = now
  OBVIOUS
<1>. HIDE DEF row
<1>. QED
  BY <1>1, <1>2

(* Of two different events of one version, one outranks the other.         *)
LEMMA OutranksTotal ==
    ASSUME NEW e \in Event, NEW f \in Event, e.event_sk # f.event_sk
    PROVE  Outranks(e, f) \/ Outranks(f, e)
<1>1. /\ e.event_sk \in Nat /\ f.event_sk \in Nat
      /\ e.batch_seq \in Nat /\ f.batch_seq \in Nat
      /\ e.sent.effective_event_ts \in Nat /\ f.sent.effective_event_ts \in Nat
  BY DomainAssumption DEF Event, Arrival
<1>. QED
  BY <1>1 DEF Outranks

LEMMA ArbitrationInit == Init => ArbitrationInv
BY DEF Init, ArbitrationInv, KeysAndStamps, AcceptedInOrder, OneAcceptedPerVersion,
       Accepted

LEMMA AdjudicateKeepsArbitration ==
    ASSUME TypeOK, ArbitrationInv, Adjudicate
    PROVE  ArbitrationInv'
<1>. DEFINE prior == {a.event : a \in Accepted}
            new == Judged(Pending, prior, run + 1)
            valid == {e \in Pending : IsFieldValid(e, businessDate)}
<1>1. /\ adjudicated' \subseteq adjudicated \cup new
      /\ run' = run + 1 /\ run \in Nat
      /\ UNCHANGED <<queue, lastEventSk>>
  BY DEF Adjudicate, feedVars, TypeOK
<1>2. Pending \subseteq queue
  BY DEF Pending
<1>3. /\ \A b \in new : b.event \in Pending /\ b.adjudicated_at = run + 1
      /\ \A b, c \in new : b.event = c.event => b = c
  BY JudgedFields
<1>4. \A b \in new : b.verdict = "ACCEPTED" =>
          /\ b.event \in valid
          /\ ~Loses(valid, b.event)
          /\ \A f \in MarksBefore(valid, prior, b.event) :
                ~(b.event.sent.trade_version < f.sent.trade_version)
  BY JudgedAccepted
<1>5. \A a \in adjudicated : a.adjudicated_at \in Nat /\ a.adjudicated_at <= run
  BY DEF TypeOK, AdjudicatedRow, ArbitrationInv, KeysAndStamps
<1>6. \A a \in adjudicated \cup new :
          /\ a.event \in queue
          /\ a.event.event_sk \in Nat
          /\ a.event.sent.trade_version \in Int
  <2>1. \A a \in adjudicated \cup new : a.event \in queue
    BY <1>2, <1>3 DEF ArbitrationInv, KeysAndStamps
  <2>. QED
    BY <2>1, DomainAssumption DEF TypeOK, Event, Arrival
<1>. HIDE DEF new, prior, valid
<1>7. KeysAndStamps'
  <2>1. \A a, b \in adjudicated \cup new :
            a.event = b.event /\ a.adjudicated_at = b.adjudicated_at => a = b
    BY <1>1, <1>3, <1>5 DEF ArbitrationInv, KeysAndStamps
  <2>2. \A a \in adjudicated \cup new : a.adjudicated_at <= run + 1
    BY <1>1, <1>3, <1>5
  <2>. QED
    BY <1>1, <1>6, <2>1, <2>2 DEF ArbitrationInv, KeysAndStamps
<1>8. AcceptedInOrder'
  <2>. SUFFICES ASSUME NEW a \in adjudicated', NEW b \in adjudicated',
                       a.verdict = "ACCEPTED", b.verdict = "ACCEPTED",
                       SameTrade(a.event, b.event),
                       \/ a.adjudicated_at < b.adjudicated_at
                       \/ /\ a.adjudicated_at = b.adjudicated_at
                          /\ Precedes(a.event, b.event)
                PROVE  a.event.sent.trade_version <= b.event.sent.trade_version
    BY DEF AcceptedInOrder, Accepted
  <2>1. CASE a \in adjudicated /\ b \in adjudicated
    BY <2>1 DEF ArbitrationInv, AcceptedInOrder, Accepted
  <2>2. CASE a \in adjudicated /\ b \in new
    <3>1. a.event \in MarksBefore(valid, prior, b.event)
      BY <2>2 DEF MarksBefore, prior, Accepted
    <3>. QED
      BY <1>1, <1>4, <1>6, <2>2, <3>1
  <2>3. CASE a \in new /\ b \in adjudicated
    BY <1>1, <1>3, <1>5, <2>3
  <2>4. CASE a \in new /\ b \in new
    <3>1. Precedes(a.event, b.event)
      BY <1>1, <1>3, <2>4
    <3>2. a.event \in MarksBefore(valid, prior, b.event)
      BY <1>4, <2>4, <3>1 DEF MarksBefore
    <3>. QED
      BY <1>1, <1>4, <1>6, <2>4, <3>2
  <2>. QED
    BY <1>1, <2>1, <2>2, <2>3, <2>4
<1>9. OneAcceptedPerVersion'
  <2>. SUFFICES ASSUME NEW a \in adjudicated', NEW b \in adjudicated',
                       a.verdict = "ACCEPTED", b.verdict = "ACCEPTED",
                       SameVersion(a.event, b.event),
                       a.adjudicated_at = b.adjudicated_at
                PROVE  a = b
    BY DEF OneAcceptedPerVersion, Accepted
  <2>1. CASE a \in adjudicated /\ b \in adjudicated
    BY <2>1 DEF ArbitrationInv, OneAcceptedPerVersion, Accepted
  <2>2. CASE a \in new /\ b \in new
    <3>1. ~Outranks(a.event, b.event) /\ ~Outranks(b.event, a.event)
      <4>1. SameVersion(b.event, a.event)
        BY DEF SameVersion, SameTrade
      <4>. QED
        BY <1>4, <2>2, <4>1 DEF Loses
    <3>2. a.event.event_sk = b.event.event_sk
      <4>1. a.event \in Event /\ b.event \in Event
        BY <1>6, <2>2 DEF TypeOK
      <4>. QED
        BY <3>1, <4>1, OutranksTotal
    <3>3. a.event = b.event
      BY <1>6, <2>2, <3>2 DEF ArbitrationInv, KeysAndStamps
    <3>. QED
      BY <1>3, <2>2, <3>3
  <2>3. CASE ~(a \in adjudicated /\ b \in adjudicated) /\ ~(a \in new /\ b \in new)
    BY <1>1, <1>3, <1>5, <2>3
  <2>. QED
    BY <2>1, <2>2, <2>3
<1>. QED
  BY <1>7, <1>8, <1>9 DEF ArbitrationInv

LEMMA ArbitrationStep == TypeOK /\ ArbitrationInv /\ [Next]_vars => ArbitrationInv'
<1> SUFFICES ASSUME TypeOK, ArbitrationInv, [Next]_vars
             PROVE  ArbitrationInv'
  OBVIOUS
<1>1. ASSUME NEW batch \in Batch, Drain(batch)
      PROVE  ArbitrationInv'
  <2>. DEFINE row(i) == [event_sk |-> lastEventSk + i, batch_seq |-> seqBatchOrder + 1,
                         sent |-> batch[i]]
  <2>1. /\ queue' = queue \cup {row(i) : i \in 1..Len(batch)}
        /\ lastEventSk' = lastEventSk + Len(batch)
        /\ UNCHANGED <<adjudicated, run>>
    BY <1>1 DEF Drain, tableVars, runVars
  <2>2. lastEventSk \in Nat /\ \A e \in queue : e.event_sk \in Nat
    BY DEF TypeOK, Event
  <2>3. Len(batch) \in Nat
    <3>1. PICK n \in 1..MaxBatch : batch \in [1..n -> Inbox]
      BY DEF Batch
    <3>. QED
      BY <3>1
  <2>4. \A i \in 1..Len(batch) : row(i).event_sk = lastEventSk + i
    OBVIOUS
  <2>. HIDE DEF row
  <2>5. KeysAndStamps'
    <3>1. \A e \in queue' : e.event_sk <= lastEventSk'
      BY <2>1, <2>2, <2>3, <2>4 DEF ArbitrationInv, KeysAndStamps
    <3>2. \A i, j \in 1..Len(batch) : row(i).event_sk = row(j).event_sk => i = j
      BY <2>2, <2>3, <2>4
    <3>3. \A e \in queue, i \in 1..Len(batch) : e.event_sk # row(i).event_sk
      BY <2>2, <2>3, <2>4 DEF ArbitrationInv, KeysAndStamps
    <3>4. \A e, f \in queue' : e.event_sk = f.event_sk => e = f
      BY <2>1, <3>2, <3>3 DEF ArbitrationInv, KeysAndStamps
    <3>. QED
      BY <2>1, <3>1, <3>4 DEF ArbitrationInv, KeysAndStamps
  <2>6. AcceptedInOrder' /\ OneAcceptedPerVersion'
    BY <2>1 DEF ArbitrationInv, AcceptedInOrder, OneAcceptedPerVersion, Accepted
  <2>. QED
    BY <2>5, <2>6 DEF ArbitrationInv
<1>2. CASE Adjudicate
  BY <1>2, AdjudicateKeepsArbitration
<1>3. CASE UNCHANGED <<queue, lastEventSk, adjudicated, run>>
  BY <1>3 DEF ArbitrationInv, KeysAndStamps, AcceptedInOrder, OneAcceptedPerVersion,
              Accepted
<1>. QED
  BY <1>1, <1>2, <1>3 DEF Next, BuildVersionLedger, BuildTrade, BuildRejected,
     RetryMarts, NextDay, vars, feedVars, tableVars, runVars

(* Rule R1 for every history: whatever events arrive in whatever order,    *)
(* however they are batched, and whichever builds of the marts are missed, *)
(* no event is accepted below a version accepted before it.                *)
THEOREM VersionsNeverGoBack == Spec => []AcceptedInOrder
<1>1. TypeOK /\ ArbitrationInv /\ [Next]_vars => ArbitrationInv'
  BY ArbitrationStep
<1>2. ArbitrationInv => AcceptedInOrder
  BY DEF ArbitrationInv
<1>. QED
  BY ArbitrationInit, <1>1, <1>2, TypeCorrect, PTL DEF Spec

(* Rule R2 for every history: of the events of one version that one build  *)
(* judges, at most one is accepted.                                        *)
THEOREM OneWinnerPerVersion == Spec => []OneAcceptedPerVersion
<1>1. TypeOK /\ ArbitrationInv /\ [Next]_vars => ArbitrationInv'
  BY ArbitrationStep
<1>2. ArbitrationInv => OneAcceptedPerVersion
  BY DEF ArbitrationInv
<1>. QED
  BY ArbitrationInit, <1>1, <1>2, TypeCorrect, PTL DEF Spec

-----------------------------------------------------------------------------
(* A WINNER EXISTS                                                         *)

(* In a finite set somebody is beaten by nobody.                           *)
LEMMA Unbeaten ==
    ASSUME NEW X, IsFiniteSet(X), X # {},
           NEW R,
           \A x \in X : <<x, x>> \notin R,
           \A x, y, z \in X : <<x, y>> \in R /\ <<y, z>> \in R => <<x, z>> \in R
    PROVE  \E x \in X : \A y \in X : <<y, x>> \notin R
<1>. DEFINE Beaters(x) == {y \in X : <<y, x>> \in R}
            T == {Beaters(x) : x \in X}
<1>1. IsWellFoundedOn(StrictSubsetOrdering(X), FiniteSubsetsOf(X))
  BY FS_StrictSubsetOrderingWellFounded
<1>2. FiniteSubsetsOf(X) = SUBSET X
  BY FS_FiniteSubsetsOfFinite
<1>3. T \subseteq SUBSET X /\ T # {}
  <2>1. \A x \in X : Beaters(x) \in SUBSET X
    OBVIOUS
  <2>. HIDE DEF Beaters
  <2>. QED
    BY <2>1
<1>4. PICK B \in T : \A C \in T : <<C, B>> \notin StrictSubsetOrdering(X)
  <2>. HIDE DEF T
  <2>. QED
    BY <1>1, <1>2, <1>3, WFMin
<1>5. PICK x \in X : B = Beaters(x)
  BY <1>4
<1>6. ASSUME NEW y \in X, <<y, x>> \in R
      PROVE  FALSE
  <2>1. y \in Beaters(x) /\ y \notin Beaters(y)
    BY <1>6
  <2>2. Beaters(y) \subseteq Beaters(x)
    BY <1>6
  <2>3. <<Beaters(y), B>> \in StrictSubsetOrdering(X)
    BY <1>5, <2>1, <2>2 DEF StrictSubsetOrdering
  <2>. QED
    BY <1>4, <2>3
<1>. QED
  BY <1>6

(* Keys make the log finite: nothing is assumed about the inbox.           *)
LEMMA LogFinite ==
    ASSUME TypeOK, ArbitrationInv
    PROVE  IsFiniteSet({a.event : a \in adjudicated})
<1>. DEFINE X == {a.event : a \in adjudicated}
            sk == [e \in X |-> e.event_sk]
<1>1. X \subseteq queue /\ X \subseteq Event
  BY DEF ArbitrationInv, KeysAndStamps, TypeOK
<1>2. \A e \in X : e.event_sk \in 0 .. lastEventSk
  BY <1>1 DEF ArbitrationInv, KeysAndStamps, Event, TypeOK
<1>3. \A e, f \in X : e.event_sk = f.event_sk => e = f
  BY <1>1 DEF ArbitrationInv, KeysAndStamps
<1>. HIDE DEF X
<1>4. sk \in Injection(X, 0 .. lastEventSk)
  BY <1>2, <1>3 DEF Injection, IsInjective
<1>5. IsFiniteSet(0 .. lastEventSk)
  BY FS_Interval DEF TypeOK
<1>. QED
  BY <1>4, <1>5, FS_Injection DEF X

(* The fields the arguments below compare are numbers.                     *)
LEMMA EventFields ==
    ASSUME NEW e \in Event
    PROVE  /\ e.event_sk \in Nat
           /\ e.batch_seq \in Nat
           /\ e.sent.effective_event_ts \in Nat
           /\ e.sent.trade_version \in Int
           /\ e.sent.action \in Action
BY DomainAssumption DEF Event, Arrival

(* Among the accepted events of one version one outranks all others.       *)
LEMMA TopOfVersion ==
    ASSUME TypeOK, ArbitrationInv,
           NEW S, S \subseteq {a.event : a \in adjudicated}, NEW e \in S
    PROVE  \E f \in S : SameVersion(f, e) /\ \A g \in S : SameVersion(g, f) => ~Outranks(g, f)
<1>. DEFINE X == {f \in S : SameVersion(f, e)}
            R == {p \in X \X X : Outranks(p[1], p[2])}
<1>1. IsFiniteSet(X)
  BY LogFinite, FS_Subset
<1>2. X # {}
  BY DEF SameVersion, SameTrade
<1>3. \A f \in X : /\ f.event_sk \in Nat /\ f.batch_seq \in Nat
                   /\ f.sent.effective_event_ts \in Nat
  BY EventFields DEF TypeOK, AdjudicatedRow
<1>4. \A x, y \in X : <<x, y>> \in R <=> Outranks(x, y)
  OBVIOUS
<1>5. /\ \A x \in X : ~Outranks(x, x)
      /\ \A x, y, z \in X : Outranks(x, y) /\ Outranks(y, z) => Outranks(x, z)
  BY <1>3 DEF Outranks
<1>. HIDE DEF R
<1>6. PICK f \in X : \A g \in X : <<g, f>> \notin R
  <2>. HIDE DEF X
  <2>. QED
    BY <1>1, <1>2, <1>4, <1>5, Unbeaten
<1>7. \A g \in S : SameVersion(g, f) => g \in X
  BY DEF SameVersion, SameTrade
<1>. QED
  BY <1>4, <1>6, <1>7

(* And among the ledger's rows of one trade one has the highest version.   *)
LEMMA TopOfTrade ==
    ASSUME TypeOK, ArbitrationInv,
           NEW S, S \subseteq {a.event : a \in adjudicated}, NEW e \in S
    PROVE  \E f \in S : SameTrade(f, e) /\
             \A g \in S : SameTrade(g, f) => g.sent.trade_version <= f.sent.trade_version
<1>. DEFINE X == {f \in S : SameTrade(f, e)}
            R == {p \in X \X X : p[1].sent.trade_version > p[2].sent.trade_version}
<1>1. IsFiniteSet(X)
  BY LogFinite, FS_Subset
<1>2. X # {}
  BY DEF SameTrade
<1>3. \A f \in S : f.sent.trade_version \in Int
  BY EventFields DEF TypeOK, AdjudicatedRow
<1>4. \A x, y \in X : <<x, y>> \in R <=> x.sent.trade_version > y.sent.trade_version
  OBVIOUS
<1>5. /\ \A x \in X : <<x, x>> \notin R
      /\ \A x, y, z \in X : <<x, y>> \in R /\ <<y, z>> \in R => <<x, z>> \in R
  BY <1>3, <1>4
<1>. HIDE DEF R
<1>6. PICK f \in X : \A g \in X : <<g, f>> \notin R
  <2>. HIDE DEF X
  <2>. QED
    BY <1>1, <1>2, <1>5, Unbeaten
<1>7. \A g \in S : SameTrade(g, f) => g \in X
  BY DEF SameTrade
<1>8. f \in S /\ SameTrade(f, e)
  OBVIOUS
<1>9. ASSUME NEW g \in S, SameTrade(g, f)
      PROVE  g.sent.trade_version <= f.sent.trade_version
  <2>1. ~(g.sent.trade_version > f.sent.trade_version)
    BY <1>4, <1>6, <1>7, <1>9
  <2>. QED
    BY <1>3, <1>8, <2>1
<1>. QED
  BY <1>8, <1>9

-----------------------------------------------------------------------------
(* THE ADJUDICATED LOG ONLY GROWS                                          *)

OneVerdictPerEvent ==
    \A a, b \in adjudicated : a.event = b.event => a = b

(* What a build adds is new, and stamped with its run: the MERGE on        *)
(* event_sk overwrites nothing.                                            *)
LEMMA LogGrows ==
    ASSUME TypeOK, ArbitrationInv, Adjudicate,
           NEW new, new = Judged(Pending, {a.event : a \in Accepted}, run + 1)
    PROVE  /\ adjudicated' = adjudicated \cup new
           /\ \A b \in new : b.event \in Pending /\ b.adjudicated_at = run + 1
           /\ \A b, c \in new : b.event = c.event => b = c
           /\ \A a \in adjudicated, b \in new : a.event # b.event
<1>1. \A e \in Pending, a \in adjudicated : e.event_sk # a.event.event_sk
  <2>. SUFFICES ASSUME NEW e \in Pending, NEW a \in adjudicated,
                       e.event_sk = a.event.event_sk
                PROVE  FALSE
    OBVIOUS
  <2>1. e = a.event
    <3>1. e \in queue /\ a.event \in queue
      BY DEF Pending, ArbitrationInv, KeysAndStamps
    <3>. QED
      BY <3>1 DEF ArbitrationInv, KeysAndStamps
  <2>2. a.event.batch_seq \in Nat
    BY EventFields DEF TypeOK, AdjudicatedRow
  <2>. QED
    BY <2>1, <2>2 DEF Pending
<1>2. adjudicated' = adjudicated \cup new
  <2>1. {a \in adjudicated : \A e \in Pending : e.event_sk # a.event.event_sk} = adjudicated
    BY <1>1
  <2>. QED
    BY <2>1 DEF Adjudicate
<1>3. /\ \A b \in new : b.event \in Pending /\ b.adjudicated_at = run + 1
      /\ \A b, c \in new : b.event = c.event => b = c
  BY JudgedFields
<1>. QED
  BY <1>1, <1>2, <1>3

LEMMA VerdictStep ==
    TypeOK /\ ArbitrationInv /\ OneVerdictPerEvent /\ [Next]_vars => OneVerdictPerEvent'
<1> SUFFICES ASSUME TypeOK, ArbitrationInv, OneVerdictPerEvent, [Next]_vars
             PROVE  OneVerdictPerEvent'
  OBVIOUS
<1>1. CASE Adjudicate
  BY <1>1, LogGrows DEF OneVerdictPerEvent
<1>2. CASE UNCHANGED adjudicated
  BY <1>2 DEF OneVerdictPerEvent
<1>. QED
  BY <1>1, <1>2 DEF Next, Drain, BuildVersionLedger, BuildTrade, BuildRejected,
     RetryMarts, NextDay, vars, tableVars

(* What the proofs below use of the log.                                   *)
LogInv == TypeOK /\ ArbitrationInv /\ OneVerdictPerEvent

LEMMA LogCorrect == Spec => []LogInv
<1>1. Init => OneVerdictPerEvent
  BY DEF Init, OneVerdictPerEvent
<1>2. TypeOK /\ ArbitrationInv /\ [Next]_vars => ArbitrationInv'
  BY ArbitrationStep
<1>3. TypeOK /\ ArbitrationInv /\ OneVerdictPerEvent /\ [Next]_vars => OneVerdictPerEvent'
  BY VerdictStep
<1>4. TypeOK /\ ArbitrationInv /\ OneVerdictPerEvent => LogInv
  BY DEF LogInv
<1>. QED
  BY ArbitrationInit, <1>1, <1>2, <1>3, <1>4, TypeCorrect, PTL DEF Spec

(* Stamps are run numbers.                                                 *)
LEMMA LogStamps ==
    ASSUME LogInv
    PROVE  run \in Nat /\ \A a \in adjudicated : a.adjudicated_at \in 0 .. run
BY DEF LogInv, TypeOK, AdjudicatedRow, ArbitrationInv, KeysAndStamps

-----------------------------------------------------------------------------
(* THE COMPLIANCE TABLE                                                    *)

Audits(r, a) ==
    /\ r.event_sk = a.event.event_sk
    /\ r.disposition = a.verdict
    /\ r.rejected_at = a.adjudicated_at

(* A refused event is in the table or above its watermark.                 *)
AuditInv ==
    /\ \A r, q \in rejected : r.event_sk = q.event_sk => r = q
    /\ \A r \in rejected : \E a \in Refused : Audits(r, a)
    /\ \A a \in Refused : a \in NewlyRefused \/ \E r \in rejected : Audits(r, a)
    /\ "fct_trade_rejected" \notin todo => NewlyRefused = {}

LEMMA AuditInit == Init => AuditInv
BY DEF Init, AuditInv, Refused, NewlyRefused

LEMMA AuditStep == LogInv /\ AuditInv /\ [Next]_vars => AuditInv'
<1> SUFFICES ASSUME LogInv, AuditInv, [Next]_vars
             PROVE  AuditInv'
  OBVIOUS
<1>stamps. run \in Nat /\ \A a \in adjudicated : a.adjudicated_at \in 0 .. run
  BY LogStamps
<1>1. CASE Adjudicate
  <2>. DEFINE new == Judged(Pending, {a.event : a \in Accepted}, run + 1)
  <2>1. /\ adjudicated' = adjudicated \cup new
        /\ \A b \in new : b.adjudicated_at = run + 1
    BY <1>1, LogGrows DEF LogInv
  <2>. HIDE DEF new
  <2>2. rejected' = rejected /\ todo' = Mart
    BY <1>1 DEF Adjudicate
  <2>3. \A r \in rejected : r.rejected_at \in 0 .. run
    BY <1>stamps DEF AuditInv, Audits, Refused
  <2>4. Refused \subseteq Refused' /\ \A a \in Refused' : a \in Refused \/ a \in new
    BY <2>1 DEF Refused
  <2>5. \A a \in Refused' : a \in NewlyRefused' \/ \E r \in rejected : Audits(r, a)
    <3>1. \A a \in Refused' : a \in new => a \in NewlyRefused'
      BY <1>stamps, <2>1, <2>2, <2>3 DEF NewlyRefused
    <3>2. NewlyRefused \subseteq NewlyRefused'
      BY <2>2, <2>4 DEF NewlyRefused
    <3>. QED
      BY <2>4, <3>1, <3>2 DEF AuditInv
  <2>6. "fct_trade_rejected" \in todo'
    BY <2>2 DEF Mart
  <2>. QED
    BY <2>2, <2>4, <2>5, <2>6 DEF AuditInv, Audits
<1>2. CASE BuildRejected
  <2>. DEFINE row(a) == [event_sk |-> a.event.event_sk, disposition |-> a.verdict,
                         rejected_at |-> a.adjudicated_at,
                         dbt_created_at |-> <<run, attempt>>]
  <2>1. /\ rejected' = rejected \cup {row(a) : a \in NewlyRefused}
        /\ UNCHANGED adjudicated
    BY <1>2 DEF BuildRejected
  <2>2. \A a : Audits(row(a), a)
    BY DEF Audits
  <2>3. NewlyRefused \subseteq Refused /\ Refused' = Refused
    BY <2>1 DEF NewlyRefused, Refused
  <2>4. \A a, b \in Refused : a.event.event_sk = b.event.event_sk => a = b
    BY DEF Refused, LogInv, OneVerdictPerEvent, ArbitrationInv, KeysAndStamps
  <2>5. \A a \in NewlyRefused, r \in rejected : r.event_sk # a.event.event_sk
    <3>. SUFFICES ASSUME NEW a \in NewlyRefused, NEW r \in rejected,
                         r.event_sk = a.event.event_sk
                  PROVE  FALSE
      OBVIOUS
    <3>1. PICK b \in Refused : Audits(r, b)
      BY DEF AuditInv
    <3>2. a = b
      BY <2>3, <2>4, <3>1 DEF Audits
    <3>3. a.adjudicated_at \in Nat
      BY <1>stamps, <2>3 DEF Refused
    <3>. QED
      BY <3>1, <3>2, <3>3 DEF NewlyRefused, Audits
  <2>6. \A a \in NewlyRefused : row(a).event_sk = a.event.event_sk
    OBVIOUS
  <2>7. \A r, q \in rejected' : r.event_sk = q.event_sk => r = q
    <3>. HIDE DEF row
    <3>1. \A a, b \in NewlyRefused : row(a).event_sk = row(b).event_sk => a = b
      BY <2>3, <2>4, <2>6
    <3>2. \A a \in NewlyRefused, r \in rejected : r.event_sk # row(a).event_sk
      BY <2>5, <2>6
    <3>. QED
      BY <2>1, <3>1, <3>2 DEF AuditInv
  <2>. HIDE DEF row
  <2>8. \A r \in rejected' : \E a \in Refused : Audits(r, a)
    BY <2>1, <2>2, <2>3 DEF AuditInv
  <2>9. \A a \in Refused : \E r \in rejected' : Audits(r, a)
    BY <2>1, <2>2 DEF AuditInv
  <2>10. NewlyRefused' = {}
    <3>. SUFFICES ASSUME NEW a \in NewlyRefused'
                  PROVE  FALSE
      OBVIOUS
    <3>1. a \in Refused /\ \A r \in rejected' : a.adjudicated_at > r.rejected_at
      BY <2>3 DEF NewlyRefused
    <3>2. a.adjudicated_at \in Nat
      BY <1>stamps, <3>1 DEF Refused
    <3>. QED
      BY <2>9, <3>1, <3>2 DEF Audits
  <2>. QED
    BY <2>3, <2>7, <2>8, <2>9, <2>10 DEF AuditInv, Audits
<1>3. CASE UNCHANGED <<adjudicated, rejected>> /\ (todo' = Mart \/ UNCHANGED todo
             \/ todo' = todo \ {"fct_trade_version"} \/ todo' = todo \ {"fct_trade"})
  <2>1. Refused' = Refused /\ NewlyRefused' = NewlyRefused
    BY <1>3 DEF Refused, NewlyRefused
  <2>2. "fct_trade_rejected" \notin todo' => "fct_trade_rejected" \notin todo
    BY <1>3 DEF Mart
  <2>. QED
    BY <1>3, <2>1, <2>2 DEF AuditInv, Audits
<1>. QED
  BY <1>1, <1>2, <1>3 DEF Next, Drain, BuildVersionLedger, BuildTrade, RetryMarts,
     NextDay, vars, tableVars, runVars

(* FCT_TRADE_REJECTED is append-only and has no unique key: its watermark  *)
(* alone keeps every refused event in it once, for every history of builds *)
(* that stop before it and marts that are built again.                     *)
THEOREM RefusalsAuditedOnce == Spec => []RejectedAuditedOnce
<1>1. LogInv /\ AuditInv /\ [Next]_vars => AuditInv'
  BY AuditStep
<1>2. AuditInv => RejectedAuditedOnce
  BY DEF AuditInv, RejectedAuditedOnce, Audits
<1>. QED
  BY AuditInit, <1>1, <1>2, LogCorrect, PTL DEF Spec

-----------------------------------------------------------------------------
(* THE VERSION LEDGER                                                      *)

LedgerFromLog ==
    \A r \in ledger :
        /\ r.dbt_updated_at \in 0 .. run
        /\ \E a \in Accepted : a.event = r.event /\ a.adjudicated_at <= r.dbt_updated_at

LedgerKeyUnique ==
    \A r, q \in ledger : SameVersion(r.event, q.event) => r = q

(* An accepted event is above the ledger's watermark, or its version is    *)
(* there; nothing is above it once the ledger is built.                    *)
LedgerCaughtUp ==
    /\ \A a \in Accepted :
         a \in NewlyAccepted \/ \E r \in ledger : SameVersion(r.event, a.event)
    /\ "fct_trade_version" \notin todo => NewlyAccepted = {}

LedgerInv == LedgerFromLog /\ LedgerKeyUnique /\ LedgerCaughtUp

(* The last writers that fct_trade_version picks: one of every version.    *)
LEMMA NewVersionsPicked ==
    ASSUME LogInv
    PROVE  /\ \A e \in NewVersions : \E a \in NewlyAccepted : a.event = e
           /\ \A e, f \in NewVersions : SameVersion(e, f) => e = f
           /\ \A a \in NewlyAccepted : \E e \in NewVersions : SameVersion(e, a.event)
<1>1. \A e \in NewVersions : /\ \E a \in NewlyAccepted : a.event = e
                             /\ \A b \in NewlyAccepted :
                                  SameVersion(b.event, e) => ~Outranks(b.event, e)
  BY DEF NewVersions
<1>2. \A a \in NewlyAccepted : a \in adjudicated /\ a.event \in queue /\ a.event \in Event
  BY DEF NewlyAccepted, Accepted, LogInv, TypeOK, ArbitrationInv, KeysAndStamps
<1>3. ASSUME NEW e \in NewVersions, NEW f \in NewVersions, SameVersion(e, f)
      PROVE  e = f
  <2>1. SameVersion(f, e)
    BY <1>3 DEF SameVersion, SameTrade
  <2>2. ~Outranks(e, f) /\ ~Outranks(f, e)
    BY <1>1, <1>3, <2>1
  <2>3. e \in queue /\ f \in queue /\ e \in Event /\ f \in Event
    BY <1>1, <1>2
  <2>4. e.event_sk = f.event_sk
    BY <2>2, <2>3, OutranksTotal
  <2>. QED
    BY <2>3, <2>4 DEF LogInv, ArbitrationInv, KeysAndStamps
<1>4. ASSUME NEW a \in NewlyAccepted
      PROVE  \E e \in NewVersions : SameVersion(e, a.event)
  <2>. DEFINE S == {b.event : b \in NewlyAccepted}
  <2>1. S \subseteq {b.event : b \in adjudicated} /\ a.event \in S
    BY <1>2
  <2>. HIDE DEF S
  <2>2. PICK f \in S : /\ SameVersion(f, a.event)
                       /\ \A g \in S : SameVersion(g, f) => ~Outranks(g, f)
    BY <2>1, TopOfVersion DEF LogInv
  <2>3. PICK c \in NewlyAccepted : f = c.event
    BY DEF S
  <2>4. \A b \in NewlyAccepted : SameVersion(b.event, c.event) => ~Outranks(b.event, c.event)
    BY <2>2, <2>3 DEF S
  <2>5. f \in NewVersions
    BY <2>3, <2>4 DEF NewVersions
  <2>. QED
    BY <2>2, <2>5
<1>. QED
  BY <1>1, <1>3, <1>4

(* The ledger after its build.                                             *)
LEMMA LedgerBuilt ==
    ASSUME LogInv, LedgerInv, BuildVersionLedger
    PROVE  /\ \A r \in ledger' : \/ r \in ledger
                                 \/ r.event \in NewVersions /\ r.dbt_updated_at = run
           /\ \A e \in NewVersions : \E r \in ledger' : r.event = e /\ r.dbt_updated_at = run
           /\ \A r \in ledger : \/ r \in ledger'
                                \/ \E e \in NewVersions : SameVersion(e, r.event)
           /\ \A r \in ledger' : r \in ledger => \A e \in NewVersions : ~SameVersion(e, r.event)
           /\ \A r, q \in ledger' : r.event = q.event /\ r.dbt_updated_at = q.dbt_updated_at
                                      => r = q
           /\ NewlyAccepted' = {}
           /\ UNCHANGED <<adjudicated, queue, golden, run>>
<1>. DEFINE row(e) == [event |-> e, dbt_updated_at |-> run]
            kept == {r \in ledger : \A e \in NewVersions : ~SameVersion(e, r.event)}
<1>1. /\ ledger' = kept \cup {row(e) : e \in NewVersions}
      /\ UNCHANGED <<adjudicated, queue, golden, run>>
  BY DEF BuildVersionLedger, feedVars
<1>2. \A e : row(e).event = e /\ row(e).dbt_updated_at = run
  OBVIOUS
<1>3. ledger \subseteq LedgerRow /\ run \in Nat
  BY DEF LogInv, TypeOK
<1>4. \A e \in NewVersions : row(e) \in ledger'
  BY <1>1
<1>5. \A r \in ledger' : r \in LedgerRow
  BY <1>3 DEF BuildVersionLedger, LogInv, TypeOK, LedgerRow, NewVersions,
     NewlyAccepted, Accepted, AdjudicatedRow
<1>6. NewlyAccepted' = {}
  <2>. SUFFICES ASSUME NEW a \in NewlyAccepted'
                PROVE  FALSE
    OBVIOUS
  <2>1. a \in Accepted /\ \A r \in ledger' : a.adjudicated_at > r.dbt_updated_at
    BY <1>1 DEF NewlyAccepted, Accepted
  <2>2. a.adjudicated_at \in 0 .. run
    BY <2>1, LogStamps DEF Accepted
  <2>3. NewVersions = {}
    <3>. HIDE DEF row
    <3>. QED
      BY <1>2, <1>3, <1>4, <2>1, <2>2
  <2>4. ledger' = ledger
    BY <1>1, <2>3
  <2>5. a \in NewlyAccepted
    BY <2>1, <2>4 DEF NewlyAccepted
  <2>. QED
    BY <2>3, <2>5, NewVersionsPicked
<1>7. \A r \in ledger : r \in kept \/ \E e \in NewVersions : SameVersion(e, r.event)
  OBVIOUS
<1>8. \A r, q \in ledger' : r.event = q.event /\ r.dbt_updated_at = q.dbt_updated_at => r = q
  BY <1>5 DEF LedgerRow
<1>9. \A r \in ledger' : r \in ledger => \A e \in NewVersions : ~SameVersion(e, r.event)
  <2>. SUFFICES ASSUME NEW e \in NewVersions, row(e) \in ledger
                PROVE  FALSE
    BY <1>1 DEF SameVersion, SameTrade
  <2>1. PICK a \in NewlyAccepted : a.event = e
    BY NewVersionsPicked
  <2>2. a.adjudicated_at > run /\ a \in adjudicated
    BY <1>2, <2>1 DEF NewlyAccepted, Accepted
  <2>. QED
    BY <2>2, LogStamps
<1>kept. kept \subseteq ledger
  OBVIOUS
<1>. HIDE DEF row, kept
<1>10. \A r \in ledger' : \/ r \in ledger
                          \/ r.event \in NewVersions /\ r.dbt_updated_at = run
  BY <1>1, <1>2, <1>kept
<1>11. \A e \in NewVersions : \E r \in ledger' : r.event = e /\ r.dbt_updated_at = run
  BY <1>2, <1>4
<1>12. \A r \in ledger : r \in ledger' \/ \E e \in NewVersions : SameVersion(e, r.event)
  BY <1>1, <1>7
<1>. QED
  BY <1>1, <1>6, <1>8, <1>9, <1>10, <1>11, <1>12

LEMMA LedgerInit == Init => LedgerInv
BY DEF Init, LedgerInv, LedgerFromLog, LedgerKeyUnique, LedgerCaughtUp, Accepted,
       NewlyAccepted

LEMMA LedgerStep == LogInv /\ LedgerInv /\ [Next]_vars => LedgerInv'
<1> SUFFICES ASSUME LogInv, LedgerInv, [Next]_vars
             PROVE  LedgerInv'
  OBVIOUS
<1>stamps. run \in Nat /\ \A a \in adjudicated : a.adjudicated_at \in 0 .. run
  BY LogStamps
<1>1. CASE Adjudicate
  <2>. DEFINE new == Judged(Pending, {a.event : a \in Accepted}, run + 1)
  <2>1. /\ adjudicated' = adjudicated \cup new
        /\ \A b \in new : b.adjudicated_at = run + 1
    BY <1>1, LogGrows DEF LogInv
  <2>. HIDE DEF new
  <2>2. ledger' = ledger /\ todo' = Mart /\ run' = run + 1
    BY <1>1 DEF Adjudicate
  <2>3. Accepted \subseteq Accepted' /\ \A a \in Accepted' : a \in Accepted \/ a \in new
    BY <2>1 DEF Accepted
  <2>4. \A a \in Accepted' : a \in new => a \in NewlyAccepted'
    BY <1>stamps, <2>1, <2>2 DEF NewlyAccepted, LedgerInv, LedgerFromLog
  <2>5. NewlyAccepted \subseteq NewlyAccepted'
    BY <2>2, <2>3 DEF NewlyAccepted
  <2>6. LedgerFromLog'
    BY <1>stamps, <2>2, <2>3 DEF LedgerInv, LedgerFromLog
  <2>7. LedgerKeyUnique'
    BY <2>2 DEF LedgerInv, LedgerKeyUnique
  <2>8. LedgerCaughtUp'
    BY <2>2, <2>3, <2>4, <2>5 DEF LedgerInv, LedgerCaughtUp, Mart
  <2>. QED
    BY <2>6, <2>7, <2>8 DEF LedgerInv
<1>2. CASE BuildVersionLedger
  <2>1. /\ \A r \in ledger' : \/ r \in ledger
                              \/ r.event \in NewVersions /\ r.dbt_updated_at = run
        /\ \A e \in NewVersions : \E r \in ledger' : r.event = e /\ r.dbt_updated_at = run
        /\ \A r \in ledger : \/ r \in ledger'
                             \/ \E e \in NewVersions : SameVersion(e, r.event)
        /\ \A r \in ledger' : r \in ledger => \A e \in NewVersions : ~SameVersion(e, r.event)
        /\ \A r, q \in ledger' : r.event = q.event /\ r.dbt_updated_at = q.dbt_updated_at
                                   => r = q
        /\ NewlyAccepted' = {}
        /\ UNCHANGED <<adjudicated, queue, golden, run>>
    BY <1>2, LedgerBuilt
  <2>2. /\ \A e \in NewVersions : \E a \in NewlyAccepted : a.event = e
        /\ \A e, f \in NewVersions : SameVersion(e, f) => e = f
        /\ \A a \in NewlyAccepted : \E e \in NewVersions : SameVersion(e, a.event)
    BY NewVersionsPicked
  <2>3. NewlyAccepted \subseteq Accepted /\ Accepted' = Accepted
    BY <2>1 DEF NewlyAccepted, Accepted
  <2>4. \A a \in Accepted : a.adjudicated_at \in 0 .. run
    BY <1>stamps DEF Accepted
  <2>5. LedgerFromLog'
    <3>1. \A r \in ledger' : r.event \in NewVersions /\ r.dbt_updated_at = run =>
            /\ r.dbt_updated_at \in 0 .. run
            /\ \E a \in Accepted : a.event = r.event /\ a.adjudicated_at <= r.dbt_updated_at
      BY <1>stamps, <2>2, <2>3, <2>4
    <3>. QED
      BY <2>1, <2>3, <3>1 DEF LedgerInv, LedgerFromLog
  <2>6. LedgerKeyUnique'
    <3>. SUFFICES ASSUME NEW r \in ledger', NEW q \in ledger', SameVersion(r.event, q.event)
                  PROVE  r = q
      BY DEF LedgerKeyUnique
    <3>1. SameVersion(q.event, r.event)
      BY DEF SameVersion, SameTrade
    <3>2. CASE r \in ledger /\ q \in ledger
      BY <3>2 DEF LedgerInv, LedgerKeyUnique
    <3>3. CASE r \notin ledger /\ q \notin ledger
      BY <2>1, <2>2, <3>3
    <3>4. CASE (r \in ledger) # (q \in ledger)
      BY <2>1, <3>1, <3>4
    <3>. QED
      BY <3>2, <3>3, <3>4
  <2>7. \A a \in Accepted : \E r \in ledger' : SameVersion(r.event, a.event)
    <3>. SUFFICES ASSUME NEW a \in Accepted
                  PROVE  \E r \in ledger' : SameVersion(r.event, a.event)
      OBVIOUS
    <3>1. CASE a \in NewlyAccepted
      BY <2>1, <2>2, <3>1
    <3>2. CASE a \notin NewlyAccepted
      <4>1. PICK r \in ledger : SameVersion(r.event, a.event)
        BY <3>2 DEF LedgerInv, LedgerCaughtUp
      <4>2. CASE r \in ledger'
        BY <4>1, <4>2
      <4>3. CASE r \notin ledger'
        <5>1. PICK e \in NewVersions : SameVersion(e, r.event)
          BY <2>1, <4>3
        <5>2. SameVersion(e, a.event)
          BY <4>1, <5>1 DEF SameVersion, SameTrade
        <5>. QED
          BY <2>1, <5>2
      <4>. QED
        BY <4>2, <4>3
    <3>. QED
      BY <3>1, <3>2
  <2>8. LedgerCaughtUp'
    BY <2>1, <2>3, <2>7 DEF LedgerCaughtUp
  <2>. QED
    BY <2>5, <2>6, <2>8 DEF LedgerInv
<1>3. CASE UNCHANGED <<adjudicated, ledger, run>> /\ (todo' = Mart \/ UNCHANGED todo
             \/ todo' = todo \ {"fct_trade"} \/ todo' = todo \ {"fct_trade_rejected"})
  <2>1. Accepted' = Accepted /\ NewlyAccepted' = NewlyAccepted
    BY <1>3 DEF Accepted, NewlyAccepted
  <2>2. "fct_trade_version" \notin todo' => "fct_trade_version" \notin todo
    BY <1>3 DEF Mart
  <2>. QED
    BY <1>3, <2>1, <2>2 DEF LedgerInv, LedgerFromLog, LedgerKeyUnique, LedgerCaughtUp
<1>. QED
  BY <1>1, <1>2, <1>3 DEF Next, Drain, BuildTrade, BuildRejected, RetryMarts,
     NextDay, vars, tableVars, runVars

LEMMA LedgerCorrect == Spec => []LedgerInv
<1>1. LogInv /\ LedgerInv /\ [Next]_vars => LedgerInv'
  BY LedgerStep
<1>. QED
  BY LedgerInit, <1>1, LogCorrect, PTL DEF Spec

(* "One row per accepted version, ever", whichever earlier runs ended      *)
(* without building fct_trade_version: its watermark is taken from the     *)
(* table it writes, so it reaches back to what those runs left.            *)
THEOREM LedgerHasEveryVersion == Spec => []LedgerComplete
<1>1. LedgerInv => LedgerComplete
  <2> SUFFICES ASSUME LedgerInv
               PROVE  LedgerComplete
    OBVIOUS
  <2>1. "fct_trade_version" \notin todo =>
            \A a \in Accepted : \E r \in ledger : SameVersion(r.event, a.event)
    BY DEF LedgerInv, LedgerCaughtUp
  <2>2. \A r \in ledger : \E a \in Accepted : a.event = r.event
    BY DEF LedgerInv, LedgerFromLog
  <2>. QED
    BY <2>1, <2>2 DEF LedgerInv, LedgerKeyUnique, LedgerComplete
<1>. QED
  BY <1>1, LedgerCorrect, PTL

-----------------------------------------------------------------------------
(* WHAT THE VERDICTS SAY OF A TRADE                                        *)

(* Of two different events of a build one arrived first.                   *)
LEMMA PrecedesTotal ==
    ASSUME NEW e \in Event, NEW f \in Event, e.event_sk # f.event_sk
    PROVE  Precedes(e, f) \/ Precedes(f, e)
<1>1. /\ e.event_sk \in Nat /\ f.event_sk \in Nat
      /\ e.batch_seq \in Nat /\ f.batch_seq \in Nat
      /\ e.sent.effective_event_ts \in Nat /\ f.sent.effective_event_ts \in Nat
  BY EventFields
<1>. QED
  BY <1>1 DEF Precedes

(* An event labelled NEW has no version above 0 before it.                 *)
LEMMA JudgedNew ==
    ASSUME NEW pending, NEW prior, NEW now,
           NEW b \in Judged(pending, prior, now),
           b.version_action = "NEW",
           NEW valid, valid = {e \in pending : IsFieldValid(e, businessDate)}
    PROVE  \A f \in MarksBefore(valid, prior, b.event) : f.sent.trade_version <= 0
<1>1. VersionActionOf(valid, prior, b.event) = "NEW"
  BY DEF Judged
<1>. QED
  BY <1>1 DEF VersionActionOf

(* An accepted event has passed RJ010.                                     *)
LEMMA JudgedOpen ==
    ASSUME NEW pending, NEW prior, NEW now,
           NEW b \in Judged(pending, prior, now), b.verdict = "ACCEPTED"
    PROVE  ~RJ010(prior, b.event)
<1>. DEFINE valid == {e \in pending : IsFieldValid(e, businessDate)}
<1>1. VerdictOn(valid, prior, b.event) = "ACCEPTED"
  BY DEF Judged
<1>. QED
  BY <1>1 DEF VerdictOn

LEMMA NewStep == LogInv /\ OneNewPerTrade /\ [Next]_vars => OneNewPerTrade'
<1> SUFFICES ASSUME LogInv, OneNewPerTrade, [Next]_vars
             PROVE  OneNewPerTrade'
  OBVIOUS
<1>1. CASE Adjudicate
  <2>. DEFINE prior == {a.event : a \in Accepted}
              new == Judged(Pending, prior, run + 1)
              valid == {e \in Pending : IsFieldValid(e, businessDate)}
  <2>1. /\ adjudicated' = adjudicated \cup new
        /\ \A b \in new : b.event \in Pending
        /\ \A b, c \in new : b.event = c.event => b = c
    BY <1>1, LogGrows DEF LogInv
  <2>2. \A b \in new : b.verdict = "ACCEPTED" =>
            b.event \in valid /\ ~Loses(valid, b.event)
    BY JudgedAccepted
  <2>3. \A b \in new : b.version_action = "NEW" =>
            \A f \in MarksBefore(valid, prior, b.event) : f.sent.trade_version <= 0
    BY JudgedNew
  <2>4. \A b \in new : b.event \in queue /\ b.event \in Event
    BY <2>1 DEF Pending, LogInv, TypeOK
  <2>5. \A a \in adjudicated \cup new : a.event.sent.trade_version \in Int
    BY <2>4, EventFields DEF LogInv, TypeOK, AdjudicatedRow
  <2>. HIDE DEF new, valid, prior
  <2>6. ASSUME NEW a \in adjudicated', NEW b \in new,
               a.verdict = "ACCEPTED", a.event.sent.trade_version > 0,
               b.version_action = "NEW", SameTrade(a.event, b.event),
               a \in adjudicated \/ (a \in new /\ Precedes(a.event, b.event))
        PROVE  FALSE
    <3>1. CASE a \in adjudicated
      <4>1. a.event \in MarksBefore(valid, prior, b.event)
        BY <2>6, <3>1 DEF MarksBefore, prior, Accepted
      <4>. QED
        BY <2>3, <2>5, <2>6, <3>1, <4>1
    <3>2. CASE a \in new /\ Precedes(a.event, b.event)
      <4>1. a.event \in MarksBefore(valid, prior, b.event)
        BY <2>2, <2>6, <3>2 DEF MarksBefore
      <4>. QED
        BY <2>3, <2>5, <2>6, <3>2, <4>1
    <3>. QED
      BY <2>6, <3>1, <3>2
  <2>. SUFFICES ASSUME NEW a \in adjudicated', NEW b \in adjudicated',
                       a.verdict = "ACCEPTED", b.verdict = "ACCEPTED",
                       SameTrade(a.event, b.event),
                       a.version_action = "NEW", b.version_action = "NEW",
                       a.event.sent.trade_version > 0, b.event.sent.trade_version > 0
                PROVE  a = b
    BY DEF OneNewPerTrade, Accepted
  <2>7. SameTrade(b.event, a.event)
    BY DEF SameTrade
  <2>8. CASE a \in adjudicated /\ b \in adjudicated
    BY <2>8 DEF OneNewPerTrade, Accepted
  <2>9. CASE a \in adjudicated /\ b \in new
    <3>1. a \in adjudicated'
      OBVIOUS
    <3>. QED
      BY <2>6, <2>9, <3>1
  <2>10. CASE a \in new /\ b \in adjudicated
    BY <2>6, <2>7, <2>10
  <2>11. CASE a \in new /\ b \in new
    <3>1. a.event.event_sk = b.event.event_sk
      BY <2>4, <2>6, <2>7, <2>11, PrecedesTotal
    <3>2. a.event = b.event
      BY <2>4, <2>11, <3>1 DEF LogInv, ArbitrationInv, KeysAndStamps
    <3>. QED
      BY <2>1, <2>11, <3>2
  <2>. QED
    BY <2>1, <2>8, <2>9, <2>10, <2>11
<1>2. CASE UNCHANGED adjudicated
  BY <1>2 DEF OneNewPerTrade, Accepted
<1>. QED
  BY <1>1, <1>2 DEF Next, Drain, BuildVersionLedger, BuildTrade, BuildRejected,
     RetryMarts, NextDay, vars, tableVars

(* A trade is labelled NEW once, however its events are split into builds. *)
THEOREM TradeIsNewOnce == Spec => []OneNewPerTrade
<1>1. Init => OneNewPerTrade
  BY DEF Init, OneNewPerTrade, Accepted
<1>2. LogInv /\ OneNewPerTrade /\ [Next]_vars => OneNewPerTrade'
  BY NewStep
<1>. QED
  BY <1>1, <1>2, LogCorrect, PTL DEF Spec

(* The actions RJ010 knows.  No rule refuses an event with another one, so *)
(* this is an assumption about what is sent.                               *)
KnownActions == Action \subseteq {"NEW", "AMEND", "CANCEL"}

(* After a build that accepted a cancellation only cancellations are       *)
(* accepted.                                                               *)
CancelledForLaterBuilds ==
    \A a, b \in Accepted :
        /\ SameTrade(a.event, b.event)
        /\ a.event.sent.action = "CANCEL"
        /\ a.adjudicated_at < b.adjudicated_at
        => b.event.sent.action = "CANCEL"

LEMMA CancelledStep ==
    ASSUME KnownActions
    PROVE  LogInv /\ CancelledForLaterBuilds /\ [Next]_vars => CancelledForLaterBuilds'
<1> SUFFICES ASSUME LogInv, CancelledForLaterBuilds, [Next]_vars
             PROVE  CancelledForLaterBuilds'
  OBVIOUS
<1>stamps. run \in Nat /\ \A a \in adjudicated : a.adjudicated_at \in 0 .. run
  BY LogStamps
<1>1. CASE Adjudicate
  <2>. DEFINE prior == {a.event : a \in Accepted}
              new == Judged(Pending, prior, run + 1)
  <2>1. /\ adjudicated' = adjudicated \cup new
        /\ \A b \in new : b.event \in Pending /\ b.adjudicated_at = run + 1
    BY <1>1, LogGrows DEF LogInv
  <2>2. ASSUME NEW b \in new, b.verdict = "ACCEPTED",
               NEW f \in prior, SameTrade(f, b.event), f.sent.action = "CANCEL"
        PROVE  b.event.sent.action = "CANCEL"
    <3>1. ~RJ010(prior, b.event)
      BY <2>2, JudgedOpen
    <3>2. b.event.sent.action \in Action
      BY <2>1, <2>2, EventFields DEF Pending, LogInv, TypeOK
    <3>. QED
      BY <2>2, <3>1, <3>2 DEF RJ010, KnownActions
  <2>. HIDE DEF new
  <2>. SUFFICES ASSUME NEW a \in adjudicated', NEW b \in adjudicated',
                       a.verdict = "ACCEPTED", b.verdict = "ACCEPTED",
                       SameTrade(a.event, b.event),
                       a.event.sent.action = "CANCEL",
                       a.adjudicated_at < b.adjudicated_at
                PROVE  b.event.sent.action = "CANCEL"
    BY DEF CancelledForLaterBuilds, Accepted
  <2>3. a \in adjudicated
    BY <1>stamps, <2>1
  <2>4. CASE b \in adjudicated
    BY <2>3, <2>4 DEF CancelledForLaterBuilds, Accepted
  <2>5. CASE b \in new
    <3>1. a.event \in prior
      BY <2>3 DEF Accepted
    <3>. QED
      BY <2>2, <2>5, <3>1
  <2>. QED
    BY <2>1, <2>4, <2>5
<1>2. CASE UNCHANGED adjudicated
  BY <1>2 DEF CancelledForLaterBuilds, Accepted
<1>. QED
  BY <1>1, <1>2 DEF Next, Drain, BuildVersionLedger, BuildTrade, BuildRejected,
     RetryMarts, NextDay, vars, tableVars

-----------------------------------------------------------------------------
(* THE GOLDEN RECORD                                                       *)

(* A golden row shows an accepted event that the ledger had consumed.      *)
GoldenFromLedger ==
    \A g \in golden :
        /\ g.dbt_updated_at \in 0 .. run
        /\ \E a \in Accepted : /\ a.event = g.event
                               /\ \E r \in ledger : a.adjudicated_at <= r.dbt_updated_at
        /\ g.lifecycle_status = "CANCELLED" => g.event.sent.action = "CANCEL"

GoldenKeyUnique ==
    \A g, h \in golden : SameTrade(g.event, h.event) => g = h

(* A ledger row is shown, or is below what is shown, or is above the       *)
(* golden record's watermark; what is above it was accepted later.         *)
GoldenCovers ==
    \A r \in ledger :
        \/ r \in NewLedgerRows
        \/ \E g \in golden : /\ SameTrade(g.event, r.event)
                             /\ r.event.sent.trade_version <= g.event.sent.trade_version

NewRowsAreLater ==
    \A r \in NewLedgerRows, g \in golden :
        \E a, b \in Accepted :
            a.event = g.event /\ b.event = r.event /\ a.adjudicated_at < b.adjudicated_at

GoldenShowsLedger ==
    \A g \in golden :
        \E r \in ledger : /\ SameVersion(r.event, g.event)
                          /\ r.event = g.event \/ r \in NewLedgerRows

(* The order of the two marts: the ledger is never behind a golden record  *)
(* of the same run.                                                        *)
MartOrder ==
    /\ todo \cap {"fct_trade_version", "fct_trade"} = {} => NewLedgerRows = {}
    /\ "fct_trade_version" \in todo => "fct_trade" \in todo
    /\ (\E g \in golden : g.dbt_updated_at = run) => NewlyAccepted = {}

GoldenInv ==
    /\ GoldenFromLedger /\ GoldenKeyUnique /\ GoldenCovers
    /\ NewRowsAreLater /\ GoldenShowsLedger /\ MartOrder

LEMMA GoldenInit == Init => GoldenInv
BY DEF Init, GoldenInv, GoldenFromLedger, GoldenKeyUnique, GoldenCovers,
       NewRowsAreLater, GoldenShowsLedger, MartOrder, NewLedgerRows

(* The changes fct_trade picks: the top row of every trade it has news of. *)
LEMMA ChangesPicked ==
    ASSUME LogInv, LedgerInv
    PROVE  /\ \A e \in Changes : \E r \in NewLedgerRows : r.event = e
           /\ \A e, f \in Changes : SameTrade(e, f) => e = f
           /\ \A r \in NewLedgerRows : \E e \in Changes :
                SameTrade(e, r.event) /\ r.event.sent.trade_version <= e.sent.trade_version
<1>1. \A e \in Changes :
        /\ \E r \in NewLedgerRows : r.event = e
        /\ \A q \in NewLedgerRows :
             SameTrade(q.event, e) => q.event.sent.trade_version <= e.sent.trade_version
  BY DEF Changes
<1>2. \A r \in NewLedgerRows :
        /\ r \in ledger /\ r.event \in {a.event : a \in adjudicated}
        /\ r.event.sent.trade_version \in Int
  <2>1. \A r \in NewLedgerRows : r \in ledger /\ \E a \in adjudicated : a.event = r.event
    BY DEF NewLedgerRows, LedgerInv, LedgerFromLog, Accepted
  <2>2. \A r \in ledger : r.event.sent.trade_version \in Int
    BY EventFields DEF LogInv, TypeOK, LedgerRow
  <2>. QED
    BY <2>1, <2>2
<1>3. ASSUME NEW e \in Changes, NEW f \in Changes, SameTrade(e, f)
      PROVE  e = f
  <2>1. SameTrade(f, e)
    BY <1>3 DEF SameTrade
  <2>2. PICK r \in NewLedgerRows, q \in NewLedgerRows : r.event = e /\ q.event = f
    BY <1>1
  <2>3. e.sent.trade_version = f.sent.trade_version
    BY <1>1, <1>2, <1>3, <2>1, <2>2
  <2>4. r = q
    BY <1>2, <1>3, <2>2, <2>3 DEF LedgerInv, LedgerKeyUnique, SameVersion
  <2>. QED
    BY <2>2, <2>4
<1>4. ASSUME NEW r \in NewLedgerRows
      PROVE  \E e \in Changes :
               SameTrade(e, r.event) /\ r.event.sent.trade_version <= e.sent.trade_version
  <2>. DEFINE S == {q.event : q \in NewLedgerRows}
  <2>1. S \subseteq {a.event : a \in adjudicated} /\ r.event \in S
    BY <1>2
  <2>. HIDE DEF S
  <2>2. PICK f \in S : /\ SameTrade(f, r.event)
                       /\ \A g \in S : SameTrade(g, f) =>
                            g.sent.trade_version <= f.sent.trade_version
    BY <2>1, TopOfTrade DEF LogInv
  <2>3. PICK c \in NewLedgerRows : f = c.event
    BY DEF S
  <2>4. \A q \in NewLedgerRows : SameTrade(q.event, c.event) =>
            q.event.sent.trade_version <= c.event.sent.trade_version
    BY <2>2, <2>3 DEF S
  <2>5. f \in Changes
    BY <2>3, <2>4 DEF Changes
  <2>6. r.event.sent.trade_version <= f.sent.trade_version
    BY <2>1, <2>2 DEF SameTrade
  <2>. QED
    BY <2>2, <2>5, <2>6
<1>. QED
  BY <1>1, <1>3, <1>4

(* What is shown of a trade and what is above the watermark are in order.  *)
LEMMA NewsIsNewer ==
    ASSUME LogInv, GoldenInv, NEW r \in NewLedgerRows, NEW g \in golden,
           SameTrade(g.event, r.event)
    PROVE  g.event.sent.trade_version <= r.event.sent.trade_version
<1>1. PICK a \in Accepted, b \in Accepted :
         a.event = g.event /\ b.event = r.event /\ a.adjudicated_at < b.adjudicated_at
  BY DEF GoldenInv, NewRowsAreLater
<1>. QED
  BY <1>1 DEF LogInv, ArbitrationInv, AcceptedInOrder

(* The golden record after its build.                                      *)
LEMMA GoldenBuilt ==
    ASSUME LogInv, LedgerInv, GoldenInv, BuildTrade
    PROVE  /\ \A h \in golden' :
                \/ /\ h.event \in Changes /\ h.dbt_updated_at = run
                   /\ h.lifecycle_status = LifecycleStatus(h.event)
                \/ \E g \in golden :
                     /\ h.event = g.event
                     /\ \A e \in Changes : ~SameTrade(e, g.event)
                     /\ \/ h = g /\ ~NeedsExpiry(g)
                        \/ /\ h.dbt_updated_at = run /\ h.lifecycle_status = "EXPIRED"
                           /\ NeedsExpiry(g)
           /\ \A e \in Changes : \E h \in golden' : h.event = e /\ h.dbt_updated_at = run
           /\ \A g \in golden : (\A e \in Changes : ~SameTrade(e, g.event)) =>
                \E h \in golden' : /\ h.event = g.event
                                   /\ h.dbt_updated_at >= g.dbt_updated_at
           /\ \A h, k \in golden' : h.event = k.event /\ h.event \in Changes => h = k
           /\ UNCHANGED <<adjudicated, ledger, run>>
<1>. DEFINE new(e) == [event |-> e, lifecycle_status |-> LifecycleStatus(e),
                       dbt_updated_at |-> run]
            expired(g) == [g EXCEPT !.lifecycle_status = "EXPIRED", !.dbt_updated_at = run]
            kept == {g \in golden : /\ \A e \in Changes : ~SameTrade(e, g.event)
                                    /\ ~NeedsExpiry(g)}
            due == {g \in golden : NeedsExpiry(g)}
<1>1. /\ golden' = kept \cup {new(e) : e \in Changes} \cup {expired(g) : g \in due}
      /\ UNCHANGED <<adjudicated, ledger, run>>
  BY DEF BuildTrade, feedVars
<1>2. \A e : /\ new(e).event = e /\ new(e).dbt_updated_at = run
             /\ new(e).lifecycle_status = LifecycleStatus(e)
  OBVIOUS
<1>3. \A g \in golden : /\ expired(g).event = g.event
                        /\ expired(g).dbt_updated_at = run
                        /\ expired(g).lifecycle_status = "EXPIRED"
  BY DEF LogInv, TypeOK, GoldenRow
<1>4. /\ \A g \in kept : /\ g \in golden /\ ~NeedsExpiry(g)
                         /\ \A e \in Changes : ~SameTrade(e, g.event)
      /\ \A g \in golden : NeedsExpiry(g) => \A e \in Changes : ~SameTrade(e, g.event)
      /\ \A g \in due : g \in golden /\ NeedsExpiry(g)
      /\ \A g \in golden : (\A e \in Changes : ~SameTrade(e, g.event)) => g \in kept \/ g \in due
  BY DEF NeedsExpiry
<1>5. \A g \in golden : g.dbt_updated_at \in 0 .. run
  BY DEF GoldenInv, GoldenFromLedger
<1>. HIDE DEF new, expired, kept, due
<1>6. ASSUME NEW h \in golden'
      PROVE  \/ /\ h.event \in Changes /\ h.dbt_updated_at = run
                /\ h.lifecycle_status = LifecycleStatus(h.event)
                /\ h = new(h.event)
             \/ \E g \in golden :
                  /\ h.event = g.event
                  /\ \A e \in Changes : ~SameTrade(e, g.event)
                  /\ \/ h = g /\ ~NeedsExpiry(g)
                     \/ /\ h.dbt_updated_at = run /\ h.lifecycle_status = "EXPIRED"
                        /\ NeedsExpiry(g)
  <2>1. CASE h \in kept
    BY <1>4, <2>1
  <2>2. CASE \E e \in Changes : h = new(e)
    BY <1>2, <2>2
  <2>3. CASE \E g \in due : h = expired(g)
    BY <1>3, <1>4, <2>3
  <2>. QED
    BY <1>1, <2>1, <2>2, <2>3
<1>7. \A e \in Changes : \E h \in golden' : h.event = e /\ h.dbt_updated_at = run
  BY <1>1, <1>2
<1>8. ASSUME NEW g \in golden, \A e \in Changes : ~SameTrade(e, g.event)
      PROVE  \E h \in golden' : /\ h.event = g.event
                                /\ h.dbt_updated_at >= g.dbt_updated_at
  <2>1. CASE g \in kept
    BY <1>1, <1>5, <2>1
  <2>2. CASE g \in due
    <3>1. expired(g) \in golden'
      BY <1>1, <2>2
    <3>. QED
      BY <1>3, <1>5, <3>1
  <2>. QED
    BY <1>4, <1>8, <2>1, <2>2
<1>9. \A h \in golden' : h.event \in Changes => h = new(h.event)
  BY <1>6 DEF SameTrade
<1>. QED
  BY <1>1, <1>6, <1>7, <1>8, <1>9

LEMMA AdjudicateKeepsGolden ==
    ASSUME LogInv, LedgerInv, GoldenInv, Adjudicate
    PROVE  GoldenInv'
<1>1. /\ adjudicated \subseteq adjudicated'
      /\ UNCHANGED <<ledger, golden>>
      /\ todo' = Mart /\ run' = run + 1 /\ run \in Nat
  BY LogGrows DEF Adjudicate, LogInv, TypeOK
<1>2. Accepted \subseteq Accepted' /\ NewLedgerRows' = NewLedgerRows
  BY <1>1 DEF Accepted, NewLedgerRows
<1>3. \A g \in golden : g.dbt_updated_at \in 0 .. run
  BY DEF GoldenInv, GoldenFromLedger
<1>4. GoldenFromLedger'
  BY <1>1, <1>2 DEF GoldenInv, GoldenFromLedger
<1>5. GoldenKeyUnique' /\ GoldenCovers' /\ GoldenShowsLedger'
  BY <1>1, <1>2 DEF GoldenInv, GoldenKeyUnique, GoldenCovers, GoldenShowsLedger
<1>6. NewRowsAreLater'
  BY <1>1, <1>2 DEF GoldenInv, NewRowsAreLater
<1>7. MartOrder'
  BY <1>1, <1>3 DEF MartOrder, Mart
<1>. QED
  BY <1>4, <1>5, <1>6, <1>7 DEF GoldenInv

LEMMA LedgerBuildKeepsGolden ==
    ASSUME LogInv, LedgerInv, GoldenInv, BuildVersionLedger
    PROVE  GoldenInv'
<1>1. /\ \A r \in ledger' : \/ r \in ledger
                            \/ r.event \in NewVersions /\ r.dbt_updated_at = run
      /\ \A e \in NewVersions : \E r \in ledger' : r.event = e /\ r.dbt_updated_at = run
      /\ \A r \in ledger : \/ r \in ledger'
                           \/ \E e \in NewVersions : SameVersion(e, r.event)
      /\ NewlyAccepted' = {}
      /\ UNCHANGED <<adjudicated, golden, run>>
  BY LedgerBuilt
<1>2. \A e \in NewVersions : \E a \in NewlyAccepted : a.event = e
  BY NewVersionsPicked
<1>3. /\ todo' = todo \ {"fct_trade_version"} /\ "fct_trade_version" \in todo
      /\ Accepted' = Accepted
  BY <1>1 DEF BuildVersionLedger, Accepted
<1>4. run \in Nat /\ \A a \in Accepted : a.adjudicated_at \in 0 .. run
  BY LogStamps DEF Accepted
<1>5. /\ \A g \in golden : g.dbt_updated_at \in 0 .. run
      /\ \A r \in ledger : r.dbt_updated_at \in 0 .. run
  BY DEF GoldenInv, GoldenFromLedger, LedgerInv, LedgerFromLog
<1>6. ASSUME NewVersions # {}, NEW g \in golden
      PROVE  run > g.dbt_updated_at
  <2>1. g.dbt_updated_at # run
    BY <1>2, <1>6 DEF GoldenInv, MartOrder
  <2>. QED
    BY <1>4, <1>5, <2>1
<1>7. \A r \in ledger' : r \notin ledger => r \in NewLedgerRows'
  BY <1>1, <1>6 DEF NewLedgerRows
<1>8. \A r \in ledger' : r \in NewLedgerRows => r \in NewLedgerRows'
  BY <1>1 DEF NewLedgerRows
<1>9. GoldenFromLedger'
  <2>. SUFFICES ASSUME NEW a \in Accepted, NEW r \in ledger,
                       a.adjudicated_at <= r.dbt_updated_at
                PROVE  \E q \in ledger' : a.adjudicated_at <= q.dbt_updated_at
    BY <1>1, <1>3 DEF GoldenInv, GoldenFromLedger
  <2>1. CASE r \in ledger'
    BY <2>1
  <2>2. CASE r \notin ledger'
    <3>1. PICK q \in ledger' : q.dbt_updated_at = run
      BY <1>1, <2>2
    <3>. QED
      BY <1>4, <3>1
  <2>. QED
    BY <2>1, <2>2
<1>10. GoldenKeyUnique'
  BY <1>1 DEF GoldenInv, GoldenKeyUnique
<1>11. GoldenCovers'
  BY <1>1, <1>7, <1>8 DEF GoldenInv, GoldenCovers
<1>12. NewRowsAreLater'
  <2>. SUFFICES ASSUME NEW r \in NewLedgerRows', NEW g \in golden
                PROVE  \E a, b \in Accepted :
                         /\ a.event = g.event /\ b.event = r.event
                         /\ a.adjudicated_at < b.adjudicated_at
    BY <1>1, <1>3 DEF NewRowsAreLater
  <2>1. r \in ledger' /\ \A h \in golden : r.dbt_updated_at > h.dbt_updated_at
    BY <1>1 DEF NewLedgerRows
  <2>2. CASE r \in ledger
    <3>1. r \in NewLedgerRows
      BY <2>1, <2>2 DEF NewLedgerRows
    <3>. QED
      BY <3>1 DEF GoldenInv, NewRowsAreLater
  <2>3. CASE r \notin ledger
    <3>1. PICK b \in NewlyAccepted : b.event = r.event
      BY <1>1, <1>2, <2>1, <2>3
    <3>2. PICK a \in Accepted :
             a.event = g.event /\ \E q \in ledger : a.adjudicated_at <= q.dbt_updated_at
      BY DEF GoldenInv, GoldenFromLedger
    <3>3. b \in Accepted /\ \A q \in ledger : b.adjudicated_at > q.dbt_updated_at
      BY DEF NewlyAccepted
    <3>4. a.adjudicated_at < b.adjudicated_at
      BY <1>4, <1>5, <3>2, <3>3
    <3>. QED
      BY <3>1, <3>2, <3>3, <3>4
  <2>. QED
    BY <2>2, <2>3
<1>13. GoldenShowsLedger'
  <2>. SUFFICES ASSUME NEW g \in golden
                PROVE  \E q \in ledger' : /\ SameVersion(q.event, g.event)
                                          /\ q.event = g.event \/ q \in NewLedgerRows'
    BY <1>1 DEF GoldenShowsLedger
  <2>1. PICK r \in ledger : /\ SameVersion(r.event, g.event)
                            /\ r.event = g.event \/ r \in NewLedgerRows
    BY DEF GoldenInv, GoldenShowsLedger
  <2>2. CASE r \in ledger'
    BY <1>8, <2>1, <2>2
  <2>3. CASE r \notin ledger'
    <3>1. PICK e \in NewVersions : SameVersion(e, r.event)
      BY <1>1, <2>3
    <3>2. PICK q \in ledger' : q.event = e /\ q.dbt_updated_at = run
      BY <1>1
    <3>3. q \in NewLedgerRows'
      BY <1>1, <1>6, <3>1, <3>2 DEF NewLedgerRows
    <3>4. SameVersion(q.event, g.event)
      BY <2>1, <3>1, <3>2 DEF SameVersion, SameTrade
    <3>. QED
      BY <3>3, <3>4
  <2>. QED
    BY <2>2, <2>3
<1>14. MartOrder'
  BY <1>1, <1>3 DEF GoldenInv, MartOrder
<1>. QED
  BY <1>9, <1>10, <1>11, <1>12, <1>13, <1>14 DEF GoldenInv

LEMMA TradeBuildKeepsGolden ==
    ASSUME LogInv, LogInv', LedgerInv, GoldenInv, BuildTrade
    PROVE  GoldenInv'
<1>1. /\ \A h \in golden' :
           \/ /\ h.event \in Changes /\ h.dbt_updated_at = run
              /\ h.lifecycle_status = LifecycleStatus(h.event)
           \/ \E g \in golden :
                /\ h.event = g.event
                /\ \A e \in Changes : ~SameTrade(e, g.event)
                /\ \/ h = g /\ ~NeedsExpiry(g)
                   \/ /\ h.dbt_updated_at = run /\ h.lifecycle_status = "EXPIRED"
                      /\ NeedsExpiry(g)
      /\ \A e \in Changes : \E h \in golden' : h.event = e /\ h.dbt_updated_at = run
      /\ \A g \in golden : (\A e \in Changes : ~SameTrade(e, g.event)) =>
           \E h \in golden' : /\ h.event = g.event
                              /\ h.dbt_updated_at >= g.dbt_updated_at
      /\ \A h, k \in golden' : h.event = k.event /\ h.event \in Changes => h = k
      /\ UNCHANGED <<adjudicated, ledger, run>>
  BY GoldenBuilt
<1>2. /\ \A e \in Changes : \E r \in NewLedgerRows : r.event = e
      /\ \A e, f \in Changes : SameTrade(e, f) => e = f
      /\ \A r \in NewLedgerRows : \E e \in Changes :
           SameTrade(e, r.event) /\ r.event.sent.trade_version <= e.sent.trade_version
  BY ChangesPicked
<1>3. /\ todo' = todo \ {"fct_trade"}
      /\ "fct_trade_version" \notin todo
      /\ Accepted' = Accepted /\ NewlyAccepted' = NewlyAccepted
  BY <1>1 DEF BuildTrade, Accepted, NewlyAccepted
<1>4. /\ run \in Nat
      /\ \A g \in golden : g.dbt_updated_at \in 0 .. run
      /\ \A r \in ledger : r.dbt_updated_at \in 0 .. run
      /\ \A r \in ledger : r.event.sent.trade_version \in Int
      /\ \A g \in golden : g.event.sent.trade_version \in Int
  BY LogStamps, EventFields DEF GoldenInv, GoldenFromLedger, LedgerInv, LedgerFromLog,
     LogInv, TypeOK, LedgerRow, GoldenRow
<1>5. NewLedgerRows \subseteq ledger
  BY DEF NewLedgerRows
<1>6. NewLedgerRows' = {}
  <2>. SUFFICES ASSUME NEW r \in NewLedgerRows'
                PROVE  FALSE
    OBVIOUS
  <2>1. r \in ledger /\ \A h \in golden' : r.dbt_updated_at > h.dbt_updated_at
    BY <1>1 DEF NewLedgerRows
  <2>2. Changes = {}
    BY <1>1, <1>4, <2>1
  <2>3. \A g \in golden : r.dbt_updated_at > g.dbt_updated_at
    <3>. SUFFICES ASSUME NEW g \in golden
                  PROVE  r.dbt_updated_at > g.dbt_updated_at
      OBVIOUS
    <3>1. PICK h \in golden' : h.dbt_updated_at >= g.dbt_updated_at
      BY <1>1, <2>2
    <3>2. h.dbt_updated_at \in Int
      BY DEF LogInv, TypeOK, GoldenRow
    <3>. QED
      BY <1>4, <2>1, <3>1, <3>2
  <2>4. r \in NewLedgerRows
    BY <2>1, <2>3 DEF NewLedgerRows
  <2>. QED
    BY <1>2, <2>2, <2>4
<1>7. GoldenFromLedger'
  <2>. SUFFICES ASSUME NEW h \in golden'
                PROVE  /\ h.dbt_updated_at \in 0 .. run
                       /\ \E a \in Accepted :
                            /\ a.event = h.event
                            /\ \E r \in ledger : a.adjudicated_at <= r.dbt_updated_at
                       /\ h.lifecycle_status = "CANCELLED" => h.event.sent.action = "CANCEL"
    BY <1>1, <1>3 DEF GoldenFromLedger
  <2>1. CASE h.event \in Changes /\ h.dbt_updated_at = run
             /\ h.lifecycle_status = LifecycleStatus(h.event)
    <3>1. PICK r \in ledger : r.event = h.event
      BY <1>2, <1>5, <2>1
    <3>2. \E a \in Accepted : a.event = h.event /\ a.adjudicated_at <= r.dbt_updated_at
      BY <3>1 DEF LedgerInv, LedgerFromLog
    <3>. QED
      BY <1>4, <2>1, <3>2 DEF LifecycleStatus
  <2>2. ASSUME NEW g \in golden, h.event = g.event,
               h = g \/ (h.dbt_updated_at = run /\ h.lifecycle_status = "EXPIRED")
        PROVE  /\ h.dbt_updated_at \in 0 .. run
               /\ \E a \in Accepted :
                    /\ a.event = h.event
                    /\ \E r \in ledger : a.adjudicated_at <= r.dbt_updated_at
               /\ h.lifecycle_status = "CANCELLED" => h.event.sent.action = "CANCEL"
    BY <1>4, <2>2 DEF GoldenInv, GoldenFromLedger
  <2>. QED
    BY <1>1, <2>1, <2>2
<1>8. GoldenKeyUnique'
  <2>. SUFFICES ASSUME NEW h \in golden', NEW k \in golden', SameTrade(h.event, k.event)
                PROVE  h = k
    BY DEF GoldenKeyUnique
  <2>1. SameTrade(k.event, h.event)
    BY DEF SameTrade
  <2>2. CASE h.event \in Changes
    <3>1. k.event \in Changes
      BY <1>1, <2>2
    <3>. QED
      BY <1>1, <1>2, <2>2, <3>1
  <2>3. CASE h.event \notin Changes
    <3>1. k.event \notin Changes
      BY <1>1, <2>1, <2>3
    <3>2. PICK g \in golden : /\ h.event = g.event
                              /\ \/ h = g /\ ~NeedsExpiry(g)
                                 \/ /\ h.dbt_updated_at = run
                                    /\ h.lifecycle_status = "EXPIRED"
                                    /\ NeedsExpiry(g)
      BY <1>1, <2>3
    <3>3. PICK f \in golden : /\ k.event = f.event
                              /\ \/ k = f /\ ~NeedsExpiry(f)
                                 \/ /\ k.dbt_updated_at = run
                                    /\ k.lifecycle_status = "EXPIRED"
                                    /\ NeedsExpiry(f)
      BY <1>1, <3>1
    <3>4. g = f
      BY <3>2, <3>3 DEF GoldenInv, GoldenKeyUnique
    <3>5. h \in GoldenRow /\ k \in GoldenRow
      BY DEF LogInv, TypeOK
    <3>. QED
      BY <3>2, <3>3, <3>4, <3>5 DEF GoldenRow
  <2>. QED
    BY <2>2, <2>3
<1>9. GoldenCovers'
  <2>. SUFFICES ASSUME NEW r \in ledger
                PROVE  \E h \in golden' :
                         /\ SameTrade(h.event, r.event)
                         /\ r.event.sent.trade_version <= h.event.sent.trade_version
    BY <1>1 DEF GoldenCovers
  <2>1. CASE r \in NewLedgerRows
    <3>1. PICK e \in Changes :
             SameTrade(e, r.event) /\ r.event.sent.trade_version <= e.sent.trade_version
      BY <1>2, <2>1
    <3>. QED
      BY <1>1, <3>1
  <2>2. CASE r \notin NewLedgerRows
    <3>1. PICK g \in golden : /\ SameTrade(g.event, r.event)
                              /\ r.event.sent.trade_version <= g.event.sent.trade_version
      BY <2>2 DEF GoldenInv, GoldenCovers
    <3>2. CASE \A e \in Changes : ~SameTrade(e, g.event)
      BY <1>1, <3>1, <3>2
    <3>3. ASSUME NEW e \in Changes, SameTrade(e, g.event)
          PROVE  \E h \in golden' :
                   /\ SameTrade(h.event, r.event)
                   /\ r.event.sent.trade_version <= h.event.sent.trade_version
      <4>1. PICK q \in NewLedgerRows : q.event = e
        BY <1>2
      <4>2. g.event.sent.trade_version <= e.sent.trade_version
        BY <3>3, <4>1, NewsIsNewer DEF SameTrade
      <4>3. r.event.sent.trade_version <= e.sent.trade_version
        BY <1>4, <1>5, <3>1, <4>1, <4>2
      <4>4. SameTrade(e, r.event)
        BY <3>1, <3>3 DEF SameTrade
      <4>. QED
        BY <1>1, <4>3, <4>4
    <3>. QED
      BY <3>2, <3>3
  <2>. QED
    BY <2>1, <2>2
<1>10. NewRowsAreLater'
  BY <1>6 DEF NewRowsAreLater
<1>11. GoldenShowsLedger'
  <2>. SUFFICES ASSUME NEW h \in golden'
                PROVE  \E r \in ledger : r.event = h.event
    BY <1>1 DEF GoldenShowsLedger, SameVersion, SameTrade
  <2>1. CASE h.event \in Changes
    BY <1>2, <1>5, <2>1
  <2>2. ASSUME NEW g \in golden, h.event = g.event,
               \A e \in Changes : ~SameTrade(e, g.event)
        PROVE  \E r \in ledger : r.event = h.event
    <3>1. PICK r \in ledger : /\ SameVersion(r.event, g.event)
                              /\ r.event = g.event \/ r \in NewLedgerRows
      BY DEF GoldenInv, GoldenShowsLedger
    <3>2. r \notin NewLedgerRows
      BY <1>2, <2>2, <3>1 DEF SameVersion, SameTrade
    <3>. QED
      BY <2>2, <3>1, <3>2
  <2>. QED
    BY <1>1, <2>1, <2>2
<1>12. MartOrder'
  <2>1. NewlyAccepted = {}
    BY <1>3 DEF LedgerInv, LedgerCaughtUp
  <2>. QED
    BY <1>3, <1>6, <2>1 DEF MartOrder
<1>. QED
  BY <1>7, <1>8, <1>9, <1>10, <1>11, <1>12 DEF GoldenInv

LEMMA GoldenStep ==
    LogInv /\ LogInv' /\ LedgerInv /\ GoldenInv /\ [Next]_vars => GoldenInv'
<1> SUFFICES ASSUME LogInv, LogInv', LedgerInv, GoldenInv, [Next]_vars
             PROVE  GoldenInv'
  OBVIOUS
<1>1. CASE Adjudicate
  BY <1>1, AdjudicateKeepsGolden
<1>2. CASE BuildVersionLedger
  BY <1>2, LedgerBuildKeepsGolden
<1>3. CASE BuildTrade
  BY <1>3, TradeBuildKeepsGolden
<1>4. CASE UNCHANGED <<adjudicated, ledger, golden, run>> /\ (todo' = Mart \/ UNCHANGED todo
             \/ todo' = todo \ {"fct_trade_rejected"})
  <2>1. /\ Accepted' = Accepted /\ NewlyAccepted' = NewlyAccepted
        /\ NewLedgerRows' = NewLedgerRows
    BY <1>4 DEF Accepted, NewlyAccepted, NewLedgerRows
  <2>2. GoldenFromLedger' /\ NewRowsAreLater'
    BY <1>4, <2>1 DEF GoldenInv, GoldenFromLedger, NewRowsAreLater
  <2>3. GoldenKeyUnique' /\ GoldenCovers' /\ GoldenShowsLedger'
    BY <1>4, <2>1 DEF GoldenInv, GoldenKeyUnique, GoldenCovers, GoldenShowsLedger
  <2>4. MartOrder'
    BY <1>4, <2>1 DEF GoldenInv, MartOrder, Mart
  <2>. QED
    BY <2>2, <2>3, <2>4 DEF GoldenInv
<1>. QED
  BY <1>1, <1>2, <1>3, <1>4 DEF Next, Drain, BuildRejected, RetryMarts, NextDay, vars,
     tableVars, runVars

LEMMA GoldenCorrect == Spec => []GoldenInv
<1>1. LogInv /\ LogInv' /\ LedgerInv /\ GoldenInv /\ [Next]_vars => GoldenInv'
  BY GoldenStep
<1>. QED
  BY GoldenInit, <1>1, LogCorrect, LedgerCorrect, PTL DEF Spec

(* "The two can never disagree", for every history: once both marts are    *)
(* built, a trade of the ledger has one golden row, its highest version.   *)
THEOREM GoldenShowsTop == Spec => []GoldenIsLedgerTop
<1>1. GoldenInv => GoldenIsLedgerTop
  <2> SUFFICES ASSUME GoldenInv, todo \cap {"fct_trade_version", "fct_trade"} = {}
               PROVE  /\ \A r \in ledger : \E g \in golden :
                           /\ SameTrade(g.event, r.event)
                           /\ r.event.sent.trade_version <= g.event.sent.trade_version
                      /\ \A g, h \in golden : SameTrade(g.event, h.event) => g = h
                      /\ \A g \in golden : \E r \in ledger : r.event = g.event
    BY DEF GoldenIsLedgerTop
  <2>1. NewLedgerRows = {}
    BY DEF GoldenInv, MartOrder
  <2>2. \A g \in golden : \E r \in ledger : r.event = g.event
    BY <2>1 DEF GoldenInv, GoldenShowsLedger
  <2>3. \A r \in ledger : \E g \in golden :
            /\ SameTrade(g.event, r.event)
            /\ r.event.sent.trade_version <= g.event.sent.trade_version
    BY <2>1 DEF GoldenInv, GoldenCovers
  <2>. QED
    BY <2>2, <2>3 DEF GoldenInv, GoldenKeyUnique
<1>. QED
  BY <1>1, GoldenCorrect, PTL

-----------------------------------------------------------------------------
(* WHAT A STEP MAY NOT DO TO THE GOLDEN RECORD                             *)

(* Only fct_trade writes the golden record.                                *)
LEMMA GoldenWriter ==
    ASSUME [Next]_vars
    PROVE  BuildTrade \/ UNCHANGED golden
BY DEF Next, Drain, Adjudicate, BuildVersionLedger, BuildRejected, RetryMarts, NextDay,
       vars, tableVars

(* Rule R4 for every history: the sweep needs no event to find a trade.    *)
THEOREM MaturedAreSwept == Spec => ExpirySwept
<1>1. LogInv /\ LedgerInv /\ GoldenInv /\ [Next]_vars =>
        [BuildTrade => \A g \in golden' :
           g.lifecycle_status = "LIVE" => ~Matured(g.event.sent.maturity_date, businessDate)]_vars
  <2> SUFFICES ASSUME LogInv, LedgerInv, GoldenInv, BuildTrade, NEW h \in golden',
                      h.lifecycle_status = "LIVE"
               PROVE  ~Matured(h.event.sent.maturity_date, businessDate)
    OBVIOUS
  <2>1. CASE h.lifecycle_status = LifecycleStatus(h.event)
    BY <2>1 DEF LifecycleStatus
  <2>2. ASSUME NEW g \in golden, h = g, ~NeedsExpiry(g),
               \A e \in Changes : ~SameTrade(e, g.event)
        PROVE  ~Matured(h.event.sent.maturity_date, businessDate)
    BY <2>2 DEF NeedsExpiry
  <2>. QED
    BY <2>1, <2>2, GoldenBuilt
<1>. QED
  BY <1>1, LogCorrect, LedgerCorrect, GoldenCorrect, PTL DEF Spec, ExpirySwept

(* The golden record moves forward only: a new row replaces one of a lower *)
(* or the same version, because what is above its watermark was accepted   *)
(* in a later build than what it shows.                                    *)
THEOREM GoldenMovesForward == Spec => GoldenNeverGoesBack
<1>1. LogInv /\ LedgerInv /\ GoldenInv /\ [Next]_vars =>
        \A g \in golden : \E h \in golden' :
          /\ SameTrade(g.event, h.event)
          /\ g.event.sent.trade_version <= h.event.sent.trade_version
  <2> SUFFICES ASSUME LogInv, LedgerInv, GoldenInv, [Next]_vars, NEW g \in golden
               PROVE  \E h \in golden' :
                        /\ SameTrade(g.event, h.event)
                        /\ g.event.sent.trade_version <= h.event.sent.trade_version
    OBVIOUS
  <2>1. SameTrade(g.event, g.event) /\ g.event.sent.trade_version <= g.event.sent.trade_version
    BY EventFields DEF SameTrade, LogInv, TypeOK, GoldenRow
  <2>2. CASE UNCHANGED golden
    BY <2>1, <2>2
  <2>3. CASE BuildTrade
    <3>1. /\ \A e \in Changes : \E h \in golden' : h.event = e
          /\ (\A e \in Changes : ~SameTrade(e, g.event)) =>
               \E h \in golden' : h.event = g.event
      BY <2>3, GoldenBuilt
    <3>2. CASE \A e \in Changes : ~SameTrade(e, g.event)
      BY <2>1, <3>1, <3>2
    <3>3. ASSUME NEW e \in Changes, SameTrade(e, g.event)
          PROVE  \E h \in golden' :
                   /\ SameTrade(g.event, h.event)
                   /\ g.event.sent.trade_version <= h.event.sent.trade_version
      <4>1. PICK q \in NewLedgerRows : q.event = e
        BY ChangesPicked
      <4>2. SameTrade(g.event, e)
        BY <3>3 DEF SameTrade
      <4>3. g.event.sent.trade_version <= e.sent.trade_version
        BY <4>1, <4>2, NewsIsNewer
      <4>. QED
        BY <3>1, <4>2, <4>3
    <3>. QED
      BY <3>2, <3>3
  <2>. QED
    BY <2>2, <2>3, GoldenWriter
<1>. QED
  BY <1>1, LogCorrect, LedgerCorrect, GoldenCorrect, PTL DEF Spec, GoldenNeverGoesBack

(* "CANCELLED beats EXPIRED beats LIVE", for every history in which only   *)
(* the three known actions are sent: what replaces a cancelled row was     *)
(* accepted in a later build, and RJ010 lets only a cancellation through.  *)
THEOREM CancelledRowsStay ==
    ASSUME KnownActions
    PROVE  Spec => CancelledStays
<1>1. Init => CancelledForLaterBuilds
  BY DEF Init, CancelledForLaterBuilds, Accepted
<1>2. LogInv /\ CancelledForLaterBuilds /\ [Next]_vars => CancelledForLaterBuilds'
  BY CancelledStep
<1>3. LogInv /\ LedgerInv /\ GoldenInv /\ CancelledForLaterBuilds /\ [Next]_vars =>
        \A g \in golden, h \in golden' :
          SameTrade(g.event, h.event) /\ g.lifecycle_status = "CANCELLED"
            => h.lifecycle_status = "CANCELLED"
  <2> SUFFICES ASSUME LogInv, LedgerInv, GoldenInv, CancelledForLaterBuilds, [Next]_vars,
                      NEW g \in golden, NEW h \in golden', SameTrade(g.event, h.event),
                      g.lifecycle_status = "CANCELLED"
               PROVE  h.lifecycle_status = "CANCELLED"
    OBVIOUS
  <2>1. CASE UNCHANGED golden
    BY <2>1 DEF GoldenInv, GoldenKeyUnique
  <2>2. CASE BuildTrade
    <3>1. CASE h.event \in Changes /\ h.lifecycle_status = LifecycleStatus(h.event)
      <4>1. PICK q \in NewLedgerRows : q.event = h.event
        BY <3>1, ChangesPicked
      <4>2. PICK a \in Accepted, b \in Accepted :
               a.event = g.event /\ b.event = h.event /\ a.adjudicated_at < b.adjudicated_at
        BY <4>1 DEF GoldenInv, NewRowsAreLater
      <4>3. g.event.sent.action = "CANCEL"
        BY DEF GoldenInv, GoldenFromLedger
      <4>4. h.event.sent.action = "CANCEL"
        BY <4>2, <4>3 DEF CancelledForLaterBuilds
      <4>. QED
        BY <3>1, <4>4 DEF LifecycleStatus
    <3>2. ASSUME NEW f \in golden, h.event = f.event, h = f \/ NeedsExpiry(f)
          PROVE  h.lifecycle_status = "CANCELLED"
      <4>1. f = g
        BY <3>2 DEF GoldenInv, GoldenKeyUnique, SameTrade
      <4>. QED
        BY <3>2, <4>1 DEF NeedsExpiry
    <3>. QED
      BY <2>2, <3>1, <3>2, GoldenBuilt
  <2>. QED
    BY <2>1, <2>2, GoldenWriter
<1>. QED
  BY <1>1, <1>2, <1>3, LogCorrect, LedgerCorrect, GoldenCorrect, PTL
     DEF Spec, CancelledStays
=============================================================================
