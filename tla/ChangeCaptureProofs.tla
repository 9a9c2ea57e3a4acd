------------------------- MODULE ChangeCaptureProofs -------------------------
(***************************************************************************)
(* What holds of the change-capture layer for every set of events, every   *)
(* number of overlapping drains and every retention period.                *)
(***************************************************************************)
EXTENDS ChangeCapture, FiniteSetTheorems, TLAPS

-----------------------------------------------------------------------------
(* TYPE CORRECTNESS                                                        *)

(* The rows a drain writes are queue rows.                                 *)
LEMMA DrainedRowsType ==
    ASSUME NEW s \in Session
    PROVE  DrainedRows(s) \subseteq QueueRow
BY DEF DrainedRows, Session, QueueRow

(* A verdict carries its queue row's key and batch number.                 *)
LEMMA VerdictsType ==
    ASSUME NEW rows, rows \subseteq QueueRow
    PROVE  /\ Verdicts(rows) \subseteq AdjudicatedRow
           /\ EventsOf(Verdicts(rows)) = EventsOf(rows)
<1>1. \A q \in rows : q.event_sk \in Event /\ q.batch_seq \in Nat
  BY DEF QueueRow
<1>2. Verdicts(rows) \subseteq AdjudicatedRow
  BY <1>1 DEF Verdicts, AdjudicatedRow
<1>3. EventsOf(Verdicts(rows)) \subseteq EventsOf(rows)
  BY DEF Verdicts, EventsOf
<1>4. ASSUME NEW q \in rows
      PROVE  q.event_sk \in EventsOf(Verdicts(rows))
  <2>. DEFINE v == [event_sk |-> q.event_sk, batch_seq |-> q.batch_seq]
  <2>1. v \in Verdicts(rows) /\ v.event_sk = q.event_sk
    BY DEF Verdicts
  <2>. QED
    BY <2>1 DEF EventsOf
<1>. QED
  BY <1>2, <1>3, <1>4 DEF EventsOf

(* Every variable keeps its type: in particular LOAD_BATCH only ever holds *)
(* SUCCEEDED and FAILED drains, never a half-written one.                  *)
THEOREM TypeCorrect == Spec => []TypeOK
<1>1. Init => TypeOK
  BY DEF Init, TypeOK, Session, IdleSession, Build, IdleBuild
<1>2. TypeOK /\ [Next]_vars => TypeOK'
  <2> SUFFICES ASSUME TypeOK, [Next]_vars
               PROVE  TypeOK'
    OBVIOUS
  <2> USE DEF TypeOK
  <2>1. ASSUME NEW rows \in SUBSET (Event \ tradeEvent), Land(rows)
        PROVE  TypeOK'
    BY <2>1 DEF Land, buildVars
  <2>2. ASSUME NEW c \in Caller, EnterDrain(c)
        PROVE  TypeOK'
    <3>1. calls + 1 \in Nat
      OBVIOUS
    <3>2. session' \in [Caller -> Session]
      BY <2>2, <3>1 DEF EnterDrain, Session
    <3>. QED
      BY <2>2, <3>1, <3>2 DEF EnterDrain, buildVars
  <2>3. ASSUME NEW c \in Caller, TakeBatchSeq(c)
        PROVE  TypeOK'
    <3>1. seqBatchOrder + 1 \in Nat
      OBVIOUS
    <3>2. session[c] \in Session
      OBVIOUS
    <3>3. [session[c] EXCEPT !.pc = "numbered", !.batch_seq = seqBatchOrder + 1]
            \in Session
      BY <3>1, <3>2 DEF Session
    <3>4. session' \in [Caller -> Session]
      BY <2>3, <3>3 DEF TakeBatchSeq
    <3>. QED
      BY <2>3, <3>1, <3>4 DEF TakeBatchSeq, buildVars
  <2>4. ASSUME NEW c \in Caller, BeginTransaction(c)
        PROVE  TypeOK'
    BY <2>4 DEF BeginTransaction, Session, buildVars
  <2>5. ASSUME NEW c \in Caller, ConsumeStream(c)
        PROVE  TypeOK'
    BY <2>5 DEF ConsumeStream, Session, buildVars
  <2>6. ASSUME NEW c \in Caller, CommitDrain(c)
        PROVE  TypeOK'
    <3>1. session[c] \in Session
      OBVIOUS
    <3>2. DrainedRows(session[c]) \subseteq QueueRow
      BY <3>1, DrainedRowsType
    <3>3. Cardinality(session[c].delta) \in Nat
      BY <3>1, EventAssumption, FS_Subset, FS_CardinalityType DEF Session
    <3>4. loadBatch' \subseteq BatchRow
      BY <2>6, <3>1, <3>3 DEF CommitDrain, BatchRow, Session
    <3>5. session' \in [Caller -> Session]
      BY <2>6 DEF CommitDrain, Session, IdleSession
    <3>. QED
      BY <2>6, <3>2, <3>4, <3>5 DEF CommitDrain, buildVars
  <2>7. ASSUME NEW c \in Caller, RaiseDrain(c)
        PROVE  TypeOK'
    <3>1. FailureRows(session[c]) \subseteq BatchRow
      BY DEF FailureRows, BatchRow, Session
    <3>. QED
      BY <2>7, <3>1 DEF RaiseDrain, Session, IdleSession, Failure, buildVars
  <2>8. ASSUME NEW c \in Caller, KillDrain(c)
        PROVE  TypeOK'
    BY <2>8 DEF KillDrain, Session, IdleSession, Failure, buildVars
  <2>9. CASE StartBuild
    <3>1. Verdicts(Pending) \subseteq AdjudicatedRow
      BY VerdictsType DEF Pending
    <3>. QED
      BY <2>9, <3>1 DEF StartBuild, Build, captureVars
  <2>10. CASE MergeBuild
    BY <2>10 DEF MergeBuild, Build, IdleBuild, captureVars
  <2>11. CASE FailBuild
    BY <2>11 DEF FailBuild, Build, IdleBuild, captureVars
  <2>12. CASE PruneQueue
    BY <2>12 DEF PruneQueue, buildVars
  <2>13. CASE NextDay
    BY <2>13 DEF NextDay, captureVars, buildVars
  <2>14. CASE UNCHANGED vars
    BY <2>14 DEF vars, captureVars, buildVars
  <2>. QED
    BY <2>1, <2>2, <2>3, <2>4, <2>5, <2>6, <2>7, <2>8, <2>9, <2>10, <2>11,
       <2>12, <2>13, <2>14 DEF Next, DrainStep
<1>. QED
  BY <1>1, <1>2, PTL DEF Spec

-----------------------------------------------------------------------------
(* CAPTURE: NOTHING LOST, NOTHING EMITTED TWICE                            *)

(* The keys of a union of rows, and of the rows a drain writes.            *)
LEMMA EventsOfUnion ==
    ASSUME NEW R, NEW S
    PROVE  EventsOf(R \cup S) = EventsOf(R) \cup EventsOf(S)
BY DEF EventsOf

LEMMA EventsOfDrained ==
    ASSUME NEW s
    PROVE  EventsOf(DrainedRows(s)) = s.delta
<1>1. EventsOf(DrainedRows(s)) \subseteq s.delta
  BY DEF EventsOf, DrainedRows
<1>2. ASSUME NEW e \in s.delta
      PROVE  e \in EventsOf(DrainedRows(s))
  <2>. DEFINE r == [event_sk |-> e, batch_seq |-> s.batch_seq,
                    drained_at |-> s.drained_at]
  <2>1. r \in DrainedRows(s) /\ r.event_sk = e
    BY DEF DrainedRows
  <2>. QED
    BY <2>1 DEF EventsOf
<1>. QED
  BY <1>1, <1>2

(* Merging a build's rows only adds keys.                                  *)
LEMMA MergeKeys ==
    ASSUME NEW A, NEW B
    PROVE  EventsOf({a \in A : a.event_sk \notin EventsOf(B)} \cup B)
             = EventsOf(A) \cup EventsOf(B)
<1>. DEFINE K == {a \in A : a.event_sk \notin EventsOf(B)}
<1>1. EventsOf(K \cup B) = EventsOf(K) \cup EventsOf(B)
  BY EventsOfUnion
<1>2. EventsOf(K) \subseteq EventsOf(A)
  BY DEF EventsOf
<1>3. EventsOf(A) \subseteq EventsOf(K) \cup EventsOf(B)
  <2>. SUFFICES ASSUME NEW a \in A, a.event_sk \notin EventsOf(B)
                PROVE  a.event_sk \in EventsOf(K)
    BY DEF EventsOf
  <2>1. a \in K
    OBVIOUS
  <2>. QED
    BY <2>1 DEF EventsOf
<1>. QED
  BY <1>1, <1>2, <1>3

(* A session's step that touches no table leaves the table parts alone.    *)
LEMMA SessionStep ==
    ASSUME CaptureInv, NEW c \in Caller, session \in [Caller -> Session],
           UNCHANGED <<tradeEvent, streamDelta, tradeEventQueue, adjudicated, build>>,
           NEW s, session' = [session EXCEPT ![c] = s], s.pc # "open"
    PROVE  CaptureInv'
<1>1. EveryEventAccountedFor' /\ QueueKeyUnique' /\ BuildReadCaptured'
  BY DEF CaptureInv, EveryEventAccountedFor, QueueKeyUnique, BuildReadCaptured,
         Queued, Decided, EventsOf
<1>2. \A d \in Caller : session'[d].pc = "open" => d # c /\ session'[d] = session[d]
  OBVIOUS
<1>3. OneOpenDrain' /\ OpenDeltaPending'
  BY <1>2 DEF CaptureInv, OneOpenDrain, OpenDeltaPending
<1>. QED
  BY <1>1, <1>3 DEF CaptureInv

(* CaptureInv is inductive.                                                *)
LEMMA CaptureInit == Init => CaptureInv
BY DEF Init, CaptureInv, EveryEventAccountedFor, QueueKeyUnique, OneOpenDrain,
       OpenDeltaPending, BuildReadCaptured, IdleSession, IdleBuild, Queued,
       Decided, EventsOf

LEMMA CaptureStep == TypeOK /\ CaptureInv /\ [Next]_vars => CaptureInv'
<1> SUFFICES ASSUME TypeOK, CaptureInv, [Next]_vars
             PROVE  CaptureInv'
  OBVIOUS
<1>type. session \in [Caller -> Session]
  BY DEF TypeOK
<1>1. ASSUME NEW rows \in SUBSET (Event \ tradeEvent), Land(rows)
      PROVE  CaptureInv'
  <2>1. EveryEventAccountedFor'
    BY <1>1 DEF Land, buildVars, CaptureInv, EveryEventAccountedFor, Queued, Decided
  <2>2. BuildReadCaptured'
    BY <1>1 DEF Land, buildVars, CaptureInv, BuildReadCaptured
  <2>3. QueueKeyUnique' /\ OneOpenDrain' /\ OpenDeltaPending'
    BY <1>1 DEF Land, CaptureInv, QueueKeyUnique, OneOpenDrain, OpenDeltaPending
  <2>. QED
    BY <2>1, <2>2, <2>3 DEF CaptureInv
<1>2. ASSUME NEW c \in Caller, EnterDrain(c)
      PROVE  CaptureInv'
  <2>. DEFINE s == [pc |-> "guarded", batch_id |-> calls + 1, batch_seq |-> 0,
                    drained_at |-> today, delta |-> {}]
  <2>1. s.pc = "guarded" /\ session' = [session EXCEPT ![c] = s]
    BY <1>2 DEF EnterDrain
  <2>2. UNCHANGED <<tradeEvent, streamDelta, tradeEventQueue, adjudicated, build>>
    BY <1>2 DEF EnterDrain, buildVars
  <2>. QED
    BY <1>type, <2>1, <2>2, SessionStep
<1>3. ASSUME NEW c \in Caller, TakeBatchSeq(c)
      PROVE  CaptureInv'
  <2>. DEFINE s == [session[c] EXCEPT !.pc = "numbered",
                                      !.batch_seq = seqBatchOrder + 1]
  <2>1. s.pc = "numbered" /\ session' = [session EXCEPT ![c] = s]
    BY <1>3, <1>type DEF TakeBatchSeq, Session
  <2>. QED
    BY <1>3, <1>type, <2>1, SessionStep DEF TakeBatchSeq, buildVars
<1>4. ASSUME NEW c \in Caller, BeginTransaction(c)
      PROVE  CaptureInv'
  <2>. DEFINE s == [session[c] EXCEPT !.pc = "begun", !.delta = streamDelta]
  <2>1. s.pc = "begun" /\ session' = [session EXCEPT ![c] = s]
    BY <1>4, <1>type DEF BeginTransaction, Session
  <2>. QED
    BY <1>4, <1>type, <2>1, SessionStep DEF BeginTransaction, buildVars
<1>5. ASSUME NEW c \in Caller, ConsumeStream(c)
      PROVE  CaptureInv'
  <2>1. EveryEventAccountedFor' /\ QueueKeyUnique' /\ BuildReadCaptured'
    BY <1>5 DEF ConsumeStream, buildVars, CaptureInv, EveryEventAccountedFor,
                QueueKeyUnique, BuildReadCaptured, Queued, Decided
  <2>2. /\ \A d \in Caller : d # c => session'[d] = session[d] /\ session[d].pc # "open"
        /\ session'[c].delta \subseteq streamDelta
    BY <1>5, <1>type DEF ConsumeStream, Session
  <2>3. OneOpenDrain' /\ OpenDeltaPending'
    BY <1>5, <2>2 DEF ConsumeStream, OneOpenDrain, OpenDeltaPending
  <2>. QED
    BY <2>1, <2>3 DEF CaptureInv
<1>6. ASSUME NEW c \in Caller, CommitDrain(c)
      PROVE  CaptureInv'
  <2>. DEFINE delta == session[c].delta
  <2>1. delta \subseteq streamDelta
    BY <1>6 DEF CommitDrain, CaptureInv, OpenDeltaPending
  <2>2. Queued' = Queued \cup delta /\ Decided' = Decided
    BY <1>6, EventsOfUnion, EventsOfDrained DEF CommitDrain, buildVars, Queued, Decided
  <2>3. EveryEventAccountedFor'
    BY <1>6, <2>1, <2>2 DEF CommitDrain, CaptureInv, EveryEventAccountedFor
  <2>4. QueueKeyUnique'
    <3>1. \A q \in tradeEventQueue : q.event_sk \notin delta
      BY <2>1 DEF CaptureInv, EveryEventAccountedFor, Queued, EventsOf
    <3>2. \A p, q \in DrainedRows(session[c]) : p.event_sk = q.event_sk => p = q
      BY DEF DrainedRows
    <3>3. \A q \in DrainedRows(session[c]) : q.event_sk \in delta
      BY DEF DrainedRows
    <3>. QED
      BY <1>6, <3>1, <3>2, <3>3 DEF CommitDrain, CaptureInv, QueueKeyUnique
  <2>5. \A d \in Caller : session'[d].pc # "open"
    BY <1>6, <1>type DEF CommitDrain, IdleSession, CaptureInv, OneOpenDrain
  <2>6. OneOpenDrain' /\ OpenDeltaPending'
    BY <2>5 DEF OneOpenDrain, OpenDeltaPending
  <2>7. BuildReadCaptured'
    BY <1>6 DEF CommitDrain, buildVars, CaptureInv, BuildReadCaptured
  <2>. QED
    BY <2>3, <2>4, <2>6, <2>7 DEF CaptureInv
<1>7. ASSUME NEW c \in Caller, RaiseDrain(c)
      PROVE  CaptureInv'
  <2>1. IdleSession.pc # "open"
    BY DEF IdleSession
  <2>2. session' = [session EXCEPT ![c] = IdleSession]
    BY <1>7 DEF RaiseDrain
  <2>3. UNCHANGED <<tradeEvent, streamDelta, tradeEventQueue, adjudicated, build>>
    BY <1>7 DEF RaiseDrain, buildVars
  <2>. QED
    BY <1>type, <2>1, <2>2, <2>3, SessionStep
<1>8. ASSUME NEW c \in Caller, KillDrain(c)
      PROVE  CaptureInv'
  <2>1. IdleSession.pc # "open"
    BY DEF IdleSession
  <2>2. session' = [session EXCEPT ![c] = IdleSession]
    BY <1>8 DEF KillDrain
  <2>3. UNCHANGED <<tradeEvent, streamDelta, tradeEventQueue, adjudicated, build>>
    BY <1>8 DEF KillDrain, buildVars
  <2>. QED
    BY <1>type, <2>1, <2>2, <2>3, SessionStep
<1>9. CASE StartBuild
  <2>1. EventsOf(build'.rows) \subseteq Queued
    <3>1. Pending \subseteq QueueRow
      BY DEF Pending, TypeOK
    <3>2. EventsOf(Pending) \subseteq Queued
      BY DEF Pending, Queued, EventsOf
    <3>. QED
      BY <1>9, <3>1, <3>2, VerdictsType DEF StartBuild
  <2>2. BuildReadCaptured'
    BY <1>9, <2>1 DEF StartBuild, captureVars, CaptureInv, EveryEventAccountedFor,
                      BuildReadCaptured
  <2>. QED
    BY <1>9, <2>2 DEF StartBuild, captureVars, CaptureInv, EveryEventAccountedFor,
                      QueueKeyUnique, OneOpenDrain, OpenDeltaPending, Queued, Decided
<1>10. CASE MergeBuild
  <2>1. Decided' = Decided \cup EventsOf(build.rows)
    BY <1>10, MergeKeys DEF MergeBuild, Decided
  <2>2. EveryEventAccountedFor'
    BY <1>10, <2>1 DEF MergeBuild, captureVars, CaptureInv, EveryEventAccountedFor,
                       BuildReadCaptured, Queued
  <2>3. BuildReadCaptured'
    BY <1>10 DEF MergeBuild, captureVars, IdleBuild, BuildReadCaptured, EventsOf
  <2>. QED
    BY <1>10, <2>2, <2>3 DEF MergeBuild, captureVars, CaptureInv, QueueKeyUnique,
                             OneOpenDrain, OpenDeltaPending
<1>11. CASE FailBuild
  BY <1>11 DEF FailBuild, captureVars, IdleBuild, CaptureInv, EveryEventAccountedFor,
               QueueKeyUnique, OneOpenDrain, OpenDeltaPending, BuildReadCaptured,
               Queued, Decided, EventsOf
<1>12. CASE PruneQueue
  <2>1. /\ Queued' \subseteq Queued
        /\ Queued \subseteq Queued' \cup Decided
    BY <1>12 DEF PruneQueue, Prunable, Queued, EventsOf
  <2>2. EveryEventAccountedFor'
    BY <1>12, <2>1 DEF PruneQueue, buildVars, CaptureInv, EveryEventAccountedFor, Decided
  <2>. QED
    BY <1>12, <2>2 DEF PruneQueue, buildVars, CaptureInv, QueueKeyUnique, OneOpenDrain,
                       OpenDeltaPending, BuildReadCaptured
<1>13. CASE NextDay \/ UNCHANGED vars
  BY <1>13 DEF NextDay, vars, captureVars, buildVars, CaptureInv, EveryEventAccountedFor,
               QueueKeyUnique, OneOpenDrain, OpenDeltaPending, BuildReadCaptured,
               Queued, Decided, EventsOf
<1>. QED
  BY <1>1, <1>2, <1>3, <1>4, <1>5, <1>6, <1>7, <1>8, <1>9, <1>10, <1>11, <1>12,
     <1>13 DEF Next, DrainStep

(* However many drains overlap, fail or are killed, whatever the prune     *)
(* removes: every row that landed is in the stream's delta or handed over, *)
(* never both, and no row is queued twice.                                 *)
THEOREM CaptureCorrect ==
    Spec => [](EveryEventAccountedFor /\ QueueKeyUnique)
<1>1. TypeOK /\ CaptureInv /\ [Next]_vars => CaptureInv'
  BY CaptureStep
<1>2. CaptureInv => EveryEventAccountedFor /\ QueueKeyUnique
  BY DEF CaptureInv
<1>. QED
  BY CaptureInit, <1>1, <1>2, TypeCorrect, PTL DEF Spec

(* The key that the adjudication MERGE relies on and no table declares: no *)
(* event is in the queue twice, of one batch or of two.                    *)
THEOREM QueueHoldsEventOnce == Spec => []QueueKeyUnique
BY CaptureCorrect, PTL

-----------------------------------------------------------------------------
(* REFINEMENT                                                              *)

(* A step that moves no row across a boundary of the abstract life.        *)
LEMMA LifecycleStutter ==
    ASSUME UNCHANGED <<tradeEvent, streamDelta, adjudicated>>
    PROVE  UNCHANGED Lifecycle!lifecycleVars
BY DEF Lifecycle!lifecycleVars, Decided

LEMMA LifecycleStep ==
    TypeOK /\ CaptureInv /\ [Next]_vars => [Lifecycle!Next]_Lifecycle!lifecycleVars
<1> SUFFICES ASSUME TypeOK, CaptureInv, [Next]_vars
             PROVE  Lifecycle!Next \/ UNCHANGED Lifecycle!lifecycleVars
  OBVIOUS
<1>1. ASSUME NEW rows \in SUBSET (Event \ tradeEvent), Land(rows)
      PROVE  Lifecycle!Next
  <2>1. Lifecycle!Arrive(rows)
    BY <1>1 DEF Land, buildVars, Lifecycle!Arrive, CaptureInv,
                EveryEventAccountedFor, Decided
  <2>. QED
    BY <2>1 DEF Lifecycle!Next
<1>2. ASSUME NEW c \in Caller, CommitDrain(c)
      PROVE  Lifecycle!Next
  <2>. DEFINE delta == session[c].delta
  <2>1. delta \subseteq streamDelta /\ streamDelta \subseteq tradeEvent
    BY <1>2 DEF CommitDrain, CaptureInv, OpenDeltaPending, EveryEventAccountedFor
  <2>2. delta \in SUBSET Event
    BY <2>1 DEF TypeOK
  <2>3. Lifecycle!Capture(delta)
    BY <1>2, <2>1 DEF CommitDrain, buildVars, Lifecycle!Capture, Decided
  <2>. QED
    BY <2>2, <2>3 DEF Lifecycle!Next
<1>3. CASE MergeBuild
  <2>. DEFINE S == EventsOf(build.rows) \ Decided
  <2>1. Decided' = Decided \cup S
    BY <1>3, MergeKeys DEF MergeBuild, Decided
  <2>2. S \subseteq tradeEvent \ streamDelta
    BY DEF CaptureInv, BuildReadCaptured
  <2>3. S \in SUBSET Event
    BY <2>2 DEF TypeOK
  <2>4. Lifecycle!Decide(S)
    BY <1>3, <2>1, <2>2 DEF MergeBuild, captureVars, Lifecycle!Decide
  <2>. QED
    BY <2>3, <2>4 DEF Lifecycle!Next
<1>4. ASSUME NEW c \in Caller,
             \/ EnterDrain(c) \/ TakeBatchSeq(c) \/ BeginTransaction(c)
             \/ ConsumeStream(c) \/ RaiseDrain(c) \/ KillDrain(c)
      PROVE  UNCHANGED Lifecycle!lifecycleVars
  BY <1>4, LifecycleStutter DEF EnterDrain, TakeBatchSeq, BeginTransaction,
     ConsumeStream, RaiseDrain, KillDrain, buildVars
<1>5. CASE StartBuild \/ FailBuild \/ PruneQueue \/ NextDay \/ UNCHANGED vars
  BY <1>5, LifecycleStutter DEF StartBuild, FailBuild, PruneQueue, NextDay, vars,
     captureVars, buildVars
<1>. QED
  BY <1>1, <1>2, <1>3, <1>4, <1>5 DEF Next, DrainStep

(* The capture layer implements the abstract life of an event: every step  *)
(* lands, captures or adjudicates events that were not there yet, or is    *)
(* invisible; nothing is captured or adjudicated twice, or taken back.     *)
THEOREM CaptureImplementsLifecycle == Spec => ImplementsLifecycle
<1>1. Init => Lifecycle!Init
  BY DEF Init, Lifecycle!Init, Decided, EventsOf
<1>2. TypeOK /\ CaptureInv /\ [Next]_vars => CaptureInv'
  BY CaptureStep
<1>3. TypeOK /\ CaptureInv /\ [Next]_vars
        => [Lifecycle!Next]_Lifecycle!lifecycleVars
  BY LifecycleStep
<1>. QED
  BY CaptureInit, TypeCorrect, <1>1, <1>2, <1>3, PTL
     DEF Spec, ImplementsLifecycle, Lifecycle!Spec

-----------------------------------------------------------------------------
(* ORDER: WHEN DRAINS DO NOT OVERLAP, NOTHING IS STRANDED                  *)

(* Only one session ever calls the drain procedure.                        *)
OneCaller == \A c, d \in Caller : c = d

LEMMA OrderInit == Init => OrderInv
BY DEF Init, OrderInv, SeqBound, NumberInUseIsNewest, UnreadAboveBuild,
       NothingStranded, AboveWatermark, IdleSession, IdleBuild

LEMMA OrderStep ==
    ASSUME OneCaller
    PROVE  TypeOK /\ OrderInv /\ [Next]_vars => OrderInv'
<1> SUFFICES ASSUME TypeOK, OrderInv, [Next]_vars
             PROVE  OrderInv'
  OBVIOUS
<1>type. /\ session \in [Caller -> Session]
         /\ seqBatchOrder \in Nat
         /\ \A q \in tradeEventQueue : q.batch_seq \in Nat /\ q.event_sk \in Event
         /\ \A a \in adjudicated \cup build.rows : a.batch_seq \in Nat
  BY DEF TypeOK, QueueRow, AdjudicatedRow, Build
<1>1. ASSUME UNCHANGED <<tradeEventQueue, adjudicated, build, seqBatchOrder>>,
             NEW c \in Caller, NEW s,
             session' = [session EXCEPT ![c] = s],
             \/ s.pc \in {"idle", "guarded"}
             \/ /\ session[c].pc \in {"numbered", "begun", "open"}
                /\ s.batch_seq = session[c].batch_seq
      PROVE  OrderInv'
  <2>1. SeqBound' /\ UnreadAboveBuild' /\ NothingStranded'
    BY <1>1 DEF OrderInv, SeqBound, UnreadAboveBuild, NothingStranded,
                AboveWatermark, Decided, EventsOf
  <2>2. NumberInUseIsNewest'
    BY <1>1, <1>type DEF OrderInv, NumberInUseIsNewest
  <2>. QED
    BY <2>1, <2>2 DEF OrderInv
<1>2. ASSUME NEW c \in Caller, EnterDrain(c)
      PROVE  OrderInv'
  <2>. DEFINE s == [pc |-> "guarded", batch_id |-> calls + 1, batch_seq |-> 0,
                    drained_at |-> today, delta |-> {}]
  <2>1. s.pc = "guarded" /\ session' = [session EXCEPT ![c] = s]
    BY <1>2 DEF EnterDrain
  <2>. QED
    BY <1>1, <1>2, <2>1 DEF EnterDrain, buildVars
<1>3. ASSUME NEW c \in Caller, TakeBatchSeq(c)
      PROVE  OrderInv'
  <2>1. SeqBound'
    BY <1>3, <1>type DEF TakeBatchSeq, buildVars, OrderInv, SeqBound
  <2>2. session'[c].batch_seq = seqBatchOrder + 1
    BY <1>3, <1>type DEF TakeBatchSeq, Session
  <2>3. \A d \in Caller : d = c
    BY DEF OneCaller
  <2>4. NumberInUseIsNewest'
    BY <1>3, <1>type, <2>2, <2>3 DEF TakeBatchSeq, buildVars, OrderInv, SeqBound,
                                     NumberInUseIsNewest
  <2>5. UnreadAboveBuild' /\ NothingStranded'
    BY <1>3 DEF TakeBatchSeq, buildVars, OrderInv, UnreadAboveBuild, NothingStranded,
                AboveWatermark, Decided, EventsOf
  <2>. QED
    BY <2>1, <2>4, <2>5 DEF OrderInv
<1>4. ASSUME NEW c \in Caller, BeginTransaction(c)
      PROVE  OrderInv'
  <2>. DEFINE s == [session[c] EXCEPT !.pc = "begun", !.delta = streamDelta]
  <2>1. s.batch_seq = session[c].batch_seq /\ session' = [session EXCEPT ![c] = s]
    BY <1>4, <1>type DEF BeginTransaction, Session
  <2>. QED
    BY <1>1, <1>4, <2>1 DEF BeginTransaction, buildVars
<1>5. ASSUME NEW c \in Caller, ConsumeStream(c)
      PROVE  OrderInv'
  <2>. DEFINE s == session'[c]
  <2>1. session' = [session EXCEPT ![c] = s]
    BY <1>5, <1>type DEF ConsumeStream
  <2>2. s.batch_seq = session[c].batch_seq
    BY <1>5, <1>type DEF ConsumeStream, Session
  <2>. QED
    BY <1>1, <1>5, <2>1, <2>2 DEF ConsumeStream, buildVars
<1>6. ASSUME NEW c \in Caller, CommitDrain(c)
      PROVE  OrderInv'
  <2>. DEFINE n == session[c].batch_seq
  <2>1. /\ n \in Nat /\ n <= seqBatchOrder
        /\ \A a \in adjudicated \cup build.rows : a.batch_seq < n
    BY <1>6, <1>type DEF CommitDrain, OrderInv, NumberInUseIsNewest, Session
  <2>2. \A q \in DrainedRows(session[c]) : q.batch_seq = n
    BY DEF DrainedRows
  <2>3. SeqBound'
    BY <1>6, <2>1, <2>2 DEF CommitDrain, buildVars, OrderInv, SeqBound
  <2>4. NumberInUseIsNewest'
    <3>1. \A d \in Caller : session'[d].pc = "idle"
      BY <1>6, <1>type DEF CommitDrain, IdleSession, OneCaller
    <3>. QED
      BY <3>1 DEF NumberInUseIsNewest
  <2>5. UnreadAboveBuild'
    BY <1>6, <1>type, <2>1, <2>2 DEF CommitDrain, buildVars, OrderInv,
       UnreadAboveBuild, Decided, EventsOf
  <2>6. NothingStranded'
    BY <1>6, <1>type, <2>1, <2>2 DEF CommitDrain, buildVars, OrderInv,
       NothingStranded, AboveWatermark, Decided, EventsOf
  <2>. QED
    BY <2>3, <2>4, <2>5, <2>6 DEF OrderInv
<1>7. ASSUME NEW c \in Caller, RaiseDrain(c) \/ KillDrain(c)
      PROVE  OrderInv'
  <2>1. IdleSession.pc = "idle"
    BY DEF IdleSession
  <2>2. session' = [session EXCEPT ![c] = IdleSession]
    BY <1>7 DEF RaiseDrain, KillDrain
  <2>. QED
    BY <1>1, <1>7, <2>1, <2>2 DEF RaiseDrain, KillDrain, buildVars
<1>8. CASE StartBuild
  <2>1. \A b \in build'.rows : \E q \in Pending :
            b.event_sk = q.event_sk /\ b.batch_seq = q.batch_seq
    BY <1>8 DEF StartBuild, Verdicts
  <2>2. SeqBound' /\ NumberInUseIsNewest'
    BY <1>8, <2>1 DEF StartBuild, captureVars, OrderInv, SeqBound, Pending,
                      NumberInUseIsNewest
  <2>3. UnreadAboveBuild'
    <3>1. \A q \in tradeEventQueue : q.event_sk \notin Decided => q \in Pending
      BY DEF OrderInv, NothingStranded, Pending
    <3>2. \A q \in Pending : q.event_sk \in EventsOf(build'.rows)
      <4>1. Pending \subseteq QueueRow
        BY DEF Pending, TypeOK
      <4>. QED
        BY <1>8, <4>1, VerdictsType DEF StartBuild, EventsOf
    <3>. QED
      BY <1>8, <3>1, <3>2 DEF StartBuild, captureVars, UnreadAboveBuild, Decided
  <2>4. NothingStranded'
    BY <1>8 DEF StartBuild, captureVars, OrderInv, NothingStranded, AboveWatermark, Decided
  <2>. QED
    BY <2>2, <2>3, <2>4 DEF OrderInv
<1>9. CASE MergeBuild
  <2>1. /\ adjudicated' \subseteq adjudicated \cup build.rows
        /\ build'.rows = {}
    BY <1>9 DEF MergeBuild, IdleBuild
  <2>2. Decided' = Decided \cup EventsOf(build.rows)
    BY <1>9, MergeKeys DEF MergeBuild, Decided
  <2>3. SeqBound' /\ NumberInUseIsNewest'
    BY <1>9, <2>1 DEF MergeBuild, captureVars, OrderInv, SeqBound, NumberInUseIsNewest
  <2>4. UnreadAboveBuild'
    BY <2>1 DEF UnreadAboveBuild
  <2>5. NothingStranded'
    BY <1>9, <2>1, <2>2 DEF MergeBuild, captureVars, OrderInv, UnreadAboveBuild,
                            NothingStranded, AboveWatermark
  <2>. QED
    BY <2>3, <2>4, <2>5 DEF OrderInv
<1>10. CASE FailBuild
  <2>1. build'.rows = {} /\ UNCHANGED <<captureVars, adjudicated>>
    BY <1>10 DEF FailBuild, IdleBuild
  <2>. QED
    BY <2>1 DEF captureVars, OrderInv, SeqBound, NumberInUseIsNewest, UnreadAboveBuild,
                NothingStranded, AboveWatermark, Decided
<1>11. CASE PruneQueue
  <2>1. tradeEventQueue' \subseteq tradeEventQueue
    BY <1>11 DEF PruneQueue
  <2>. QED
    BY <1>11, <2>1 DEF PruneQueue, buildVars, OrderInv, SeqBound, NumberInUseIsNewest,
       UnreadAboveBuild, NothingStranded, AboveWatermark, Decided
<1>12. ASSUME NEW rows \in SUBSET (Event \ tradeEvent), Land(rows)
       PROVE  OrderInv'
  BY <1>12 DEF Land, buildVars, OrderInv, SeqBound, NumberInUseIsNewest,
     UnreadAboveBuild, NothingStranded, AboveWatermark, Decided
<1>13. CASE NextDay \/ UNCHANGED vars
  BY <1>13 DEF NextDay, vars, captureVars, buildVars, OrderInv, SeqBound,
     NumberInUseIsNewest, UnreadAboveBuild, NothingStranded, AboveWatermark, Decided
<1>. QED
  BY <1>2, <1>3, <1>4, <1>5, <1>6, <1>7, <1>8, <1>9, <1>10, <1>11, <1>12, <1>13
     DEF Next, DrainStep

(* With a single session calling the drain procedure, every queue row dbt  *)
(* has not adjudicated is above the watermark: the incremental scan        *)
(* batch_seq > max(batch_seq) of int_trade_event_adjudicated.sql skips     *)
(* nothing, whatever fails and whenever builds and drains interleave.      *)
THEOREM SerialDrainsStrandNothing ==
    ASSUME OneCaller
    PROVE  Spec => []NothingStranded
<1>1. TypeOK /\ OrderInv /\ [Next]_vars => OrderInv'
  BY OrderStep
<1>2. OrderInv => NothingStranded
  BY DEF OrderInv
<1>. QED
  BY OrderInit, <1>1, <1>2, TypeCorrect, PTL DEF Spec

(* Under the same assumption, the three facts that the absence of stranded *)
(* rows rests on.                                                          *)
THEOREM SerialBatchesOrdered ==
    ASSUME OneCaller
    PROVE  Spec => []BatchOrder
<1>1. TypeOK /\ OrderInv /\ [Next]_vars => OrderInv'
  BY OrderStep
<1>2. OrderInv => BatchOrder
  BY DEF OrderInv, BatchOrder
<1>. QED
  BY OrderInit, <1>1, <1>2, TypeCorrect, PTL DEF Spec

(* Overlapping drains, builds in progress: only the session that holds the *)
(* stream's lock can commit, and what it will commit is still unconsumed.  *)
THEOREM LockProtectsDelta == Spec => []DrainLock
<1>1. TypeOK /\ CaptureInv /\ [Next]_vars => CaptureInv'
  BY CaptureStep
<1>2. CaptureInv => DrainLock
  BY DEF CaptureInv, DrainLock
<1>. QED
  BY CaptureInit, <1>1, <1>2, TypeCorrect, PTL DEF Spec

-----------------------------------------------------------------------------
(* BATCH NUMBERS                                                           *)

(* A session that has drawn a number holds one that was drawn.             *)
Numbered(c) == session[c].pc \in {"numbered", "begun", "open"}

NumbersDrawn ==
    /\ \A c \in Caller :
         /\ session[c].batch_seq <= seqBatchOrder
         /\ session[c].batch_seq # 0 <=> Numbered(c)
    /\ \A q \in tradeEventQueue : q.batch_seq \in 1 .. seqBatchOrder

NumberInv == NumbersDrawn /\ BatchSeqUnique

(* Ending a call, or going on with the number it has, keeps the numbers.   *)
LEMMA NumberKept ==
    ASSUME TypeOK, NumberInv, NEW c \in Caller, NEW s,
           session' = [session EXCEPT ![c] = s],
           UNCHANGED <<tradeEventQueue, seqBatchOrder>>,
           \/ s.pc \in {"idle", "guarded"} /\ s.batch_seq = 0
           \/ /\ Numbered(c) /\ s.pc \in {"begun", "open"}
              /\ s.batch_seq = session[c].batch_seq
    PROVE  NumberInv'
<1>1. /\ session \in [Caller -> Session]
      /\ seqBatchOrder \in Nat
  BY DEF TypeOK
<1>2. session'[c] = s /\ \A d \in Caller : d # c => session'[d] = session[d]
  BY <1>1
<1>3. s.batch_seq \in {0, session[c].batch_seq}
  OBVIOUS
<1>4. NumbersDrawn'
  BY <1>1, <1>2, <1>3 DEF NumberInv, NumbersDrawn, Numbered
<1>5. \A q \in tradeEventQueue : q.batch_seq # 0
  BY DEF NumberInv, NumbersDrawn
<1>6. BatchSeqUnique'
  BY <1>2, <1>3, <1>5 DEF NumberInv, BatchSeqUnique
<1>. QED
  BY <1>4, <1>6 DEF NumberInv

LEMMA NumberInit == Init => NumberInv
BY DEF Init, NumberInv, NumbersDrawn, BatchSeqUnique, Numbered, IdleSession

LEMMA NumberStep == TypeOK /\ NumberInv /\ [Next]_vars => NumberInv'
<1> SUFFICES ASSUME TypeOK, NumberInv, [Next]_vars
             PROVE  NumberInv'
  OBVIOUS
<1>type. /\ session \in [Caller -> Session]
         /\ seqBatchOrder \in Nat
  BY DEF TypeOK
<1>1. ASSUME UNCHANGED <<session, seqBatchOrder>>,
             tradeEventQueue' \subseteq tradeEventQueue
      PROVE  NumberInv'
  BY <1>1 DEF NumberInv, NumbersDrawn, Numbered, BatchSeqUnique
<1>2. ASSUME NEW c \in Caller, EnterDrain(c)
      PROVE  NumberInv'
  <2>. DEFINE s == [pc |-> "guarded", batch_id |-> calls + 1, batch_seq |-> 0,
                    drained_at |-> today, delta |-> {}]
  <2>1. /\ s.pc = "guarded" /\ s.batch_seq = 0
        /\ session' = [session EXCEPT ![c] = s]
        /\ UNCHANGED <<tradeEventQueue, seqBatchOrder>>
    BY <1>2 DEF EnterDrain
  <2>. QED
    BY <2>1, NumberKept
<1>3. ASSUME NEW c \in Caller, TakeBatchSeq(c)
      PROVE  NumberInv'
  <2>1. /\ session'[c].batch_seq = seqBatchOrder + 1
        /\ session'[c].pc = "numbered"
        /\ \A d \in Caller : d # c => session'[d] = session[d]
    BY <1>3, <1>type DEF TakeBatchSeq, Session
  <2>2. /\ seqBatchOrder' = seqBatchOrder + 1
        /\ tradeEventQueue' = tradeEventQueue
    BY <1>3 DEF TakeBatchSeq
  <2>3. \A d \in Caller : session[d].batch_seq \in Nat
    BY <1>type DEF Session
  <2>4. NumbersDrawn'
    BY <1>type, <2>1, <2>2, <2>3 DEF NumberInv, NumbersDrawn, Numbered
  <2>5. BatchSeqUnique'
    BY <1>type, <2>1, <2>2, <2>3 DEF NumberInv, NumbersDrawn, BatchSeqUnique
  <2>. QED
    BY <2>4, <2>5 DEF NumberInv
<1>4. ASSUME NEW c \in Caller, BeginTransaction(c) \/ ConsumeStream(c)
      PROVE  NumberInv'
  <2>1. /\ session' = [session EXCEPT ![c] = session'[c]]
        /\ UNCHANGED <<tradeEventQueue, seqBatchOrder>>
    BY <1>4, <1>type DEF BeginTransaction, ConsumeStream
  <2>2. /\ Numbered(c) /\ session'[c].pc \in {"begun", "open"}
        /\ session'[c].batch_seq = session[c].batch_seq
    BY <1>4, <1>type DEF BeginTransaction, ConsumeStream, Session, Numbered
  <2>. QED
    BY <2>1, <2>2, NumberKept
<1>5. ASSUME NEW c \in Caller, CommitDrain(c)
      PROVE  NumberInv'
  <2>. DEFINE n == session[c].batch_seq
  <2>1. /\ \A q \in tradeEventQueue' : q \in tradeEventQueue \/ q.batch_seq = n
        /\ seqBatchOrder' = seqBatchOrder
    BY <1>5 DEF CommitDrain, DrainedRows
  <2>2. /\ session'[c].batch_seq = 0 /\ session'[c].pc = "idle"
        /\ \A d \in Caller : d # c => session'[d] = session[d]
    BY <1>5, <1>type DEF CommitDrain, IdleSession
  <2>3. n \in 1 .. seqBatchOrder
    BY <1>5, <1>type DEF CommitDrain, NumberInv, NumbersDrawn, Numbered, Session
  <2>4. NumbersDrawn'
    BY <1>type, <2>1, <2>2, <2>3 DEF NumberInv, NumbersDrawn, Numbered
  <2>5. \A d \in Caller, q \in tradeEventQueue' : session'[d].batch_seq # q.batch_seq
    BY <2>1, <2>2, <2>3 DEF NumberInv, NumbersDrawn, BatchSeqUnique
  <2>6. BatchSeqUnique'
    BY <2>2, <2>5 DEF NumberInv, BatchSeqUnique
  <2>. QED
    BY <2>4, <2>6 DEF NumberInv
<1>6. ASSUME NEW c \in Caller, RaiseDrain(c) \/ KillDrain(c)
      PROVE  NumberInv'
  <2>1. IdleSession.pc = "idle" /\ IdleSession.batch_seq = 0
    BY DEF IdleSession
  <2>2. /\ session' = [session EXCEPT ![c] = IdleSession]
        /\ UNCHANGED <<tradeEventQueue, seqBatchOrder>>
    BY <1>6 DEF RaiseDrain, KillDrain
  <2>. QED
    BY <2>1, <2>2, NumberKept
<1>7. ASSUME NEW rows \in SUBSET (Event \ tradeEvent), Land(rows)
      PROVE  NumberInv'
  BY <1>1, <1>7 DEF Land
<1>8. CASE StartBuild \/ MergeBuild \/ FailBuild \/ PruneQueue \/ NextDay \/ UNCHANGED vars
  BY <1>1, <1>8 DEF StartBuild, MergeBuild, FailBuild, PruneQueue, NextDay, vars,
     captureVars
<1>. QED
  BY <1>2, <1>3, <1>4, <1>5, <1>6, <1>7, <1>8 DEF Next, DrainStep

(* The batch number tells drains apart, however many overlap: no two       *)
(* sessions hold one number, and none holds one that is in the queue,      *)
(* because the sequence is spent outside the transaction.                  *)
THEOREM BatchNumbersUnique == Spec => []BatchSeqUnique
<1>1. TypeOK /\ NumberInv /\ [Next]_vars => NumberInv'
  BY NumberStep
<1>2. NumberInv => BatchSeqUnique
  BY DEF NumberInv
<1>. QED
  BY NumberInit, <1>1, <1>2, TypeCorrect, PTL DEF Spec
-----------------------------------------------------------------------------
(* EMPTY BATCHES                                                           *)

(* A call that will move nothing found rows when it asked, so another      *)
(* drain has taken them since.                                             *)
ComesTooLate(c) ==
    \/ session[c].pc \in {"guarded", "numbered"} /\ streamDelta = {}
    \/ session[c].pc \in {"begun", "open"} /\ session[c].delta \cap streamDelta = {}

TooLate == {c \in Caller : ComesTooLate(c)}

(* The empty batches there are, and those still to come.                   *)
EmptyBatchesOwed ==
    Cardinality(EmptyBatches) + Cardinality(TooLate)
        <= (Cardinality(Caller) - 1) * Cardinality(MovingBatches)

(* Every call has a batch row of its own: two commits are two rows.        *)
BatchRowOwn ==
    /\ \A c \in Caller : session[c].pc # "idle" =>
         /\ session[c].batch_id <= calls
         /\ \A d \in Caller \ {c} :
              session[d].pc # "idle" => session[d].batch_id # session[c].batch_id
         /\ \A b \in loadBatch : b.batch_id # session[c].batch_id
    /\ \A b \in loadBatch : b.batch_id <= calls

BatchInv == IsFiniteSet(loadBatch) /\ BatchRowOwn /\ EmptyBatchesOwed

(* The three counts are natural numbers.                                   *)
LEMMA BatchCounts ==
    ASSUME IsFiniteSet(loadBatch)
    PROVE  /\ IsFiniteSet(EmptyBatches) /\ Cardinality(EmptyBatches) \in Nat
           /\ IsFiniteSet(MovingBatches) /\ Cardinality(MovingBatches) \in Nat
           /\ IsFiniteSet(TooLate) /\ Cardinality(TooLate) \in Nat
           /\ Cardinality(Caller) \in Nat
<1>1. EmptyBatches \in SUBSET loadBatch /\ MovingBatches \in SUBSET loadBatch
  BY DEF EmptyBatches, MovingBatches
<1>2. TooLate \in SUBSET Caller
  BY DEF TooLate
<1>3. IsFiniteSet(EmptyBatches) /\ IsFiniteSet(MovingBatches) /\ IsFiniteSet(TooLate)
  BY <1>1, <1>2, CallerAssumption, FS_Subset
<1>. QED
  BY <1>3, CallerAssumption, FS_CardinalityType

(* A step that records no drain and makes no call too late owes no more.   *)
LEMMA OwesNoMore ==
    ASSUME IsFiniteSet(loadBatch), EmptyBatchesOwed, TooLate' \subseteq TooLate,
           EmptyBatches' = EmptyBatches, MovingBatches' = MovingBatches
    PROVE  EmptyBatchesOwed'
<1>1. IsFiniteSet(TooLate)
  BY BatchCounts
<1>2. Cardinality(TooLate') <= Cardinality(TooLate) /\ IsFiniteSet(TooLate')
  BY <1>1, FS_Subset
<1>3. Cardinality(TooLate') \in Nat
  BY <1>2, FS_CardinalityType
<1>4. Cardinality(EmptyBatches) + Cardinality(TooLate')
        <= Cardinality(EmptyBatches) + Cardinality(TooLate)
  BY <1>2, <1>3, BatchCounts
<1>5. (Cardinality(Caller) - 1) * Cardinality(MovingBatches) \in Int
  BY BatchCounts
<1>6. Cardinality(EmptyBatches) + Cardinality(TooLate')
        <= (Cardinality(Caller) - 1) * Cardinality(MovingBatches)
  BY <1>3, <1>4, <1>5, BatchCounts DEF EmptyBatchesOwed
<1>. QED
  BY <1>6 DEF EmptyBatchesOwed

(* A session that ends, or goes on as it was, without a batch recorded.    *)
LEMMA CallGoesOn ==
    ASSUME TypeOK, BatchInv, NEW c \in Caller, NEW s,
           session' = [session EXCEPT ![c] = s],
           UNCHANGED <<streamDelta, loadBatch, calls>>,
           \/ s.pc = "idle"
           \/ /\ session[c].pc # "idle" /\ s.batch_id = session[c].batch_id
              /\ \/ s.pc \in {"guarded", "numbered"} /\ session[c].pc \in {"guarded", "numbered"}
                 \/ /\ s.pc \in {"begun", "open"} /\ session[c].pc \in {"begun", "open"}
                    /\ s.delta \cap streamDelta = session[c].delta \cap streamDelta
                 \/ /\ s.pc = "begun" /\ session[c].pc = "numbered"
                    /\ s.delta = streamDelta
    PROVE  BatchInv'
<1>1. session'[c] = s /\ \A d \in Caller : d # c => session'[d] = session[d]
  BY DEF TypeOK
<1>2. BatchRowOwn'
  BY <1>1 DEF BatchInv, BatchRowOwn
<1>3. \A d \in Caller : d # c => (ComesTooLate(d)' <=> ComesTooLate(d))
  BY <1>1 DEF ComesTooLate
<1>4. ComesTooLate(c)' => ComesTooLate(c)
  BY <1>1 DEF ComesTooLate
<1>5. TooLate' \subseteq TooLate
  BY <1>3, <1>4 DEF TooLate
<1>6. EmptyBatches' = EmptyBatches /\ MovingBatches' = MovingBatches
  BY DEF EmptyBatches, MovingBatches
<1>7. EmptyBatchesOwed'
  BY <1>5, <1>6, OwesNoMore DEF BatchInv
<1>. QED
  BY <1>2, <1>7 DEF BatchInv

(* A call that ends by recording a batch row of its own.                   *)
LEMMA CallRecorded ==
    ASSUME TypeOK, BatchInv, NEW c \in Caller, session[c].pc # "idle",
           session' = [session EXCEPT ![c] = IdleSession], calls' = calls,
           NEW b, b.batch_id = session[c].batch_id,
           loadBatch' = loadBatch \cup {b}
    PROVE  /\ b \notin loadBatch
           /\ IsFiniteSet(loadBatch)'
           /\ BatchRowOwn'
<1>1. b \notin loadBatch
  BY DEF BatchInv, BatchRowOwn
<1>2. IsFiniteSet(loadBatch)'
  BY FS_AddElement DEF BatchInv
<1>3. /\ session'[c].pc = "idle"
      /\ \A d \in Caller : d # c => session'[d] = session[d]
  BY DEF TypeOK, IdleSession
<1>4. BatchRowOwn'
  BY <1>3 DEF BatchInv, BatchRowOwn
<1>. QED
  BY <1>1, <1>2, <1>4

(* A drain that moves nothing was too late, and is no longer.              *)
LEMMA CommitOfNothing ==
    ASSUME TypeOK, BatchInv, NEW c \in Caller, CommitDrain(c), session[c].delta = {}
    PROVE  BatchInv'
<1>. DEFINE b == [batch_id |-> session[c].batch_id, batch_status |-> "SUCCEEDED",
                  row_count |-> 0]
<1>1. loadBatch' = loadBatch \cup {b} /\ streamDelta' = streamDelta
  BY FS_EmptySet DEF CommitDrain
<1>2. b \notin loadBatch /\ IsFiniteSet(loadBatch)' /\ BatchRowOwn'
  BY <1>1, CallRecorded DEF CommitDrain
<1>3. /\ session'[c].pc = "idle"
      /\ \A d \in Caller : d # c => session'[d] = session[d]
  BY DEF CommitDrain, TypeOK, IdleSession
<1>4. EmptyBatches' = EmptyBatches \cup {b} /\ b \notin EmptyBatches
  BY <1>1, <1>2 DEF EmptyBatches
<1>5. MovingBatches' = MovingBatches
  BY <1>1 DEF MovingBatches
<1>6. Cardinality(EmptyBatches') = Cardinality(EmptyBatches) + 1
  BY <1>4, BatchCounts, FS_AddElement DEF BatchInv
<1>7. c \in TooLate
  BY DEF TooLate, ComesTooLate, CommitDrain
<1>8. TooLate' \subseteq TooLate \ {c}
  BY <1>1, <1>3 DEF TooLate, ComesTooLate
<1>9. /\ IsFiniteSet(TooLate \ {c})
      /\ Cardinality(TooLate \ {c}) = Cardinality(TooLate) - 1
  BY <1>7, BatchCounts, FS_RemoveElement DEF BatchInv
<1>10. Cardinality(TooLate') <= Cardinality(TooLate) - 1 /\ Cardinality(TooLate') \in Nat
  BY <1>8, <1>9, FS_Subset, FS_CardinalityType
<1>11. (Cardinality(Caller) - 1) * Cardinality(MovingBatches) \in Int
  BY BatchCounts DEF BatchInv
<1>12. Cardinality(EmptyBatches') + Cardinality(TooLate')
         <= (Cardinality(Caller) - 1) * Cardinality(MovingBatches)
  BY <1>6, <1>10, <1>11, BatchCounts DEF BatchInv, EmptyBatchesOwed
<1>. QED
  BY <1>2, <1>5, <1>12 DEF BatchInv, EmptyBatchesOwed

(* A drain that moves rows makes at most the other sessions too late.      *)
LEMMA CommitOfRows ==
    ASSUME TypeOK, BatchInv, NEW c \in Caller, CommitDrain(c), session[c].delta # {}
    PROVE  BatchInv'
<1>. DEFINE n == Cardinality(session[c].delta)
            b == [batch_id |-> session[c].batch_id, batch_status |-> "SUCCEEDED",
                  row_count |-> n]
            K == Cardinality(Caller) - 1
<1>1. n \in Nat /\ n > 0
  <2>1. IsFiniteSet(session[c].delta)
    BY EventAssumption, FS_Subset DEF TypeOK, Session
  <2>. QED
    BY <2>1, FS_CardinalityType, FS_EmptySet
<1>2. loadBatch' = loadBatch \cup {b}
  BY DEF CommitDrain
<1>3. b \notin loadBatch /\ IsFiniteSet(loadBatch)' /\ BatchRowOwn'
  BY <1>2, CallRecorded DEF CommitDrain
<1>4. MovingBatches' = MovingBatches \cup {b} /\ b \notin MovingBatches
  BY <1>1, <1>2, <1>3 DEF MovingBatches
<1>5. EmptyBatches' = EmptyBatches
  BY <1>1, <1>2 DEF EmptyBatches
<1>6. Cardinality(MovingBatches') = Cardinality(MovingBatches) + 1
  BY <1>4, BatchCounts, FS_AddElement DEF BatchInv
<1>7. TooLate' \subseteq Caller \ {c}
  BY DEF TooLate, ComesTooLate, CommitDrain, TypeOK, IdleSession
<1>8. IsFiniteSet(Caller \ {c}) /\ Cardinality(Caller \ {c}) = K
  BY CallerAssumption, FS_RemoveElement
<1>9. Cardinality(TooLate') <= K /\ Cardinality(TooLate') \in Nat
  BY <1>7, <1>8, FS_Subset, FS_CardinalityType
<1>10. K \in Int /\ K * Cardinality(MovingBatches) \in Int
  BY BatchCounts DEF BatchInv
<1>11. K * (Cardinality(MovingBatches) + 1) = K * Cardinality(MovingBatches) + K
  BY <1>10, BatchCounts DEF BatchInv
<1>12. Cardinality(EmptyBatches) <= K * Cardinality(MovingBatches)
  BY <1>10, BatchCounts DEF BatchInv, EmptyBatchesOwed
<1>13. Cardinality(EmptyBatches) + Cardinality(TooLate')
         <= K * (Cardinality(MovingBatches) + 1)
  BY <1>9, <1>10, <1>11, <1>12, BatchCounts DEF BatchInv
<1>. QED
  BY <1>3, <1>5, <1>6, <1>13 DEF BatchInv, EmptyBatchesOwed

LEMMA BatchInit == Init => BatchInv
<1> SUFFICES ASSUME Init
             PROVE  BatchInv
  OBVIOUS
<1>1. EmptyBatches = {} /\ MovingBatches = {} /\ TooLate = {}
  BY DEF Init, EmptyBatches, MovingBatches, TooLate, ComesTooLate, IdleSession
<1>2. Cardinality(Caller) \in Nat
  BY CallerAssumption, FS_CardinalityType
<1>3. EmptyBatchesOwed
  BY <1>1, <1>2, FS_EmptySet DEF EmptyBatchesOwed
<1>. QED
  BY <1>3, FS_EmptySet DEF Init, BatchInv, BatchRowOwn, IdleSession

LEMMA BatchStep == TypeOK /\ BatchInv /\ [Next]_vars => BatchInv'
<1> SUFFICES ASSUME TypeOK, BatchInv, [Next]_vars
             PROVE  BatchInv'
  OBVIOUS
<1>type. /\ session \in [Caller -> Session]
         /\ calls \in Nat
         /\ loadBatch \subseteq BatchRow
  BY DEF TypeOK
<1>1. ASSUME UNCHANGED <<session, loadBatch, calls>>, streamDelta \subseteq streamDelta'
      PROVE  BatchInv'
  <2>1. TooLate' \subseteq TooLate
    BY <1>1 DEF TooLate, ComesTooLate
  <2>2. EmptyBatches' = EmptyBatches /\ MovingBatches' = MovingBatches
    BY <1>1 DEF EmptyBatches, MovingBatches
  <2>3. EmptyBatchesOwed'
    BY <2>1, <2>2, OwesNoMore DEF BatchInv
  <2>. QED
    BY <1>1, <2>3 DEF BatchInv, BatchRowOwn
<1>2. ASSUME NEW c \in Caller, EnterDrain(c)
      PROVE  BatchInv'
  <2>1. /\ session'[c].pc = "guarded" /\ session'[c].batch_id = calls + 1
        /\ \A d \in Caller : d # c => session'[d] = session[d]
        /\ calls' = calls + 1
        /\ UNCHANGED <<streamDelta, loadBatch>> /\ streamDelta # {}
    BY <1>2, <1>type DEF EnterDrain
  <2>2. /\ \A d \in Caller : session[d].batch_id \in Nat
        /\ \A b \in loadBatch : b.batch_id \in Nat
    BY <1>type DEF Session, BatchRow
  <2>3. BatchRowOwn'
    BY <1>type, <2>1, <2>2 DEF BatchInv, BatchRowOwn
  <2>4. TooLate' \subseteq TooLate
    BY <2>1 DEF TooLate, ComesTooLate
  <2>5. EmptyBatches' = EmptyBatches /\ MovingBatches' = MovingBatches
    BY <2>1 DEF EmptyBatches, MovingBatches
  <2>6. EmptyBatchesOwed'
    BY <2>4, <2>5, OwesNoMore DEF BatchInv
  <2>. QED
    BY <2>1, <2>3, <2>6 DEF BatchInv
<1>3. ASSUME NEW c \in Caller, TakeBatchSeq(c) \/ BeginTransaction(c) \/ ConsumeStream(c)
      PROVE  BatchInv'
  <2>1. /\ session' = [session EXCEPT ![c] = session'[c]]
        /\ UNCHANGED <<streamDelta, loadBatch, calls>>
    BY <1>3, <1>type DEF TakeBatchSeq, BeginTransaction, ConsumeStream
  <2>2. /\ session[c].pc # "idle"
        /\ session'[c].batch_id = session[c].batch_id
    BY <1>3, <1>type DEF TakeBatchSeq, BeginTransaction, ConsumeStream, Session
  <2>3. CASE TakeBatchSeq(c)
    <3>1. session[c].pc = "guarded" /\ session'[c].pc = "numbered"
      BY <2>3, <1>type DEF TakeBatchSeq, Session
    <3>. QED
      BY <2>1, <2>2, <3>1, CallGoesOn
  <2>4. CASE BeginTransaction(c)
    <3>1. session[c].pc = "numbered" /\ session'[c].pc = "begun"
          /\ session'[c].delta = streamDelta
      BY <2>4, <1>type DEF BeginTransaction, Session
    <3>. QED
      BY <2>1, <2>2, <3>1, CallGoesOn
  <2>5. CASE ConsumeStream(c)
    <3>1. session[c].pc = "begun" /\ session'[c].pc = "open"
          /\ session'[c].delta \cap streamDelta = session[c].delta \cap streamDelta
      BY <2>5, <1>type DEF ConsumeStream, Session
    <3>. QED
      BY <2>1, <2>2, <3>1, CallGoesOn
  <2>. QED
    BY <1>3, <2>3, <2>4, <2>5
<1>4. ASSUME NEW c \in Caller, CommitDrain(c)
      PROVE  BatchInv'
  BY <1>4, CommitOfNothing, CommitOfRows
<1>5. ASSUME NEW c \in Caller, RaiseDrain(c)
      PROVE  BatchInv'
  <2>. DEFINE b == [batch_id |-> session[c].batch_id, batch_status |-> "FAILED",
                    row_count |-> 0]
  <2>1. /\ session[c].pc # "idle" /\ IdleSession.pc = "idle"
        /\ session' = [session EXCEPT ![c] = IdleSession]
        /\ UNCHANGED <<streamDelta, calls>>
    BY <1>5 DEF RaiseDrain, IdleSession
  <2>2. CASE FailureRows(session[c]) = {}
    <3>1. loadBatch' = loadBatch
      BY <1>5, <2>2 DEF RaiseDrain
    <3>. QED
      BY <2>1, <3>1, CallGoesOn
  <2>3. CASE FailureRows(session[c]) = {b}
    <3>1. loadBatch' = loadBatch \cup {b}
      BY <1>5, <2>3 DEF RaiseDrain
    <3>2. IsFiniteSet(loadBatch)' /\ BatchRowOwn'
      BY <2>1, <3>1, CallRecorded
    <3>3. EmptyBatches' = EmptyBatches /\ MovingBatches' = MovingBatches
      BY <3>1 DEF EmptyBatches, MovingBatches
    <3>4. TooLate' \subseteq TooLate
      BY <2>1, <1>type DEF TooLate, ComesTooLate
    <3>5. EmptyBatchesOwed'
      BY <3>3, <3>4, OwesNoMore DEF BatchInv
    <3>. QED
      BY <3>2, <3>5 DEF BatchInv
  <2>. QED
    BY <2>2, <2>3 DEF FailureRows
<1>6. ASSUME NEW c \in Caller, KillDrain(c)
      PROVE  BatchInv'
  <2>1. /\ IdleSession.pc = "idle"
        /\ session' = [session EXCEPT ![c] = IdleSession]
        /\ UNCHANGED <<streamDelta, loadBatch, calls>>
    BY <1>6 DEF KillDrain, IdleSession
  <2>. QED
    BY <2>1, CallGoesOn
<1>7. ASSUME NEW rows \in SUBSET (Event \ tradeEvent), Land(rows)
      PROVE  BatchInv'
  BY <1>1, <1>7 DEF Land
<1>8. CASE StartBuild \/ MergeBuild \/ FailBuild \/ PruneQueue \/ NextDay \/ UNCHANGED vars
  BY <1>1, <1>8 DEF StartBuild, MergeBuild, FailBuild, PruneQueue, NextDay, vars,
     captureVars
<1>. QED
  BY <1>2, <1>3, <1>4, <1>5, <1>6, <1>7, <1>8 DEF Next, DrainStep

(* The guard's promise, as far as it goes: every drain that moves rows     *)
(* leaves at most one empty batch behind for each other session, so that   *)
(* one session alone never records one, and many only when they overlap.   *)
THEOREM EmptyBatchesNeedOverlap == Spec => []EmptyBatchNeedsOverlap
<1>1. TypeOK /\ BatchInv /\ [Next]_vars => BatchInv'
  BY BatchStep
<1>2. BatchInv => EmptyBatchNeedsOverlap
  <2> SUFFICES ASSUME BatchInv
               PROVE  EmptyBatchNeedsOverlap
    OBVIOUS
  <2>1. (Cardinality(Caller) - 1) * Cardinality(MovingBatches) \in Int
    BY BatchCounts DEF BatchInv
  <2>. QED
    BY <2>1, BatchCounts DEF BatchInv, EmptyBatchesOwed, EmptyBatchNeedsOverlap
<1>. QED
  BY BatchInit, <1>1, <1>2, TypeCorrect, PTL DEF Spec
=============================================================================
