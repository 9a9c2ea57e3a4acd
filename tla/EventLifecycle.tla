--------------------------- MODULE EventLifecycle ---------------------------
(***************************************************************************)
(* What the capture layer promises the rest of the pipeline, without its   *)
(* stream, queue or batches: an event that landed is captured once, and a  *)
(* captured event is adjudicated once.  No event is ever un-landed,        *)
(* un-captured or un-adjudicated.                                          *)
(***************************************************************************)

CONSTANT Event            \* the rows RAW.TRADE_EVENT may ever hold

VARIABLES landed,         \* events in the landing table
          captured,       \* events the drain has handed over
          decided         \* events that have a verdict

lifecycleVars == <<landed, captured, decided>>

Init ==
    /\ landed = {}
    /\ captured = {}
    /\ decided = {}

Arrive(S) ==
    /\ S \subseteq Event \ landed
    /\ landed' = landed \cup S
    /\ UNCHANGED <<captured, decided>>

Capture(S) ==
    /\ S \subseteq landed \ captured
    /\ captured' = captured \cup S
    /\ UNCHANGED <<landed, decided>>

Decide(S) ==
    /\ S \subseteq captured \ decided
    /\ decided' = decided \cup S
    /\ UNCHANGED <<landed, captured>>

Next ==
    \E S \in SUBSET Event : Arrive(S) \/ Capture(S) \/ Decide(S)

Spec == Init /\ [][Next]_lifecycleVars
=============================================================================
