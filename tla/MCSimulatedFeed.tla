--------------------------- MODULE MCSimulatedFeed ---------------------------
(* SimulatedFeed with a clean payload that is flagged, and a tenor that    *)
(* outlasts a run; or, in states of their own, one clean payload and the   *)
(* corruption of it.                                                       *)
EXTENDS SimulatedFeed

CONSTANT NoSample

VARIABLE sample

LargePayload == CHOOSE p \in CleanPayloads : p.notional_amount = "over_limit"
FarTenor == {9}

Samples ==
    [payload : CleanPayloads,
     corruption : UNION {Corruptions(f) : f \in Fault \ IDENTITY_DESTROYING_FAULTS}]

MCInit == Init /\ sample \in {NoSample} \cup Samples
MCNext == sample = NoSample /\ Next /\ UNCHANGED sample
MCSpec == MCInit /\ [][MCNext]_<<vars, sample>>

(* Every fault that keeps the identity of its event is caught by the rules *)
(* it was promised, whatever event it falls on, one over its book's limit  *)
(* included, and whichever token is drawn (_corrupt and                    *)
(* _codes_for_reference_token against the rule book).                      *)
FaultIsCaught == sample # NoSample => CaughtAsPromised(sample.payload, sample.corruption)
=============================================================================
