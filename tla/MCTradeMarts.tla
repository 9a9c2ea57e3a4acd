---------------------------- MODULE MCTradeMarts ----------------------------
(***************************************************************************)
(* Small inboxes for TradeMarts.                                           *)
(***************************************************************************)
EXTENDS TradeMarts

Sent(t, v, a, ts, ok, m) ==
    [trade_id |-> t, trade_version |-> v, action |-> a, effective_event_ts |-> ts,
     well_formed |-> ok, maturity_date |-> m]

(* One trade amended and cancelled at two versions and two business times, *)
(* and a malformed resend with the best claim to win.                      *)
ArbitrationInbox ==
    {Sent("T1", v, a, ts, TRUE, NoMaturity) :
        v \in {1, 2}, a \in {"AMEND", "CANCEL"}, ts \in {1, 2}}
    \cup {Sent("T1", 2, "AMEND", 2, FALSE, NoMaturity)}

(* Two trades that mature on day 0, one of them amended to never mature,   *)
(* cancelled, or resent malformed.                                         *)
LifecycleInbox ==
    {Sent("T1", 1, "NEW", 1, TRUE, 0), Sent("T2", 1, "NEW", 1, TRUE, 0),
     Sent("T1", 2, "AMEND", 1, TRUE, NoMaturity), Sent("T1", 1, "CANCEL", 1, TRUE, 0),
     Sent("T1", 1, "AMEND", 1, FALSE, 0)}

(* One trade amended or cancelled at three versions.                       *)
HistoryInbox ==
    {Sent("T1", v, a, 1, TRUE, NoMaturity) : v \in 1..3, a \in {"AMEND", "CANCEL"}}
=============================================================================
