---------------------------- MODULE Adjudication ----------------------------
(***************************************************************************)
(* The verdict of int_trade_event_adjudicated.sql on one run's events.     *)
(*                                                                         *)
(* The field rules RJ002-RJ008 and RJ011-RJ017 read one event and the      *)
(* reference data: they are one attribute, well_formed, except RJ003, which*)
(* depends on the day of the build.  The state rules RJ001, RJ009 and RJ010*)
(* compare events, and are kept in full.  A window function or a maximum   *)
(* over rows is written as a quantifier over the rows it ranges over.      *)
(***************************************************************************)
EXTENDS Integers

CONSTANTS
    Trade,          \* trade_id values
    Version,        \* trade_version values
    Action,         \* "NEW", "AMEND", "CANCEL"; no rule refuses another value
    Timestamp,      \* effective_event_ts values
    NoMaturity      \* a null maturity_date

ASSUME DomainAssumption ==
    /\ Version \subseteq Int
    /\ Timestamp \subseteq Nat
    /\ NoMaturity \notin Nat

(* What an upstream system sent, as int_trade_event_typed reads it.        *)
Arrival == [trade_id : Trade, trade_version : Version, action : Action,
            effective_event_ts : Timestamp, well_formed : BOOLEAN,
            maturity_date : Nat \cup {NoMaturity}]

(* A row of the typed view: an arrival with its keys.                      *)
Event == [event_sk : Nat, batch_seq : Nat, sent : Arrival]

Verdict == {"ACCEPTED", "REJECTED", "SUPERSEDED"}
StateRule == {"RJ001", "RJ009", "RJ010"}
VersionAction == {"NEW", "REPLACE", "AMEND", "none"}

SameTrade(e, f) == e.sent.trade_id = f.sent.trade_id

SameVersion(e, f) ==
    SameTrade(e, f) /\ e.sent.trade_version = f.sent.trade_version

(* Mutant: ties are not broken.                                            *)
OutranksByTime(f, e) == f.sent.effective_event_ts > e.sent.effective_event_ts

(* order by effective_event_ts, batch_seq, event_sk: business time first.  *)
Outranks(f, e) ==
    \/ f.sent.effective_event_ts > e.sent.effective_event_ts
    \/ /\ f.sent.effective_event_ts = e.sent.effective_event_ts
       /\ \/ f.batch_seq > e.batch_seq
          \/ f.batch_seq = e.batch_seq /\ f.event_sk > e.event_sk

(* order by batch_seq, effective_event_ts, event_sk: arrival first.        *)
Precedes(f, e) ==
    \/ f.batch_seq < e.batch_seq
    \/ /\ f.batch_seq = e.batch_seq
       /\ \/ f.sent.effective_event_ts < e.sent.effective_event_ts
          \/ /\ f.sent.effective_event_ts = e.sent.effective_event_ts
             /\ f.event_sk < e.event_sk

Matured(date, businessDate) == date # NoMaturity /\ date < businessDate

(* STEP 1.  RJ003 exempts a cancellation.                                  *)
IsFieldValid(e, businessDate) ==
    /\ e.sent.well_formed
    /\ Matured(e.sent.maturity_date, businessDate) => e.sent.action = "CANCEL"

-----------------------------------------------------------------------------
(* The operators below take the run's field-valid events (valid), and the  *)
(* events accepted by earlier builds (prior).                              *)

(* STEP 2.  intra_run_rank > 1.                                            *)
Loses(valid, e) ==
    e \in valid /\ \E f \in valid : SameVersion(f, e) /\ Outranks(f, e)

(* Mutants: the mark is the stored version alone, or the run's alone.      *)
StoredMarks(valid, prior, e) == {f \in prior : SameTrade(f, e)}

RunMarks(valid, prior, e) ==
    {f \in valid : SameTrade(f, e) /\ ~Loses(valid, f) /\ Precedes(f, e)}

(* STEP 3.  The versions the high-water mark is the maximum of.            *)
MarksBefore(valid, prior, e) ==
    {f \in prior : SameTrade(f, e)} \cup
    {f \in valid : SameTrade(f, e) /\ ~Loses(valid, f) /\ Precedes(f, e)}

(* STEP 4.  Evaluated for every event, a field-invalid one included.  With *)
(* no version to compare with, the mark is 0.                              *)
RJ001(valid, prior, e) ==
    \/ e.sent.trade_version < 0
    \/ \E f \in MarksBefore(valid, prior, e) : e.sent.trade_version < f.sent.trade_version

RJ010(prior, e) ==
    /\ e.sent.action \in {"NEW", "AMEND"}
    /\ \E f \in prior : SameTrade(f, e) /\ f.sent.action = "CANCEL"

StateRulesFired(valid, prior, e) ==
    {r \in StateRule : \/ r = "RJ001" /\ RJ001(valid, prior, e)
                       \/ r = "RJ009" /\ Loses(valid, e)
                       \/ r = "RJ010" /\ RJ010(prior, e)}

(* SUPERSEDED is checked before REJECTED.                                  *)
VerdictOn(valid, prior, e) ==
    IF Loses(valid, e) THEN "SUPERSEDED"
    ELSE IF e \notin valid \/ RJ001(valid, prior, e) \/ RJ010(prior, e)
         THEN "REJECTED"
         ELSE "ACCEPTED"

(* Mutant: the label looks at the stored version alone.                    *)
StoredVersionActionOf(valid, prior, e) ==
    IF VerdictOn(valid, prior, e) # "ACCEPTED" THEN "none"
    ELSE IF \A f \in prior : SameTrade(f, e) => f.sent.trade_version <= 0 THEN "NEW"
    ELSE IF \E f \in prior : SameVersion(f, e) THEN "REPLACE"
    ELSE "AMEND"

(* An accepted event is not below the mark, so it equals the mark exactly  *)
(* when one of the versions under the maximum is its own.                  *)
VersionActionOf(valid, prior, e) ==
    LET marks == MarksBefore(valid, prior, e) IN
    IF VerdictOn(valid, prior, e) # "ACCEPTED" THEN "none"
    ELSE IF \A f \in marks : f.sent.trade_version <= 0 THEN "NEW"
    ELSE IF \E f \in marks : SameVersion(f, e) THEN "REPLACE"
    ELSE "AMEND"
=============================================================================
