--------------------------- MODULE FaultCatalogue ---------------------------
(***************************************************************************)
(* The simulator's catalogue of faults, and the FIELD rules of the rule    *)
(* book that have to catch them.  A payload field is abstracted to the     *)
(* classes that the rules tell apart; a fault replaces the class of one    *)
(* field or two.                                                           *)
(***************************************************************************)
EXTENDS FiniteSets

(* fault |-> codes the manifest promises.                                  *)
FAULT_EXPECTATIONS ==
    [unparseable_json             |-> {"RJ008"},
     missing_trade_id             |-> {"RJ008"},
     missing_mandatory_field      |-> {"RJ004"},
     unknown_counterparty         |-> {"RJ005"},
     inactive_counterparty        |-> {"RJ016"},
     invalid_currency             |-> {"RJ006"},
     negative_notional            |-> {"RJ007"},
     zero_notional                |-> {"RJ007"},
     maturity_before_trade_date   |-> {"RJ002"},
     settlement_before_trade_date |-> {"RJ012"},
     unknown_book                 |-> {"RJ011"},
     unsupported_product          |-> {"RJ013"},
     invalid_direction            |-> {"RJ015"},
     non_deliverable_physical     |-> {"RJ017"},
     notional_over_limit          |-> {"RJ018"},
     type_mismatch_notional       |-> {"RJ008"}]

Fault == DOMAIN FAULT_EXPECTATIONS
WARN_ONLY_FAULTS == {"notional_over_limit"}
IDENTITY_DESTROYING_FAULTS == {"unparseable_json", "missing_trade_id"}

-----------------------------------------------------------------------------
(* Reference data, and the tokens that are not in it, by the classes that  *)
(* the rules tell apart.  Token lists hold blanks beside unknown values.   *)
COUNTERPARTIES == {"active", "inactive"}
CURRENCIES == {"deliverable", "restricted"}
PRODUCTS == {"physical", "cash"}
BOOKS == {"known"}
AMOUNTS == {"within", "over_limit"}     \* of the limit of the book
INVALID_CURRENCY_TOKENS == {"unknown", "blank"}
UNSUPPORTED_PRODUCT_TOKENS == {"unknown"}
INVALID_BOOK_TOKENS == {"unknown", "blank"}
INVALID_DIRECTION_TOKENS == {"unknown", "blank"}

(* What an event without a fault carries: a counterparty that is active,   *)
(* and no physically settled product in a restricted currency.  Product and*)
(* book are drawn independently, so the amount may be over the book's limit*)
CleanPayloads ==
    {[json |-> "valid", trade_id |-> "given", counterparty_id |-> "active",
      book_id |-> b, buy_sell |-> "valid", trade_date |-> "given",
      settlement_date |-> "later", maturity_date |-> "later", notional_amount |-> n,
      product_type |-> pc[1], notional_currency |-> pc[2], settlement_currency |-> pc[2]] :
        b \in BOOKS, n \in AMOUNTS, pc \in PRODUCTS \X CURRENCIES \ {<<"physical", "restricted">>}}

Field(name, value) == [f \in {name} |-> value]

(* fault |-> the changes it may draw.                                      *)
Damage ==
    [unparseable_json             |-> {Field("json", "broken")},
     missing_trade_id             |-> {Field("trade_id", "null")},
     missing_mandatory_field      |->
        {Field(f, "null") : f \in {"counterparty_id", "notional_currency", "trade_date",
                              "book_id", "buy_sell"}},
     unknown_counterparty         |-> {Field("counterparty_id", "unknown")},
     inactive_counterparty        |->
        {Field("counterparty_id", c) : c \in COUNTERPARTIES \ {"active"}},
     invalid_currency             |-> {Field("notional_currency", t) : t \in INVALID_CURRENCY_TOKENS},
     negative_notional            |-> {Field("notional_amount", "negative")},
     zero_notional                |-> {Field("notional_amount", "zero")},
     maturity_before_trade_date   |-> {Field("maturity_date", "earlier")},
     settlement_before_trade_date |-> {Field("settlement_date", "earlier")},
     unknown_book                 |-> {Field("book_id", t) : t \in INVALID_BOOK_TOKENS},
     unsupported_product          |-> {Field("product_type", t) : t \in UNSUPPORTED_PRODUCT_TOKENS},
     invalid_direction            |-> {Field("buy_sell", t) : t \in INVALID_DIRECTION_TOKENS},
     non_deliverable_physical     |->
        {[product_type |-> "physical", notional_currency |-> "restricted",
          settlement_currency |-> "restricted"]},
     notional_over_limit          |-> {Field("notional_amount", "over_limit")},
     type_mismatch_notional       |-> {Field("notional_amount", "text")}]

(* Mutant: a blank token is promised as an unknown value.                  *)
TokenAsUnknown(fault, damage) == FAULT_EXPECTATIONS[fault]

(* _codes_for_reference_token: a blank is a missing field.                 *)
CodesFor(fault, damage) ==
    IF \E f \in DOMAIN damage : damage[f] = "blank"
      THEN {"RJ004"} ELSE FAULT_EXPECTATIONS[fault]

(* _corrupt.  The fields of the damage replace those of the payload.       *)
Damaged(payload, damage) ==
    [f \in DOMAIN payload |-> IF f \in DOMAIN damage THEN damage[f] ELSE payload[f]]

Corruptions(fault) ==
    {[damage |-> d, injected_fault |-> fault, expected_rule_codes |-> CodesFor(fault, d)] :
        d \in Damage[fault]}

-----------------------------------------------------------------------------
(* The typed layer turns a blank into a null.                              *)
IsNull(value) == value \in {"null", "blank"}

(* The FIELD rules that look at the payload alone; RJ003 and RJ014 also    *)
(* look at the day of the build.                                           *)
FieldRule(p) ==
    [RJ002 |-> p.maturity_date = "earlier" /\ ~IsNull(p.trade_date),
     RJ004 |-> \/ \E f \in {"trade_id", "counterparty_id", "book_id", "product_type",
                            "buy_sell", "notional_currency", "trade_date"} : IsNull(p[f])
               \/ p.notional_amount = "text",
     RJ005 |-> p.counterparty_id = "unknown",
     RJ006 |-> p.notional_currency = "unknown",
     RJ007 |-> p.notional_amount \in {"zero", "negative"},
     RJ008 |-> p.notional_amount = "text",
     RJ011 |-> p.book_id = "unknown",
     RJ012 |-> p.settlement_date = "earlier" /\ ~IsNull(p.trade_date),
     RJ013 |-> p.product_type = "unknown",
     RJ015 |-> p.buy_sell = "unknown",
     RJ016 |-> p.counterparty_id = "inactive",
     RJ017 |-> p.product_type = "physical" /\ p.settlement_currency = "restricted",
     RJ018 |-> p.notional_amount = "over_limit" /\ p.book_id = "known"]

FieldCodes(p) == {r \in DOMAIN FieldRule(p) : FieldRule(p)[r]}

(* The rules of the rule book that only flag, and the severities of the    *)
(* catalogue that operators read.                                          *)
WarnRules == {"RJ018", "RJ019"}

Codes == {"RJ001", "RJ002", "RJ003", "RJ004", "RJ005", "RJ006", "RJ007", "RJ008", "RJ009",
          "RJ010", "RJ011", "RJ012", "RJ013", "RJ014", "RJ015", "RJ016", "RJ017", "RJ018", "RJ019"}

REJECTION_REASONS ==
    [c \in Codes |-> IF c = "RJ009" THEN "SUPERSEDE"
                     ELSE IF c \in {"RJ018", "RJ019"} THEN "WARN" ELSE "REJECT"]

PayloadIsValid(p) == FieldCodes(p) \subseteq WarnRules

-----------------------------------------------------------------------------
(* A fault drawn for a clean payload is caught for the reason the          *)
(* simulator gives: clean, the event trips no rule that rejects it, though *)
(* it may be over its book's limit; corrupted, it trips every rule it was  *)
(* promised, and it passes only if the fault is one of those that the      *)
(* catalogue of reasons calls a warning.                                   *)
CaughtAsPromised(payload, c) ==
    LET corrupted == Damaged(payload, c.damage)
        harmless == c.injected_fault \in WARN_ONLY_FAULTS IN
    /\ PayloadIsValid(payload)
    /\ c.expected_rule_codes \subseteq FieldCodes(corrupted)
    /\ PayloadIsValid(corrupted) <=> harmless
    /\ (\A r \in FieldCodes(corrupted) : REJECTION_REASONS[r] = "WARN") <=> harmless
=============================================================================
