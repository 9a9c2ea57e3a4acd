---------------------------- MODULE ManifestProofs ----------------------------
(***************************************************************************)
(* What the simulators promise is what the warehouse does: a fault trips   *)
(* the rules it was promised, and a batch in step gets the verdicts of its *)
(* manifest, with which the reconciler agrees.                             *)
(***************************************************************************)
EXTENDS SimulatedFeedProofs, PrefixInduction, FiniteSetTheorems

-----------------------------------------------------------------------------
(* FAULTS                                                                  *)

LEMMA FieldCodesAre ==
    ASSUME NEW p, NEW r
    PROVE  r \in FieldCodes(p) <=>
             \/ r = "RJ002" /\ p.maturity_date = "earlier" /\ ~IsNull(p.trade_date)
             \/ /\ r = "RJ004"
                /\ \/ \E f \in {"trade_id", "counterparty_id", "book_id", "product_type",
                                "buy_sell", "notional_currency", "trade_date"} : IsNull(p[f])
                   \/ p.notional_amount = "text"
             \/ r = "RJ005" /\ p.counterparty_id = "unknown"
             \/ r = "RJ006" /\ p.notional_currency = "unknown"
             \/ r = "RJ007" /\ p.notional_amount \in {"zero", "negative"}
             \/ r = "RJ008" /\ p.notional_amount = "text"
             \/ r = "RJ011" /\ p.book_id = "unknown"
             \/ r = "RJ012" /\ p.settlement_date = "earlier" /\ ~IsNull(p.trade_date)
             \/ r = "RJ013" /\ p.product_type = "unknown"
             \/ r = "RJ015" /\ p.buy_sell = "unknown"
             \/ r = "RJ016" /\ p.counterparty_id = "inactive"
             \/ r = "RJ017" /\ p.product_type = "physical" /\ p.settlement_currency = "restricted"
             \/ r = "RJ018" /\ p.notional_amount = "over_limit" /\ p.book_id = "known"
<1>1. DOMAIN FieldRule(p) = {"RJ002", "RJ004", "RJ005", "RJ006", "RJ007", "RJ008", "RJ011",
                             "RJ012", "RJ013", "RJ015", "RJ016", "RJ017", "RJ018"}
  BY DEF FieldRule
<1>2. /\ FieldRule(p)["RJ002"] <=> p.maturity_date = "earlier" /\ ~IsNull(p.trade_date)
      /\ FieldRule(p)["RJ004"] <=>
           \/ \E f \in {"trade_id", "counterparty_id", "book_id", "product_type",
                        "buy_sell", "notional_currency", "trade_date"} : IsNull(p[f])
           \/ p.notional_amount = "text"
      /\ FieldRule(p)["RJ005"] <=> p.counterparty_id = "unknown"
      /\ FieldRule(p)["RJ006"] <=> p.notional_currency = "unknown"
      /\ FieldRule(p)["RJ007"] <=> p.notional_amount \in {"zero", "negative"}
      /\ FieldRule(p)["RJ008"] <=> p.notional_amount = "text"
      /\ FieldRule(p)["RJ011"] <=> p.book_id = "unknown"
      /\ FieldRule(p)["RJ012"] <=> p.settlement_date = "earlier" /\ ~IsNull(p.trade_date)
      /\ FieldRule(p)["RJ013"] <=> p.product_type = "unknown"
      /\ FieldRule(p)["RJ015"] <=> p.buy_sell = "unknown"
      /\ FieldRule(p)["RJ016"] <=> p.counterparty_id = "inactive"
      /\ FieldRule(p)["RJ017"] <=> p.product_type = "physical" /\ p.settlement_currency = "restricted"
      /\ FieldRule(p)["RJ018"] <=> p.notional_amount = "over_limit" /\ p.book_id = "known"
  BY DEF FieldRule
<1>3. r \in FieldCodes(p) <=> r \in DOMAIN FieldRule(p) /\ FieldRule(p)[r]
  BY DEF FieldCodes
<1>. QED
  BY <1>1, <1>2, <1>3

LEMMA CleanFields ==
    ASSUME NEW p \in CleanPayloads
    PROVE  /\ DOMAIN p = {"json", "trade_id", "counterparty_id", "book_id", "buy_sell",
                          "trade_date", "settlement_date", "maturity_date", "notional_amount",
                          "product_type", "notional_currency", "settlement_currency"}
           /\ p.trade_id = "given" /\ p.counterparty_id = "active" /\ p.book_id = "known"
           /\ p.buy_sell = "valid" /\ p.trade_date = "given" /\ p.settlement_date = "later"
           /\ p.maturity_date = "later" /\ p.notional_amount \in {"within", "over_limit"}
           /\ p.product_type \in {"physical", "cash"}
           /\ p.notional_currency \in {"deliverable", "restricted"}
           /\ ~(p.product_type = "physical" /\ p.settlement_currency = "restricted")
<1>1. PICK b \in BOOKS, n \in AMOUNTS,
           pc \in PRODUCTS \X CURRENCIES \ {<<"physical", "restricted">>} :
        p = [json |-> "valid", trade_id |-> "given", counterparty_id |-> "active",
             book_id |-> b, buy_sell |-> "valid", trade_date |-> "given",
             settlement_date |-> "later", maturity_date |-> "later",
             notional_amount |-> n, product_type |-> pc[1],
             notional_currency |-> pc[2], settlement_currency |-> pc[2]]
  BY DEF CleanPayloads
<1>2. /\ pc[1] \in {"physical", "cash"} /\ pc[2] \in {"deliverable", "restricted"}
      /\ ~(pc[1] = "physical" /\ pc[2] = "restricted") /\ b = "known"
      /\ n \in {"within", "over_limit"}
  BY DEF PRODUCTS, CURRENCIES, BOOKS, AMOUNTS
<1>. QED
  BY <1>1, <1>2

(* The faults that change one field, with the field and its new value.     *)
SingleDamage ==
    [missing_mandatory_field      |->
        {"counterparty_id", "notional_currency", "trade_date", "book_id", "buy_sell"} \X {"null"},
     unknown_counterparty         |-> {<<"counterparty_id", "unknown">>},
     inactive_counterparty        |-> {<<"counterparty_id", "inactive">>},
     invalid_currency             |-> {"notional_currency"} \X {"unknown", "blank"},
     negative_notional            |-> {<<"notional_amount", "negative">>},
     zero_notional                |-> {<<"notional_amount", "zero">>},
     maturity_before_trade_date   |-> {<<"maturity_date", "earlier">>},
     settlement_before_trade_date |-> {<<"settlement_date", "earlier">>},
     unknown_book                 |-> {"book_id"} \X {"unknown", "blank"},
     unsupported_product          |-> {<<"product_type", "unknown">>},
     invalid_direction            |-> {"buy_sell"} \X {"unknown", "blank"},
     notional_over_limit          |-> {<<"notional_amount", "over_limit">>},
     type_mismatch_notional       |-> {<<"notional_amount", "text">>}]

Restricted ==
    [product_type |-> "physical", notional_currency |-> "restricted",
     settlement_currency |-> "restricted"]

LEMMA DamageCases ==
    ASSUME NEW f \in Fault \ IDENTITY_DESTROYING_FAULTS, NEW d \in Damage[f]
    PROVE  \/ f = "non_deliverable_physical" /\ d = Restricted
           \/ /\ f \in DOMAIN SingleDamage
              /\ \E x \in SingleDamage[f] : d = Field(x[1], x[2])
<1>1. f \in {"missing_mandatory_field", "unknown_counterparty", "inactive_counterparty",
             "invalid_currency", "negative_notional", "zero_notional",
             "maturity_before_trade_date", "settlement_before_trade_date", "unknown_book",
             "unsupported_product", "invalid_direction", "non_deliverable_physical",
             "notional_over_limit", "type_mismatch_notional"}
  BY DEF Fault, FAULT_EXPECTATIONS, IDENTITY_DESTROYING_FAULTS
<1>2. DOMAIN SingleDamage = {"missing_mandatory_field", "unknown_counterparty",
             "inactive_counterparty", "invalid_currency", "negative_notional", "zero_notional",
             "maturity_before_trade_date", "settlement_before_trade_date", "unknown_book",
             "unsupported_product", "invalid_direction", "notional_over_limit",
             "type_mismatch_notional"}
  BY DEF SingleDamage
<1>3. CASE f = "non_deliverable_physical"
  BY <1>3 DEF Damage, Restricted
<1>4. CASE f \in {"missing_mandatory_field"}
  <2>1. PICK n \in {"counterparty_id", "notional_currency", "trade_date", "book_id", "buy_sell"} :
          d = Field(n, "null")
    BY <1>4 DEF Damage
  <2>2. <<n, "null">> \in SingleDamage[f]
    BY <1>4 DEF SingleDamage
  <2>. QED
    BY <1>2, <1>4, <2>1, <2>2
<1>5. CASE f \in {"unknown_counterparty", "negative_notional", "zero_notional",
                  "maturity_before_trade_date", "settlement_before_trade_date",
                  "notional_over_limit", "type_mismatch_notional"}
  <2>1. \E name, value : d = Field(name, value) /\ SingleDamage[f] = {<<name, value>>}
    <3>1. CASE f = "unknown_counterparty"
      <4>1. d = Field("counterparty_id", "unknown")
        BY <3>1 DEF Damage
      <4>2. SingleDamage[f] = {<<"counterparty_id", "unknown">>}
        BY <3>1 DEF SingleDamage
      <4>. QED
        BY <4>1, <4>2
    <3>2. CASE f = "negative_notional"
      <4>1. d = Field("notional_amount", "negative")
        BY <3>2 DEF Damage
      <4>2. SingleDamage[f] = {<<"notional_amount", "negative">>}
        BY <3>2 DEF SingleDamage
      <4>. QED
        BY <4>1, <4>2
    <3>3. CASE f = "zero_notional"
      <4>1. d = Field("notional_amount", "zero")
        BY <3>3 DEF Damage
      <4>2. SingleDamage[f] = {<<"notional_amount", "zero">>}
        BY <3>3 DEF SingleDamage
      <4>. QED
        BY <4>1, <4>2
    <3>4. CASE f = "maturity_before_trade_date"
      <4>1. d = Field("maturity_date", "earlier")
        BY <3>4 DEF Damage
      <4>2. SingleDamage[f] = {<<"maturity_date", "earlier">>}
        BY <3>4 DEF SingleDamage
      <4>. QED
        BY <4>1, <4>2
    <3>5. CASE f = "settlement_before_trade_date"
      <4>1. d = Field("settlement_date", "earlier")
        BY <3>5 DEF Damage
      <4>2. SingleDamage[f] = {<<"settlement_date", "earlier">>}
        BY <3>5 DEF SingleDamage
      <4>. QED
        BY <4>1, <4>2
    <3>6. CASE f = "notional_over_limit"
      <4>1. d = Field("notional_amount", "over_limit")
        BY <3>6 DEF Damage
      <4>2. SingleDamage[f] = {<<"notional_amount", "over_limit">>}
        BY <3>6 DEF SingleDamage
      <4>. QED
        BY <4>1, <4>2
    <3>7. CASE f = "type_mismatch_notional"
      <4>1. d = Field("notional_amount", "text")
        BY <3>7 DEF Damage
      <4>2. SingleDamage[f] = {<<"notional_amount", "text">>}
        BY <3>7 DEF SingleDamage
      <4>. QED
        BY <4>1, <4>2
    <3>. QED
      BY <1>5, <3>1, <3>2, <3>3, <3>4, <3>5, <3>6, <3>7
  <2>2. \E x \in SingleDamage[f] : d = Field(x[1], x[2])
    BY <2>1
  <2>. QED
    BY <1>2, <1>5, <2>2
<1>6. CASE f = "inactive_counterparty"
  <2>1. d = Field("counterparty_id", "inactive")
    BY <1>6 DEF Damage, COUNTERPARTIES
  <2>2. SingleDamage[f] = {<<"counterparty_id", "inactive">>}
    BY <1>6 DEF SingleDamage
  <2>. QED
    BY <1>2, <1>6, <2>1, <2>2
<1>7. CASE f = "invalid_currency"
  <2>1. PICK t \in {"unknown", "blank"} : d = Field("notional_currency", t)
    BY <1>7 DEF Damage, INVALID_CURRENCY_TOKENS
  <2>2. <<"notional_currency", t>> \in SingleDamage[f]
    BY <1>7 DEF SingleDamage
  <2>. QED
    BY <1>2, <1>7, <2>1, <2>2
<1>8. CASE f = "unknown_book"
  <2>1. PICK t \in {"unknown", "blank"} : d = Field("book_id", t)
    BY <1>8 DEF Damage, INVALID_BOOK_TOKENS
  <2>2. <<"book_id", t>> \in SingleDamage[f]
    BY <1>8 DEF SingleDamage
  <2>. QED
    BY <1>2, <1>8, <2>1, <2>2
<1>9. CASE f = "invalid_direction"
  <2>1. PICK t \in {"unknown", "blank"} : d = Field("buy_sell", t)
    BY <1>9 DEF Damage, INVALID_DIRECTION_TOKENS
  <2>2. <<"buy_sell", t>> \in SingleDamage[f]
    BY <1>9 DEF SingleDamage
  <2>. QED
    BY <1>2, <1>9, <2>1, <2>2
<1>10. CASE f = "unsupported_product"
  <2>1. d = Field("product_type", "unknown")
    BY <1>10 DEF Damage, UNSUPPORTED_PRODUCT_TOKENS
  <2>2. SingleDamage[f] = {<<"product_type", "unknown">>}
    BY <1>10 DEF SingleDamage
  <2>. QED
    BY <1>2, <1>10, <2>1, <2>2
<1>. QED
  BY <1>1, <1>3, <1>4, <1>5, <1>6, <1>7, <1>8, <1>9, <1>10

(* A damage to one field is promised and caught by the same rules.         *)
LEMMA SingleCaught ==
    ASSUME NEW p \in CleanPayloads, NEW f \in DOMAIN SingleDamage, NEW x \in SingleDamage[f],
           NEW d, d = Field(x[1], x[2])
    PROVE  /\ CodesFor(f, d) \subseteq FieldCodes(Damaged(p, d))
           /\ f = "notional_over_limit" => FieldCodes(Damaged(p, d)) \subseteq {"RJ018"}
<1>. DEFINE name == x[1]
            value == x[2]
            q == Damaged(p, d)
<1>1. /\ name \in DOMAIN p =>
           q[name] = value /\ \A g \in DOMAIN p : g # name => q[g] = p[g]
      /\ DOMAIN d = {name} /\ d[name] = value
  <2>1. DOMAIN d = {name} /\ d[name] = value
    BY DEF Field
  <2>2. name \in DOMAIN p =>
           q[name] = value /\ \A g \in DOMAIN p : g # name => q[g] = p[g]
    BY DEF Field, Damaged
  <2>. QED
    BY <2>1, <2>2
<1>2. CodesFor(f, d) = IF value = "blank" THEN {"RJ004"} ELSE FAULT_EXPECTATIONS[f]
  BY <1>1 DEF CodesFor
<1>3. DOMAIN SingleDamage = {"missing_mandatory_field", "unknown_counterparty", "inactive_counterparty",
             "invalid_currency", "negative_notional", "zero_notional",
             "maturity_before_trade_date", "settlement_before_trade_date", "unknown_book",
             "unsupported_product", "invalid_direction", "notional_over_limit", "type_mismatch_notional"}
  BY DEF SingleDamage
<1>4. CASE f = "missing_mandatory_field"
  <2>1. name \in {"counterparty_id", "notional_currency", "trade_date", "book_id", "buy_sell"}
        /\ value \in {"null"}
    BY <1>4 DEF SingleDamage
  <2>2. FAULT_EXPECTATIONS[f] = {"RJ004"}
    BY <1>4 DEF FAULT_EXPECTATIONS
  <2>. HIDE DEF name, value, q
  <2>. QED
    BY <1>1, <1>2, <1>4, <2>1, <2>2, CleanFields, FieldCodesAre DEF IsNull, q
<1>5. CASE f = "unknown_counterparty"
  <2>1. name \in {"counterparty_id"}
        /\ value \in {"unknown"}
    BY <1>5 DEF SingleDamage
  <2>2. FAULT_EXPECTATIONS[f] = {"RJ005"}
    BY <1>5 DEF FAULT_EXPECTATIONS
  <2>. HIDE DEF name, value, q
  <2>. QED
    BY <1>1, <1>2, <1>5, <2>1, <2>2, CleanFields, FieldCodesAre DEF IsNull, q
<1>6. CASE f = "inactive_counterparty"
  <2>1. name \in {"counterparty_id"}
        /\ value \in {"inactive"}
    BY <1>6 DEF SingleDamage
  <2>2. FAULT_EXPECTATIONS[f] = {"RJ016"}
    BY <1>6 DEF FAULT_EXPECTATIONS
  <2>. HIDE DEF name, value, q
  <2>. QED
    BY <1>1, <1>2, <1>6, <2>1, <2>2, CleanFields, FieldCodesAre DEF IsNull, q
<1>7. CASE f = "invalid_currency"
  <2>1. name \in {"notional_currency"}
        /\ value \in {"unknown", "blank"}
    BY <1>7 DEF SingleDamage
  <2>2. FAULT_EXPECTATIONS[f] = {"RJ006"}
    BY <1>7 DEF FAULT_EXPECTATIONS
  <2>. HIDE DEF name, value, q
  <2>. QED
    BY <1>1, <1>2, <1>7, <2>1, <2>2, CleanFields, FieldCodesAre DEF IsNull, q
<1>8. CASE f = "negative_notional"
  <2>1. name \in {"notional_amount"}
        /\ value \in {"negative"}
    BY <1>8 DEF SingleDamage
  <2>2. FAULT_EXPECTATIONS[f] = {"RJ007"}
    BY <1>8 DEF FAULT_EXPECTATIONS
  <2>. HIDE DEF name, value, q
  <2>. QED
    BY <1>1, <1>2, <1>8, <2>1, <2>2, CleanFields, FieldCodesAre DEF IsNull, q
<1>9. CASE f = "zero_notional"
  <2>1. name \in {"notional_amount"}
        /\ value \in {"zero"}
    BY <1>9 DEF SingleDamage
  <2>2. FAULT_EXPECTATIONS[f] = {"RJ007"}
    BY <1>9 DEF FAULT_EXPECTATIONS
  <2>. HIDE DEF name, value, q
  <2>. QED
    BY <1>1, <1>2, <1>9, <2>1, <2>2, CleanFields, FieldCodesAre DEF IsNull, q
<1>10. CASE f = "maturity_before_trade_date"
  <2>1. name \in {"maturity_date"}
        /\ value \in {"earlier"}
    BY <1>10 DEF SingleDamage
  <2>2. FAULT_EXPECTATIONS[f] = {"RJ002"}
    BY <1>10 DEF FAULT_EXPECTATIONS
  <2>. HIDE DEF name, value, q
  <2>. QED
    BY <1>1, <1>2, <1>10, <2>1, <2>2, CleanFields, FieldCodesAre DEF IsNull, q
<1>11. CASE f = "settlement_before_trade_date"
  <2>1. name \in {"settlement_date"}
        /\ value \in {"earlier"}
    BY <1>11 DEF SingleDamage
  <2>2. FAULT_EXPECTATIONS[f] = {"RJ012"}
    BY <1>11 DEF FAULT_EXPECTATIONS
  <2>. HIDE DEF name, value, q
  <2>. QED
    BY <1>1, <1>2, <1>11, <2>1, <2>2, CleanFields, FieldCodesAre DEF IsNull, q
<1>12. CASE f = "unknown_book"
  <2>1. name \in {"book_id"}
        /\ value \in {"unknown", "blank"}
    BY <1>12 DEF SingleDamage
  <2>2. FAULT_EXPECTATIONS[f] = {"RJ011"}
    BY <1>12 DEF FAULT_EXPECTATIONS
  <2>. HIDE DEF name, value, q
  <2>. QED
    BY <1>1, <1>2, <1>12, <2>1, <2>2, CleanFields, FieldCodesAre DEF IsNull, q
<1>13. CASE f = "unsupported_product"
  <2>1. name \in {"product_type"}
        /\ value \in {"unknown"}
    BY <1>13 DEF SingleDamage
  <2>2. FAULT_EXPECTATIONS[f] = {"RJ013"}
    BY <1>13 DEF FAULT_EXPECTATIONS
  <2>. HIDE DEF name, value, q
  <2>. QED
    BY <1>1, <1>2, <1>13, <2>1, <2>2, CleanFields, FieldCodesAre DEF IsNull, q
<1>14. CASE f = "invalid_direction"
  <2>1. name \in {"buy_sell"}
        /\ value \in {"unknown", "blank"}
    BY <1>14 DEF SingleDamage
  <2>2. FAULT_EXPECTATIONS[f] = {"RJ015"}
    BY <1>14 DEF FAULT_EXPECTATIONS
  <2>. HIDE DEF name, value, q
  <2>. QED
    BY <1>1, <1>2, <1>14, <2>1, <2>2, CleanFields, FieldCodesAre DEF IsNull, q
<1>15. CASE f = "notional_over_limit"
  <2>1. name \in {"notional_amount"}
        /\ value \in {"over_limit"}
    BY <1>15 DEF SingleDamage
  <2>2. FAULT_EXPECTATIONS[f] = {"RJ018"}
    BY <1>15 DEF FAULT_EXPECTATIONS
  <2>. HIDE DEF name, value, q
  <2>. QED
    BY <1>1, <1>2, <1>15, <2>1, <2>2, CleanFields, FieldCodesAre DEF IsNull, q
<1>16. CASE f = "type_mismatch_notional"
  <2>1. name \in {"notional_amount"}
        /\ value \in {"text"}
    BY <1>16 DEF SingleDamage
  <2>2. FAULT_EXPECTATIONS[f] = {"RJ008"}
    BY <1>16 DEF FAULT_EXPECTATIONS
  <2>. HIDE DEF name, value, q
  <2>. QED
    BY <1>1, <1>2, <1>16, <2>1, <2>2, CleanFields, FieldCodesAre DEF IsNull, q
<1>. HIDE DEF q, name, value
<1>. QED
  BY <1>3, <1>4, <1>5, <1>6, <1>7, <1>8, <1>9, <1>10, <1>11, <1>12, <1>13, <1>14, <1>15, <1>16

(* A fault that keeps the identity of its event trips what it was promised,*)
(* and one that only flags trips no other rule.                            *)
LEMMA FaultCaught ==
    ASSUME NEW p \in CleanPayloads, NEW f \in Fault \ IDENTITY_DESTROYING_FAULTS,
           NEW c \in Corruptions(f)
    PROVE  /\ c.injected_fault = f
           /\ c.expected_rule_codes \subseteq FieldCodes(Damaged(p, c.damage))
           /\ IF f \in WARN_ONLY_FAULTS
                THEN FieldCodes(Damaged(p, c.damage)) \subseteq {"RJ018"}
                ELSE \E r \in FieldCodes(Damaged(p, c.damage)) : r \notin WarnRules
<1>1. PICK d \in Damage[f] :
        c = [damage |-> d, injected_fault |-> f, expected_rule_codes |-> CodesFor(f, d)]
  BY DEF Corruptions
<1>. DEFINE q == Damaged(p, d)
<1>2. /\ CodesFor(f, d) \subseteq FieldCodes(q)
      /\ f = "notional_over_limit" => FieldCodes(q) \subseteq {"RJ018"}
  <2>1. CASE f = "non_deliverable_physical" /\ d = Restricted
    <3>1. q.product_type = "physical" /\ q.settlement_currency = "restricted"
      BY <2>1, CleanFields DEF Damaged, Restricted
    <3>2. CodesFor(f, d) = {"RJ017"}
      BY <2>1 DEF CodesFor, Restricted, FAULT_EXPECTATIONS
    <3>. HIDE DEF q
    <3>. QED
      BY <2>1, <3>1, <3>2, FieldCodesAre
  <2>2. CASE f \in DOMAIN SingleDamage /\ \E x \in SingleDamage[f] : d = Field(x[1], x[2])
    BY <2>2, SingleCaught
  <2>. QED
    BY <2>1, <2>2, DamageCases
<1>3. CodesFor(f, d) = {"RJ004"} \/ CodesFor(f, d) = FAULT_EXPECTATIONS[f]
  BY DEF CodesFor
<1>4. f # "notional_over_limit" => \E r \in FAULT_EXPECTATIONS[f] : r \notin WarnRules
  BY DEF Fault, FAULT_EXPECTATIONS, WarnRules
<1>. HIDE DEF q
<1>5. f # "notional_over_limit" => \E r \in FieldCodes(q) : r \notin WarnRules
  <2>1. CASE CodesFor(f, d) = {"RJ004"}
    BY <1>2, <2>1 DEF WarnRules
  <2>2. CASE CodesFor(f, d) = FAULT_EXPECTATIONS[f]
    BY <1>2, <1>4, <2>2
  <2>. QED
    BY <1>3, <2>1, <2>2
<1>6. c.injected_fault = f /\ c.expected_rule_codes = CodesFor(f, d) /\ c.damage = d
  BY <1>1
<1>7. f \in WARN_ONLY_FAULTS <=> f = "notional_over_limit"
  BY DEF WARN_ONLY_FAULTS
<1>. QED
  BY <1>2, <1>5, <1>6, <1>7 DEF q

(* A clean payload trips no rule but that of the book's limit.             *)
LEMMA CleanPasses ==
    ASSUME NEW p \in CleanPayloads
    PROVE  FieldCodes(p) \subseteq {"RJ018"}
BY CleanFields, FieldCodesAre DEF IsNull

LEMMA CaughtAlways ==
    ASSUME NEW p \in CleanPayloads, NEW f \in Fault \ IDENTITY_DESTROYING_FAULTS,
           NEW c \in Corruptions(f)
    PROVE  CaughtAsPromised(p, c)
<1>. DEFINE codes == FieldCodes(Damaged(p, c.damage))
<1>1. /\ c.injected_fault = f /\ c.expected_rule_codes \subseteq codes
      /\ f \in WARN_ONLY_FAULTS => codes \subseteq {"RJ018"}
      /\ f \notin WARN_ONLY_FAULTS => \E r \in codes : r \notin WarnRules
      /\ codes \subseteq Codes
  BY FaultCaught, FieldRuleNames
<1>. HIDE DEF codes
<1>2. codes \subseteq WarnRules <=> f \in WARN_ONLY_FAULTS
  BY <1>1 DEF WarnRules
<1>3. \A r \in codes : REJECTION_REASONS[r] = "WARN" <=> r \in WarnRules
  BY <1>1 DEF REJECTION_REASONS, WarnRules
<1>4. (\A r \in codes : REJECTION_REASONS[r] = "WARN") <=> f \in WARN_ONLY_FAULTS
  BY <1>2, <1>3
<1>. QED
  BY <1>1, <1>2, <1>4, CleanPasses DEF CaughtAsPromised, PayloadIsValid, WarnRules, codes

(* Whatever clean payload an event carries, whatever fault that keeps its  *)
(* identity falls on it and whichever token is drawn, the field rules trip *)
(* what the manifest promises, and let it pass only if the fault is a      *)
(* warning.                                                                *)
THEOREM FaultsCaught == MCSpec => []FaultIsCaught
<1>. DEFINE Sampled == sample \in {NoSample} \cup Samples
<1>1. MCInit => Sampled
  BY DEF MCInit
<1>2. Sampled /\ [MCNext]_<<vars, sample>> => Sampled'
  BY DEF MCNext
<1>3. Sampled => FaultIsCaught
  BY CaughtAlways DEF FaultIsCaught, Samples
<1>. QED
  BY <1>1, <1>2, <1>3, PTL DEF MCSpec

-----------------------------------------------------------------------------
(* VERDICTS                                                                *)

(* What a build saw when it judged batch i: the rows it judged with it, and*)
(* the rows that earlier builds had accepted.                              *)
Together(i) == {j \in DOMAIN batch : batch[j].build = batch[i].build}
Earlier(i) == {j \in DOMAIN batch : 0 < batch[j].build /\ batch[j].build < batch[i].build}

ValidOf(i) == {r \in RowsOf(Together(i)) : IsFieldValid(r, batch[i].built_on)}

AcceptedOf(B) ==
    UNION {{Row(j, k) : k \in {n \in RowIndexes(j) : batch[j].verdicts[n].verdict = "ACCEPTED"}} :
             j \in B}

Judgement(i, k) ==
    [verdict |-> VerdictOn(ValidOf(i), AcceptedOf(Earlier(i)), Row(i, k)),
     codes |-> FieldRulesFired(batch[i].events[k], batch[i].built_on)
                 \cup StateRulesFired(ValidOf(i), AcceptedOf(Earlier(i)), Row(i, k))]

(* Later builds leave a verdict as it would be computed again.             *)
Judged == \A i \in Built : \A k \in RowIndexes(i) : batch[i].verdicts[k] = Judgement(i, k)

(* A manifest is that of its batch, and exists before the file is landed.  *)
ManifestKept ==
    \A i \in DOMAIN batch :
        /\ \/ batch[i].manifest = <<>>
           \/ batch[i].manifest = BuildManifest(batch[i].events, batch[i].floor)
        /\ batch[i].manifest = <<>> => batch[i].landed = 0
        /\ batch[i].landed = 0 => batch[i].build = 0

WarehouseInv == FeedInv /\ ManifestKept /\ Judged

(* A build that is done does not change.                                   *)
SameBuild(i) ==
    /\ i \in DOMAIN batch' /\ batch'[i].events = batch[i].events
    /\ batch'[i].landed = batch[i].landed /\ batch'[i].build = batch[i].build
    /\ batch'[i].built_on = batch[i].built_on /\ batch'[i].verdicts = batch[i].verdicts

LEMMA JudgementKept ==
    ASSUME FeedType, \A i \in Built : SameBuild(i),
           \A j \in DOMAIN batch' :
             /\ batch'[j].build \in Nat
             /\ batch'[j].build = 0 \/ j \in Built \/ batch'[j].build > builds,
           NEW i \in Built
    PROVE  RowIndexes(i)' = RowIndexes(i)
           /\ \A k \in RowIndexes(i) : Judgement(i, k)' = Judgement(i, k)
<1>1. /\ builds \in Nat
      /\ \A j \in Built : j \in DOMAIN batch /\ batch[j].build \in Nat /\ batch[j].build > 0
                          /\ batch[j].build <= builds
      /\ \A j \in DOMAIN batch : batch[j].build > 0 => j \in Built
  BY FeedFields DEF FeedType, BatchRow, Built
<1>2. \A j \in Built : /\ RowIndexes(j)' = RowIndexes(j)
                       /\ \A k : Row(j, k)' = Row(j, k)
  BY DEF SameBuild, RowIndexes, Row
<1>3. Together(i)' = Together(i) /\ Together(i) \subseteq Built
  <2>1. Together(i) \subseteq Built
    BY <1>1 DEF Together
  <2>2. ASSUME NEW j \in Together(i)' PROVE j \in Together(i)
    <3>1. j \in DOMAIN batch' /\ batch'[j].build = batch[i].build
      BY <2>2 DEF Together, SameBuild
    <3>2. j \in Built
      BY <1>1, <3>1
    <3>. QED
      BY <1>1, <3>1, <3>2 DEF Together, SameBuild
  <2>3. ASSUME NEW j \in Together(i) PROVE j \in Together(i)'
    BY <2>1, <2>3 DEF Together, SameBuild
  <2>. QED
    BY <2>1, <2>2, <2>3
<1>4. Earlier(i)' = Earlier(i) /\ Earlier(i) \subseteq Built
  <2>1. Earlier(i) \subseteq Built
    BY <1>1 DEF Earlier
  <2>2. ASSUME NEW j \in Earlier(i)' PROVE j \in Earlier(i)
    <3>1. j \in DOMAIN batch' /\ 0 < batch'[j].build /\ batch'[j].build < batch[i].build
      BY <2>2 DEF Earlier, SameBuild
    <3>2. j \in Built
      BY <1>1, <3>1
    <3>. QED
      BY <1>1, <3>1, <3>2 DEF Earlier, SameBuild
  <2>3. ASSUME NEW j \in Earlier(i) PROVE j \in Earlier(i)'
    BY <2>1, <2>3 DEF Earlier, SameBuild
  <2>. QED
    BY <2>1, <2>2, <2>3
<1>5. RowsOf(Together(i))' = RowsOf(Together(i))
  <2>. DEFINE rows(j) == {Row(j, k) : k \in RowIndexes(j)}
  <2>1. \A j \in Together(i) : rows(j)' = rows(j)
    BY <1>2, <1>3
  <2>2. RowsOf(Together(i))' = UNION {rows(j)' : j \in Together(i)}
    BY <1>3 DEF RowsOf
  <2>3. RowsOf(Together(i)) = UNION {rows(j) : j \in Together(i)}
    BY DEF RowsOf
  <2>. HIDE DEF rows
  <2>4. {rows(j)' : j \in Together(i)} = {rows(j) : j \in Together(i)}
    BY <2>1
  <2>. QED
    BY <2>2, <2>3, <2>4
<1>6. ValidOf(i)' = ValidOf(i)
  BY <1>5 DEF ValidOf, SameBuild
<1>7. AcceptedOf(Earlier(i))' = AcceptedOf(Earlier(i))
  <2>. DEFINE taken(j) == {n \in RowIndexes(j) : batch[j].verdicts[n].verdict = "ACCEPTED"}
              rows(j) == {Row(j, k) : k \in taken(j)}
  <2>1. \A j \in Earlier(i) : taken(j)' = taken(j)
    BY <1>2, <1>4 DEF SameBuild
  <2>2. AcceptedOf(Earlier(i))' = UNION {rows(j)' : j \in Earlier(i)}
    BY <1>4 DEF AcceptedOf
  <2>3. AcceptedOf(Earlier(i)) = UNION {rows(j) : j \in Earlier(i)}
    BY DEF AcceptedOf
  <2>. HIDE DEF taken
  <2>4. \A j \in Earlier(i) : rows(j)' = rows(j)
    BY <1>2, <1>4, <2>1
  <2>. HIDE DEF rows
  <2>5. {rows(j)' : j \in Earlier(i)} = {rows(j) : j \in Earlier(i)}
    BY <2>4
  <2>. QED
    BY <2>2, <2>3, <2>5
<1>. QED
  BY <1>2, <1>6, <1>7 DEF Judgement, SameBuild

(* A step that builds nothing.                                             *)
LEMMA JudgedKept ==
    ASSUME FeedType, Judged, \A i \in Built : SameBuild(i),
           \A j \in DOMAIN batch' :
             batch'[j].build \in Nat /\ (batch'[j].build = 0 \/ j \in Built)
    PROVE  Judged'
<1>1. \A j \in DOMAIN batch' : batch'[j].build > 0 => j \in Built
  OBVIOUS
<1>2. SUFFICES ASSUME NEW i \in Built', NEW k \in RowIndexes(i)'
               PROVE  batch'[i].verdicts[k] = Judgement(i, k)'
  BY DEF Judged
<1>3. i \in Built
  BY <1>1 DEF Built
<1>4. k \in RowIndexes(i) /\ Judgement(i, k)' = Judgement(i, k)
  BY <1>3, JudgementKept
<1>. QED
  BY <1>3, <1>4 DEF Judged, SameBuild

LEMMA RowsTyped ==
    ASSUME FeedType'
    PROVE  /\ \A i \in DOMAIN batch' : batch'[i] \in BatchRow
           /\ \A i \in DOMAIN batch' : batch'[i].build \in Nat
<1>1. batch' \in Seq(BatchRow)
  BY DEF FeedType
<1>2. \A i \in DOMAIN batch' : batch'[i] \in BatchRow
  <2>. HIDE DEF BatchRow
  <2>. QED
    BY <1>1
<1>. QED
  BY <1>2 DEF BatchRow

(* A row replaced by one that has the same build.                          *)
LEMMA RowKept ==
    ASSUME WarehouseInv, FeedInv', NEW b \in DOMAIN batch, NEW r \in BatchRow,
           batch' = [batch EXCEPT ![b] = r],
           r.build = batch[b].build,
           batch[b].build = 0 \/ (r.events = batch[b].events /\ r.landed = batch[b].landed),
           r.built_on = batch[b].built_on, r.verdicts = batch[b].verdicts,
           r.manifest = <<>> \/ r.manifest = BuildManifest(r.events, r.floor),
           r.manifest = <<>> => r.landed = 0,
           r.landed = 0 => r.build = 0
    PROVE  WarehouseInv'
<1>1. FeedType /\ FeedType' /\ ManifestKept /\ Judged
  BY DEF WarehouseInv, FeedInv
<1>2. /\ DOMAIN batch' = DOMAIN batch /\ batch'[b] = r
      /\ \A i \in DOMAIN batch : i # b => batch'[i] = batch[i]
  OBVIOUS
<1>3. ManifestKept'
  BY <1>1, <1>2 DEF ManifestKept
<1>4. Judged'
  <2>1. \A i \in Built : i \in DOMAIN batch /\ batch[i].build # 0
    BY DEF Built
  <2>2. \A i \in Built : SameBuild(i)
    BY <1>2, <2>1 DEF SameBuild
  <2>3. \A j \in DOMAIN batch' : batch'[j].build \in Nat /\ (batch'[j].build = 0 \/ j \in Built)
    <3>1. \A j \in DOMAIN batch' : batch'[j].build = batch[j].build /\ batch'[j].build \in Nat
      BY <1>1, <1>2, RowsTyped
    <3>. QED
      BY <1>2, <3>1 DEF Built
  <2>. QED
    BY <1>1, <2>2, <2>3, JudgedKept
<1>. QED
  BY <1>3, <1>4 DEF WarehouseInv

LEMMA NothingKept ==
    ASSUME WarehouseInv, FeedInv', batch' = batch
    PROVE  WarehouseInv'
<1>1. Judged' /\ ManifestKept'
  <2>1. FeedType /\ FeedType' /\ Judged /\ ManifestKept
    BY DEF WarehouseInv, FeedInv
  <2>2. \A i \in Built : SameBuild(i)
    BY DEF SameBuild, Built
  <2>3. \A j \in DOMAIN batch' : batch'[j].build \in Nat /\ (batch'[j].build = 0 \/ j \in Built)
    <3>1. \A j \in DOMAIN batch' : batch'[j].build \in Nat
      BY <2>1, RowsTyped
    <3>. QED
      BY <3>1 DEF Built
  <2>. QED
    BY <2>1, <2>2, <2>3, JudgedKept DEF ManifestKept
<1>. QED
  BY <1>1 DEF WarehouseInv

LEMMA AcquireKeeps ==
    ASSUME WarehouseInv, FeedInv', NEW s \in Sim, Acquire(s)
    PROVE  WarehouseInv'
<1>1. FeedType /\ FeedType' /\ ManifestKept /\ Judged
  BY DEF WarehouseInv, FeedInv
<1>2. PICK r : /\ batch' = Append(batch, r)
               /\ r.manifest = <<>> /\ r.landed = 0 /\ r.build = 0
  BY DEF Acquire, NewBatch
<1>3. batch \in Seq(BatchRow) /\ Len(batch) \in Nat /\ DOMAIN batch = 1..Len(batch)
  BY <1>1, FeedFields DEF FeedType
<1>4. /\ DOMAIN batch' = 1..(Len(batch) + 1) /\ batch'[Len(batch) + 1] = r
      /\ \A i \in DOMAIN batch : i \in DOMAIN batch' /\ batch'[i] = batch[i]
  <2>. HIDE DEF BatchRow
  <2>. QED
    BY <1>2, <1>3
<1>5. \A i \in DOMAIN batch' : i \in DOMAIN batch \/ batch'[i] = r
  BY <1>3, <1>4
<1>6. ManifestKept'
  BY <1>1, <1>2, <1>4, <1>5 DEF ManifestKept
<1>7. \A i \in Built : SameBuild(i)
  BY <1>4 DEF Built, SameBuild
<1>8. \A j \in DOMAIN batch' : batch'[j].build \in Nat /\ (batch'[j].build = 0 \/ j \in Built)
  <2>1. \A j \in DOMAIN batch' : batch'[j].build \in Nat
    BY <1>1, RowsTyped
  <2>. QED
    BY <1>2, <1>4, <1>5, <2>1 DEF Built
<1>9. Judged'
  BY <1>1, <1>7, <1>8, JudgedKept
<1>. QED
  BY <1>6, <1>9 DEF WarehouseInv

LEMMA FinishKeeps ==
    ASSUME WarehouseInv, FeedInv', NEW s \in Sim, FinishBatch(s)
    PROVE  WarehouseInv'
<1>. DEFINE b == Len(batch)
            r == [batch[b] EXCEPT !.events = sim[s].gen.events]
<1>1. FeedType /\ GeneratorInv /\ sim[s].pc = "generating"
      /\ batch' = [batch EXCEPT ![sim[s].b].events = sim[s].gen.events]
  BY DEF WarehouseInv, FeedInv, FinishBatch
<1>2. /\ b \in DOMAIN batch /\ sim[s].b = b /\ batch[b].manifest = <<>>
      /\ batch[b].landed = 0 /\ batch[b].build = 0
  BY <1>1 DEF GeneratorInv
<1>3. batch[b] \in BatchRow /\ sim[s].gen.events \in Seq(Emitted)
  BY <1>1, <1>2, FeedFields DEF Generator
<1>4. /\ r \in BatchRow /\ r.manifest = <<>> /\ r.landed = 0 /\ r.build = batch[b].build
      /\ r.built_on = batch[b].built_on /\ r.verdicts = batch[b].verdicts
  BY <1>2, <1>3 DEF BatchRow
<1>5. batch' = [batch EXCEPT ![b] = r]
  BY <1>1, <1>2
<1>. HIDE DEF b, r
<1>. QED
  BY <1>2, <1>4, <1>5, RowKept

LEMMA WriteKeeps ==
    ASSUME WarehouseInv, FeedInv', NEW s \in Sim, WriteFiles(s)
    PROVE  WarehouseInv'
<1>. DEFINE b == sim[s].b
            m == BuildManifest(batch[b].events, batch[b].floor)
            r == [batch[b] EXCEPT !.manifest = m]
<1>1. FeedType /\ ManifestKept /\ sim[s].pc = "writing" /\ batch' = [batch EXCEPT ![b] = r]
  BY DEF WarehouseInv, FeedInv, WriteFiles
<1>2. b \in DOMAIN batch /\ batch[b] \in BatchRow
  BY <1>1, FeedFields DEF FeedType, SimState
<1>3. m \in Seq(Expectation)
  BY <1>2, ManifestType DEF BatchRow
<1>. HIDE DEF m
<1>4. /\ r \in BatchRow /\ r.manifest = m /\ r.landed = batch[b].landed
      /\ r.build = batch[b].build /\ r.events = batch[b].events /\ r.floor = batch[b].floor
      /\ r.built_on = batch[b].built_on /\ r.verdicts = batch[b].verdicts
  BY <1>2, <1>3 DEF BatchRow
<1>5. m = <<>> => batch[b].landed = 0
  BY <1>1, <1>2 DEF ManifestKept, m
<1>6. batch[b].landed = 0 => batch[b].build = 0
  BY <1>1, <1>2 DEF ManifestKept
<1>. HIDE DEF r, b
<1>7. r.manifest = BuildManifest(r.events, r.floor)
  BY <1>4 DEF m
<1>. QED
  BY <1>1, <1>2, <1>4, <1>5, <1>6, <1>7, RowKept

LEMMA LandKeeps ==
    ASSUME WarehouseInv, FeedInv', NEW i \in DOMAIN batch, Land(i)
    PROVE  WarehouseInv'
<1>. DEFINE r == [batch[i] EXCEPT !.landed = loads + 1]
<1>1. FeedType /\ ManifestKept /\ batch[i].manifest # <<>> /\ batch[i].landed = 0
      /\ batch' = [batch EXCEPT ![i] = r]
  BY DEF WarehouseInv, FeedInv, Land
<1>2. batch[i] \in BatchRow /\ loads \in Nat
  BY <1>1, FeedFields DEF FeedType
<1>3. /\ r \in BatchRow /\ r.manifest = batch[i].manifest /\ r.landed = loads + 1
      /\ r.build = batch[i].build /\ r.events = batch[i].events /\ r.floor = batch[i].floor
      /\ r.built_on = batch[i].built_on /\ r.verdicts = batch[i].verdicts
  <2>1. loads + 1 \in Nat
    BY <1>2
  <2>. QED
    BY <1>2, <2>1 DEF BatchRow
<1>4. /\ batch[i].build = 0
      /\ batch[i].manifest = BuildManifest(batch[i].events, batch[i].floor)
  BY <1>1 DEF ManifestKept
<1>. HIDE DEF r
<1>. QED
  BY <1>1, <1>2, <1>3, <1>4, RowKept

LEMMA BuildKeeps ==
    ASSUME WarehouseInv, FeedInv', Build
    PROVE  WarehouseInv'
<1>. DEFINE valid == {r \in RowsOf(Pending) : IsFieldValid(r, today')}
            decide(i, k) == [verdict |-> VerdictOn(valid, AcceptedRows, Row(i, k)),
                             codes |-> FieldRulesFired(batch[i].events[k], today')
                                         \cup StateRulesFired(valid, AcceptedRows, Row(i, k))]
<1>1. FeedType /\ FeedType' /\ ManifestKept /\ Judged
  BY DEF WarehouseInv, FeedInv
<1>2. /\ DOMAIN batch' = DOMAIN batch
      /\ \A i \in DOMAIN batch :
           /\ batch'[i] \in BatchRow /\ batch'[i].floor = batch[i].floor
           /\ batch'[i].events = batch[i].events /\ batch'[i].manifest = batch[i].manifest
           /\ batch'[i].landed = batch[i].landed
           /\ i \in Pending => batch'[i].build = builds + 1
           /\ i \notin Pending => batch'[i] = batch[i]
  <2>1. DOMAIN batch' = DOMAIN batch
    BY DEF Build
  <2>. QED
    BY <1>1, <2>1, BuiltRow
<1>3. /\ builds \in Nat
      /\ \A j \in DOMAIN batch : batch[j].build \in Nat /\ batch[j].build <= builds
                                 /\ batch[j].landed \in Nat
  BY <1>1, FeedFields DEF FeedType, BatchRow
<1>4. ASSUME NEW i \in Pending
      PROVE  /\ i \in DOMAIN batch /\ batch'[i].built_on = today'
             /\ \A k \in RowIndexes(i) : batch'[i].verdicts[k] = decide(i, k)
  <2>1. i \in DOMAIN batch
    BY DEF Pending
  <2>2. batch'[i] = [batch[i] EXCEPT
                        !.build = builds + 1, !.built_on = today',
                        !.verdicts = [k \in DOMAIN batch[i].events |->
                           IF k \in RowIndexes(i) THEN decide(i, k)
                           ELSE [verdict |-> "none", codes |-> {}]]]
    BY <2>1 DEF Build
  <2>. HIDE DEF decide
  <2>3. batch[i] \in BatchRow
    BY <1>1, <2>1, FeedFields
  <2>4. /\ batch'[i].built_on = today'
        /\ batch'[i].verdicts = [k \in DOMAIN batch[i].events |->
                                   IF k \in RowIndexes(i) THEN decide(i, k)
                                   ELSE [verdict |-> "none", codes |-> {}]]
    BY <2>2, <2>3 DEF BatchRow
  <2>5. RowIndexes(i) \subseteq DOMAIN batch[i].events
    BY DEF RowIndexes
  <2>. QED
    BY <2>1, <2>4, <2>5
<1>5. ManifestKept'
  <2>1. \A i \in Pending : batch[i].landed # 0
    BY DEF Pending
  <2>. QED
    BY <1>1, <1>2, <2>1 DEF ManifestKept
<1>6. \A i \in Built : i \notin Pending /\ i \in DOMAIN batch /\ SameBuild(i)
  BY <1>2 DEF Built, Pending, SameBuild
<1>7. \A j \in DOMAIN batch' :
        /\ batch'[j].build \in Nat
        /\ batch'[j].build = 0 \/ j \in Built \/ batch'[j].build > builds
  <2>1. \A j \in DOMAIN batch' : batch'[j].build \in Nat
    BY <1>1, RowsTyped
  <2>. QED
    BY <1>2, <1>3, <2>1 DEF Built
<1>8. \A j \in DOMAIN batch : RowIndexes(j)' = RowIndexes(j) /\ \A k : Row(j, k)' = Row(j, k)
  BY <1>2 DEF RowIndexes, Row
<1>9. ASSUME NEW i \in Pending, NEW k \in RowIndexes(i)
      PROVE  batch'[i].verdicts[k] = Judgement(i, k)'
  <2>1. Together(i)' = Pending
    <3>1. i \in DOMAIN batch /\ batch'[i].build = builds + 1
      BY <1>2, <1>4
    <3>2. \A j \in DOMAIN batch : batch'[j].build = builds + 1 => j \in Pending
      BY <1>2, <1>3
    <3>3. Pending \subseteq DOMAIN batch /\ \A j \in Pending : batch'[j].build = builds + 1
      BY <1>2 DEF Pending
    <3>. QED
      BY <1>2, <3>1, <3>2, <3>3 DEF Together
  <2>2. Earlier(i)' = Built
    <3>1. i \in DOMAIN batch /\ batch'[i].build = builds + 1
      BY <1>2, <1>4
    <3>2. \A j \in DOMAIN batch :
            0 < batch'[j].build /\ batch'[j].build < builds + 1 => j \in Built
      BY <1>2, <1>3 DEF Built
    <3>3. \A j \in Built : j \in DOMAIN batch' /\ 0 < batch'[j].build /\ batch'[j].build < builds + 1
      BY <1>2, <1>3, <1>6 DEF Built
    <3>. QED
      BY <1>2, <3>1, <3>2, <3>3 DEF Earlier
  <2>3. ValidOf(i)' = valid
    <3>. DEFINE rows(j) == {Row(j, n) : n \in RowIndexes(j)}
    <3>1. \A j \in Pending : rows(j)' = rows(j)
      BY <1>4, <1>8
    <3>2. RowsOf(Together(i))' = UNION {rows(j)' : j \in Pending}
      BY <2>1 DEF RowsOf
    <3>3. RowsOf(Pending) = UNION {rows(j) : j \in Pending}
      BY DEF RowsOf
    <3>. HIDE DEF rows
    <3>4. {rows(j)' : j \in Pending} = {rows(j) : j \in Pending}
      BY <3>1
    <3>. QED
      BY <1>4, <3>2, <3>3, <3>4 DEF ValidOf
  <2>4. AcceptedOf(Earlier(i))' = AcceptedRows
    <3>. DEFINE taken(j) == {n \in RowIndexes(j) : batch[j].verdicts[n].verdict = "ACCEPTED"}
                rows(j) == {Row(j, n) : n \in taken(j)}
    <3>1. \A j \in Built : taken(j)' = taken(j)
      BY <1>6, <1>8 DEF SameBuild
    <3>2. AcceptedOf(Earlier(i))' = UNION {rows(j)' : j \in Built}
      BY <2>2 DEF AcceptedOf
    <3>3. AcceptedRows = UNION {rows(j) : j \in Built}
      BY DEF AcceptedRows
    <3>. HIDE DEF taken
    <3>4. \A j \in Built : rows(j)' = rows(j)
      BY <1>6, <1>8, <3>1
    <3>. HIDE DEF rows
    <3>5. {rows(j)' : j \in Built} = {rows(j) : j \in Built}
      BY <3>4
    <3>. QED
      BY <3>2, <3>3, <3>5
  <2>5. /\ Row(i, k)' = Row(i, k) /\ batch'[i].events = batch[i].events
        /\ batch'[i].built_on = today' /\ batch'[i].verdicts[k] = decide(i, k)
    BY <1>2, <1>4, <1>8
  <2>. HIDE DEF valid
  <2>. QED
    BY <2>3, <2>4, <2>5 DEF Judgement
<1>10. Judged'
  <2>1. SUFFICES ASSUME NEW i \in Built', NEW k \in RowIndexes(i)'
                 PROVE  batch'[i].verdicts[k] = Judgement(i, k)'
    BY DEF Judged
  <2>2. i \in DOMAIN batch /\ k \in RowIndexes(i) /\ batch'[i].build > 0
    BY <1>2, <1>8 DEF Built
  <2>3. CASE i \in Pending
    BY <1>9, <2>2, <2>3
  <2>4. CASE i \notin Pending
    <3>1. i \in Built
      BY <1>2, <2>2, <2>4 DEF Built
    <3>2. Judgement(i, k)' = Judgement(i, k)
      BY <1>1, <1>6, <1>7, <2>2, <3>1, JudgementKept
    <3>. QED
      BY <1>1, <1>6, <2>2, <3>1, <3>2 DEF Judged, SameBuild
  <2>. QED
    BY <2>3, <2>4
<1>. QED
  BY <1>5, <1>10 DEF WarehouseInv

LEMMA WarehouseStep == WarehouseInv /\ [Next]_vars => WarehouseInv'
<1>. SUFFICES ASSUME WarehouseInv, [Next]_vars PROVE WarehouseInv'
  OBVIOUS
<1>1. FeedInv'
  BY FeedStep DEF WarehouseInv
<1>2. ASSUME NEW s \in Sim, Acquire(s) PROVE WarehouseInv'
  BY <1>1, <1>2, AcquireKeeps
<1>3. ASSUME NEW s \in Sim, Generate(s) \/ FinishLoad(s) \/ Fail(s) PROVE WarehouseInv'
  <2>1. batch' = batch
    BY <1>3 DEF Generate, FinishLoad, Fail
  <2>. QED
    BY <1>1, <2>1, NothingKept
<1>4. ASSUME NEW s \in Sim, FinishBatch(s) PROVE WarehouseInv'
  BY <1>1, <1>4, FinishKeeps
<1>5. ASSUME NEW s \in Sim, WriteFiles(s) PROVE WarehouseInv'
  BY <1>1, <1>5, WriteKeeps
<1>6. CASE ResetBook \/ UNCHANGED vars
  <2>1. batch' = batch
    BY <1>6 DEF ResetBook, vars
  <2>. QED
    BY <1>1, <2>1, NothingKept
<1>7. CASE Build
  BY <1>1, <1>7, BuildKeeps
<1>8. ASSUME NEW i \in DOMAIN batch, Land(i) PROVE WarehouseInv'
  BY <1>1, <1>8, LandKeeps
<1>. QED
  BY <1>2, <1>3, <1>4, <1>5, <1>6, <1>7, <1>8 DEF Next

LEMMA WarehouseInit == Init => WarehouseInv
<1>. SUFFICES ASSUME Init PROVE WarehouseInv
  OBVIOUS
<1>1. FeedInv /\ DOMAIN batch = {}
  BY FeedInit DEF Init
<1>. QED
  BY <1>1 DEF WarehouseInv, ManifestKept, Judged, Built

(* Every verdict is the one that the rules give, on what its build saw.    *)
THEOREM WarehouseInvariant == Spec => []WarehouseInv
BY WarehouseInit, WarehouseStep, PTL DEF Spec

-----------------------------------------------------------------------------
(* BATCHES IN STEP                                                         *)

Calm(i) == WarehouseInv /\ i \in DOMAIN batch /\ InStep(i) /\ NothingMatured(i)

(* Each batch was judged alone, after all batches before it.               *)
LEMMA JudgedAlone ==
    ASSUME NEW i, Calm(i), NEW j \in 1..i
    PROVE  /\ i \in Nat /\ j \in Nat /\ j \in DOMAIN batch /\ j \in Built /\ batch[j].universe = 0
           /\ Together(j) = {j} /\ Earlier(j) = 1..(j - 1)
<1>1. /\ FeedType /\ InStep(i) /\ i \in DOMAIN batch
  BY DEF Calm, WarehouseInv, FeedInv
<1>2. /\ Len(batch) \in Nat /\ DOMAIN batch = 1..Len(batch)
      /\ \A k \in DOMAIN batch : batch[k].build \in Nat
  BY <1>1, FeedFields DEF BatchRow
<1>3. /\ \A k \in 1..i : batch[k].universe = 0 /\ batch[k].build > 0
      /\ \A k, n \in 1..i : k < n => batch[k].build < batch[n].build
      /\ \A k \in DOMAIN batch : k > i /\ batch[k].build > 0 => batch[k].build > batch[i].build
  BY <1>1 DEF InStep
<1>4. i \in Nat /\ j \in Nat /\ j <= i /\ i \in 1..i /\ 1..i \subseteq DOMAIN batch
  BY <1>1, <1>2
<1>5. batch[j].build <= batch[i].build
  <2>1. j < i \/ j = i
    BY <1>4
  <2>. QED
    BY <1>2, <1>3, <1>4, <2>1
<1>6. \A k \in DOMAIN batch : k > j /\ batch[k].build > 0 => batch[k].build > batch[j].build
  <2>1. SUFFICES ASSUME NEW k \in DOMAIN batch, k > j, batch[k].build > 0
                 PROVE  batch[k].build > batch[j].build
    OBVIOUS
  <2>2. CASE k > i
    BY <1>2, <1>3, <1>4, <1>5, <2>1, <2>2
  <2>3. CASE k \in 1..i
    BY <1>3, <2>1, <2>3
  <2>. QED
    BY <1>2, <1>4, <2>2, <2>3
<1>7. \A k \in 1..(j - 1) : k \in 1..i /\ k < j /\ batch[k].build > 0 /\ batch[k].build < batch[j].build
  BY <1>3, <1>4
<1>8. ASSUME NEW k \in DOMAIN batch
      PROVE  k \in 1..(j - 1) \/ k = j \/ k > j
  BY <1>2, <1>4
<1>9. j \in DOMAIN batch /\ batch[j].build > 0 /\ batch[j].universe = 0
  BY <1>3, <1>4
<1>10. Together(j) = {j}
  <2>1. SUFFICES ASSUME NEW k \in DOMAIN batch, batch[k].build = batch[j].build PROVE k = j
    BY <1>9 DEF Together
  <2>. QED
    BY <1>2, <1>6, <1>7, <1>8, <1>9, <2>1
<1>11. Earlier(j) = 1..(j - 1)
  <2>1. ASSUME NEW k \in Earlier(j) PROVE k \in 1..(j - 1)
    <3>1. k \in DOMAIN batch /\ 0 < batch[k].build /\ batch[k].build < batch[j].build
      BY DEF Earlier
    <3>. QED
      BY <1>2, <1>6, <1>8, <1>9, <3>1
  <2>2. ASSUME NEW k \in 1..(j - 1) PROVE k \in Earlier(j)
    BY <1>4, <1>7 DEF Earlier
  <2>. QED
    BY <2>1, <2>2
<1>. QED
  BY <1>4, <1>9, <1>10, <1>11 DEF Built

LEMMA RowFields ==
    ASSUME FeedType, NEW j \in DOMAIN batch, NEW k \in DOMAIN batch[j].events,
           NEW e, e = batch[j].events[k]
    PROVE  /\ e \in Emitted /\ e.draft \in Draft /\ k \in Nat
           /\ Row(j, k).event_sk = MaxEvents * batch[j].landed + k
           /\ MaxEvents * batch[j].landed \in Nat
           /\ Row(j, k).batch_seq = batch[j].landed /\ batch[j].landed \in Nat
           /\ Row(j, k).sent.trade_id = e.draft.trade_id
           /\ Row(j, k).sent.trade_version = e.draft.trade_version
           /\ Row(j, k).sent.action = e.draft.action
           /\ Row(j, k).sent.effective_event_ts = e.draft.effective_event_ts
           /\ Row(j, k).sent.well_formed <=> CodesOf[e.damage] \subseteq WarnRules
           /\ Row(j, k).sent.maturity_date = e.draft.maturity_date
<1>1. batch[j].events \in Seq(Emitted) /\ batch[j].landed \in Nat
  BY FeedFields DEF BatchRow
<1>2. k \in Nat /\ e \in Emitted
  <2>. HIDE DEF Emitted
  <2>. QED
    BY <1>1
<1>3. e.draft \in Draft
  BY <1>2, EventType
<1>4. MaxEvents * batch[j].landed \in Nat
  BY <1>1, SimAssumption
<1>. QED
  BY <1>1, <1>2, <1>3, <1>4 DEF Row

(* What the simulator knows of a payload is what the field rules find.     *)
LEMMA FieldsForetold ==
    ASSUME NEW e \in Emitted, Identified(e)
    PROVE  /\ CodesOf[e.damage] \subseteq WarnRules <=> e.field_valid
           /\ "RJ001" \notin e.expected_rule_codes => e.expected_rule_codes \subseteq CodesOf[e.damage]
           /\ "RJ001" \in e.expected_rule_codes => e.expected_rule_codes = {"RJ001"}
           /\ e.expected_verdict = IF e.field_valid /\ "RJ001" \notin e.expected_rule_codes
                                   THEN "ACCEPTED" ELSE "REJECTED"
<1>1. PICK d \in Draft, c \in Drawn, known \in Nat : e = GeneratedEvent(d, c, known)
  BY DEF Emitted
<1>. DEFINE late == d.trade_version < known
            codes == FieldCodes(Damaged(Payload, c.damage))
<1>2. /\ e.damage = c.damage /\ e.injected_fault = c.injected_fault
      /\ e.expected_rule_codes = IF late THEN {"RJ001"} ELSE c.expected_rule_codes
      /\ e.field_valid <=> Harmless(c.injected_fault)
      /\ e.expected_verdict = IF Harmless(c.injected_fault) /\ ~late THEN "ACCEPTED" ELSE "REJECTED"
  BY <1>1 DEF GeneratedEvent, Identified, Harmless
<1>3. "RJ001" \notin c.expected_rule_codes
  BY ExpectedCodes
<1>4. CodesOf[e.damage] = codes
  BY <1>2, FieldCodesKnown DEF CodesOf
<1>5. /\ codes \subseteq WarnRules <=> Harmless(c.injected_fault)
      /\ c.expected_rule_codes \subseteq codes
  <2>1. Payload \in CleanPayloads /\ Faults \subseteq Fault
    BY GeneratorAssumption
  <2>2. CASE c = NoFault
    <3>1. c.damage = NoDamage /\ c.injected_fault = "none" /\ c.expected_rule_codes = {}
      BY <2>2 DEF NoFault
    <3>2. Damaged(Payload, NoDamage) = Payload
      <4>1. Payload = [f \in DOMAIN Payload |-> Payload[f]]
        BY <2>1 DEF CleanPayloads
      <4>. QED
        BY <4>1 DEF Damaged, NoDamage
    <3>3. codes \subseteq {"RJ018"}
      BY <2>1, <3>1, <3>2, CleanPasses
    <3>. QED
      BY <3>1, <3>3 DEF Harmless, WarnRules
  <2>3. ASSUME NEW f \in Faults, c \in Corruptions(f)
        PROVE  /\ codes \subseteq WarnRules <=> Harmless(c.injected_fault)
               /\ c.expected_rule_codes \subseteq codes
    <3>1. c.injected_fault = f /\ f \in Fault
      BY <2>1, <2>3 DEF Corruptions
    <3>2. f \notin IDENTITY_DESTROYING_FAULTS /\ f # "none"
      BY <1>2, <3>1 DEF Identified, Fault, FAULT_EXPECTATIONS
    <3>3. /\ c.expected_rule_codes \subseteq codes
          /\ IF f \in WARN_ONLY_FAULTS THEN codes \subseteq {"RJ018"}
             ELSE \E r \in codes : r \notin WarnRules
      BY <2>1, <2>3, <3>1, <3>2, FaultCaught
    <3>. HIDE DEF codes
    <3>. QED
      BY <3>1, <3>2, <3>3 DEF Harmless, WarnRules
  <2>. QED
    BY <2>2, <2>3 DEF Drawn
<1>. QED
  BY <1>2, <1>3, <1>4, <1>5

LEMMA ValidRows ==
    ASSUME NEW i, Calm(i), NEW j \in 1..i
    PROVE  /\ \A k \in RowIndexes(j) : Row(j, k) \in ValidOf(j) <=> Contends(batch[j].events, k)
           /\ \A r \in ValidOf(j) :
                \E k \in RowIndexes(j) : r = Row(j, k) /\ Contends(batch[j].events, k)
           /\ \A k \in DOMAIN batch[j].events : Contends(batch[j].events, k) => k \in RowIndexes(j)
<1>1. /\ FeedType /\ NothingMatured(i)
      /\ j \in DOMAIN batch /\ Together(j) = {j}
  BY JudgedAlone DEF Calm, WarehouseInv, FeedInv
<1>2. ASSUME NEW k \in RowIndexes(j)
      PROVE  IsFieldValid(Row(j, k), batch[j].built_on) <=> Contends(batch[j].events, k)
  <2>. DEFINE e == batch[j].events[k]
  <2>1. k \in DOMAIN batch[j].events /\ Identified(e)
    BY DEF RowIndexes
  <2>2. /\ e \in Emitted
        /\ Row(j, k).sent.well_formed <=> CodesOf[e.damage] \subseteq WarnRules
        /\ Row(j, k).sent.maturity_date = e.draft.maturity_date
    BY <1>1, <2>1, RowFields
  <2>3. ~Matured(e.draft.maturity_date, batch[j].built_on)
    BY <1>1, <2>1 DEF NothingMatured
  <2>4. CodesOf[e.damage] \subseteq WarnRules <=> e.field_valid
    BY <2>1, <2>2, FieldsForetold
  <2>. HIDE DEF e
  <2>5. Contends(batch[j].events, k) <=> e.field_valid
    BY <2>1 DEF Contends, e
  <2>. QED
    BY <2>2, <2>3, <2>4, <2>5 DEF IsFieldValid
<1>3. RowsOf(Together(j)) = {Row(j, k) : k \in RowIndexes(j)}
  BY <1>1 DEF RowsOf
<1>4. \A k \in DOMAIN batch[j].events : Contends(batch[j].events, k) => k \in RowIndexes(j)
  BY DEF Contends, RowIndexes
<1>. QED
  BY <1>2, <1>3, <1>4 DEF ValidOf

(* Rows of a batch rank as their events do.                                *)
LEMMA RanksInBatch ==
    ASSUME FeedType, NEW j \in DOMAIN batch,
           NEW k \in DOMAIN batch[j].events, NEW n \in DOMAIN batch[j].events
    PROVE  LET ts(m) == batch[j].events[m].draft.effective_event_ts IN
           /\ SameTrade(Row(j, n), Row(j, k)) <=>
                batch[j].events[n].draft.trade_id = batch[j].events[k].draft.trade_id
           /\ SameVersion(Row(j, n), Row(j, k)) <=>
                /\ batch[j].events[n].draft.trade_id = batch[j].events[k].draft.trade_id
                /\ batch[j].events[n].draft.trade_version = batch[j].events[k].draft.trade_version
           /\ Outranks(Row(j, n), Row(j, k)) <=> ts(n) > ts(k) \/ (ts(n) = ts(k) /\ n > k)
           /\ Precedes(Row(j, n), Row(j, k)) <=> ts(n) < ts(k) \/ (ts(n) = ts(k) /\ n < k)
<1>. DEFINE c == MaxEvents * batch[j].landed
            a == Row(j, n)
            b == Row(j, k)
<1>1. /\ c \in Nat /\ n \in Nat /\ k \in Nat /\ a.event_sk = c + n /\ b.event_sk = c + k
      /\ a.batch_seq = batch[j].landed /\ b.batch_seq = batch[j].landed /\ batch[j].landed \in Nat
      /\ a.sent.trade_id = batch[j].events[n].draft.trade_id
      /\ b.sent.trade_id = batch[j].events[k].draft.trade_id
      /\ a.sent.trade_version = batch[j].events[n].draft.trade_version
      /\ b.sent.trade_version = batch[j].events[k].draft.trade_version
      /\ a.sent.effective_event_ts = batch[j].events[n].draft.effective_event_ts
      /\ b.sent.effective_event_ts = batch[j].events[k].draft.effective_event_ts
      /\ batch[j].events[n].draft \in Draft /\ batch[j].events[k].draft \in Draft
  BY RowFields
<1>2. /\ batch[j].events[n].draft.effective_event_ts \in Nat
      /\ batch[j].events[k].draft.effective_event_ts \in Nat
  BY <1>1 DEF Draft
<1>. HIDE DEF a, b, c
<1>3. (a.event_sk > b.event_sk <=> n > k) /\ (a.event_sk < b.event_sk <=> n < k)
  BY <1>1
<1>4. /\ SameTrade(a, b) <=>
           batch[j].events[n].draft.trade_id = batch[j].events[k].draft.trade_id
      /\ SameVersion(a, b) <=>
           /\ batch[j].events[n].draft.trade_id = batch[j].events[k].draft.trade_id
           /\ batch[j].events[n].draft.trade_version = batch[j].events[k].draft.trade_version
  BY <1>1 DEF SameTrade, SameVersion
<1>5. Outranks(a, b) <=>
        \/ batch[j].events[n].draft.effective_event_ts > batch[j].events[k].draft.effective_event_ts
        \/ /\ batch[j].events[n].draft.effective_event_ts = batch[j].events[k].draft.effective_event_ts
           /\ n > k
  BY <1>1, <1>2, <1>3 DEF Outranks
<1>6. Precedes(a, b) <=>
        \/ batch[j].events[n].draft.effective_event_ts < batch[j].events[k].draft.effective_event_ts
        \/ /\ batch[j].events[n].draft.effective_event_ts = batch[j].events[k].draft.effective_event_ts
           /\ n < k
  BY <1>1, <1>2, <1>3 DEF Precedes
<1>. QED
  BY <1>4, <1>5, <1>6 DEF a, b

(* _settle_version_arbitration finds the losers that the build finds.      *)
LEMMA LosersForetold ==
    ASSUME NEW i, Calm(i), NEW j \in 1..i, NEW k \in RowIndexes(j)
    PROVE  Loses(ValidOf(j), Row(j, k)) <=> RaceLost(batch[j].events, k)
<1>. DEFINE ev == batch[j].events
<1>1. FeedType /\ j \in DOMAIN batch /\ k \in DOMAIN ev
  BY JudgedAlone DEF Calm, WarehouseInv, FeedInv, RowIndexes
<1>2. ASSUME Loses(ValidOf(j), Row(j, k)) PROVE RaceLost(ev, k)
  <2>1. PICK f \in ValidOf(j) : SameVersion(f, Row(j, k)) /\ Outranks(f, Row(j, k))
    BY <1>2 DEF Loses
  <2>2. PICK n \in RowIndexes(j) : f = Row(j, n) /\ Contends(ev, n)
    BY ValidRows
  <2>3. n \in DOMAIN ev
    BY DEF RowIndexes
  <2>4. Contends(ev, k)
    BY <1>2, ValidRows DEF Loses
  <2>5. SameVersion(Row(j, n), Row(j, k)) /\ Outranks(Row(j, n), Row(j, k))
    BY <2>1, <2>2
  <2>. QED
    BY <1>1, <2>2, <2>3, <2>4, <2>5, RanksInBatch DEF RaceLost
<1>3. ASSUME RaceLost(ev, k) PROVE Loses(ValidOf(j), Row(j, k))
  <2>1. Contends(ev, k)
    BY <1>3 DEF RaceLost
  <2>2. PICK n \in DOMAIN ev :
          /\ Contends(ev, n) /\ ev[n].draft.trade_id = ev[k].draft.trade_id
          /\ ev[n].draft.trade_version = ev[k].draft.trade_version
          /\ \/ ev[n].draft.effective_event_ts > ev[k].draft.effective_event_ts
             \/ ev[n].draft.effective_event_ts = ev[k].draft.effective_event_ts /\ n > k
    BY <1>3 DEF RaceLost
  <2>3. Row(j, n) \in ValidOf(j) /\ Row(j, k) \in ValidOf(j)
    BY <2>1, <2>2, ValidRows
  <2>4. SameVersion(Row(j, n), Row(j, k)) /\ Outranks(Row(j, n), Row(j, k))
    BY <1>1, <2>2, RanksInBatch
  <2>. QED
    BY <2>3, <2>4 DEF Loses
<1>. QED
  BY <1>2, <1>3

(* Of two events of a trade in step, the later follows the earlier.        *)
LEMMA InOrder ==
    ASSUME NEW i, Calm(i), NEW m \in 1..i, NEW j \in 1..i,
           NEW n \in DOMAIN batch[m].events, NEW k \in DOMAIN batch[j].events,
           batch[m].events[n].draft.trade_id = batch[j].events[k].draft.trade_id,
           m < j \/ (m = j /\ n < k)
    PROVE  Follows(batch[j].events[k], batch[m].events[n])
<1>1. FeedInv /\ Ordered(LogNow)
  BY DEF Calm, WarehouseInv, FeedInv, History
<1>2. /\ m \in DOMAIN batch /\ j \in DOMAIN batch
      /\ batch[m].universe = 0 /\ batch[j].universe = 0
  BY JudgedAlone
<1>3. /\ j \in DOMAIN LogNow /\ LogNow[j].universe = 0
      /\ k \in DOMAIN LogNow[j].events /\ LogNow[j].events = batch[j].events
  BY <1>1, <1>2, EventsGenerated
<1>4. /\ m \in DOMAIN LogNow /\ LogNow[m].universe = 0
      /\ n \in DOMAIN LogNow[m].events /\ LogNow[m].events = batch[m].events
  BY <1>1, <1>2, EventsGenerated
<1>. QED
  BY <1>1, <1>3, <1>4 DEF Ordered

Prior(j) == AcceptedOf(Earlier(j))

(* What was accepted before batch j is an event that the simulator held    *)
(* to be valid, in an earlier batch.                                       *)
LEMMA AcceptedBefore ==
    ASSUME NEW i, Calm(i), NEW j \in 1..i, NEW r \in Prior(j)
    PROVE  \E m \in 1..(j - 1) : \E n \in RowIndexes(m) :
             /\ r = Row(m, n) /\ batch[m].events[n].field_valid
             /\ batch[m].verdicts[n].verdict = "ACCEPTED"
<1>1. PICK m \in Earlier(j) : \E n \in RowIndexes(m) :
        r = Row(m, n) /\ batch[m].verdicts[n].verdict = "ACCEPTED"
  BY DEF Prior, AcceptedOf
<1>2. PICK n \in RowIndexes(m) : r = Row(m, n) /\ batch[m].verdicts[n].verdict = "ACCEPTED"
  BY <1>1
<1>3. m \in 1..(j - 1) /\ m \in 1..i
  BY JudgedAlone
<1>4. m \in Built
  BY <1>3, JudgedAlone
<1>5. VerdictOn(ValidOf(m), Prior(m), Row(m, n)) = "ACCEPTED"
  <2>1. batch[m].verdicts[n] = Judgement(m, n)
    BY <1>4 DEF Calm, WarehouseInv, Judged
  <2>. QED
    BY <1>2, <2>1 DEF Judgement, Prior
<1>6. Contends(batch[m].events, n)
  <2>1. Row(m, n) \in ValidOf(m)
    BY <1>5 DEF VerdictOn
  <2>. QED
    BY <1>3, <2>1, ValidRows
<1>. QED
  BY <1>2, <1>3, <1>6 DEF Contends

(* No event of a batch in step comes after a cancellation.                 *)
LEMMA NothingAfterCancel ==
    ASSUME NEW i, Calm(i), NEW j \in 1..i, NEW k \in RowIndexes(j)
    PROVE  ~RJ010(Prior(j), Row(j, k))
<1>1. SUFFICES ASSUME NEW f \in Prior(j), SameTrade(f, Row(j, k)), f.sent.action = "CANCEL"
               PROVE  FALSE
  BY DEF RJ010
<1>2. PICK m \in 1..(j - 1) : \E n \in RowIndexes(m) :
        f = Row(m, n) /\ batch[m].events[n].field_valid
  BY AcceptedBefore
<1>3. PICK n \in RowIndexes(m) : f = Row(m, n) /\ batch[m].events[n].field_valid
  BY <1>2
<1>4. /\ FeedType /\ i \in Nat /\ j \in Nat /\ m \in 1..i /\ m < j
      /\ j \in DOMAIN batch /\ m \in DOMAIN batch
      /\ n \in DOMAIN batch[m].events /\ k \in DOMAIN batch[j].events
  BY JudgedAlone DEF Calm, WarehouseInv, FeedInv, RowIndexes
<1>5. /\ batch[m].events[n].draft.action = "CANCEL"
      /\ batch[m].events[n].draft.trade_id = batch[j].events[k].draft.trade_id
  BY <1>1, <1>3, <1>4, RowFields DEF SameTrade
<1>6. Follows(batch[j].events[k], batch[m].events[n])
  BY <1>4, <1>5, InOrder
<1>. QED
  BY <1>3, <1>5, <1>6 DEF Follows

(* A valid event that loses no race and is overtaken by nothing that was   *)
(* valid in its batch or before is accepted.                               *)
LEMMA AcceptedIf ==
    ASSUME NEW i, Calm(i), NEW m \in 1..i, NEW n \in DOMAIN batch[m].events,
           batch[m].events[n].field_valid, ~RaceLost(batch[m].events, n),
           \A j \in 1..m : \A k \in DOMAIN batch[j].events :
             /\ batch[j].events[k].field_valid
             /\ batch[j].events[k].draft.trade_id = batch[m].events[n].draft.trade_id
             => batch[j].events[k].draft.trade_version <= batch[m].events[n].draft.trade_version
    PROVE  n \in RowIndexes(m) /\ batch[m].verdicts[n].verdict = "ACCEPTED"
<1>. DEFINE e == batch[m].events[n]
<1>1. /\ FeedType /\ i \in Nat /\ m \in Nat /\ m \in DOMAIN batch /\ m \in Built
      /\ e \in Emitted /\ e.draft \in Draft
      /\ Row(m, n).sent.trade_id = e.draft.trade_id
      /\ Row(m, n).sent.trade_version = e.draft.trade_version
  <2>1. FeedType /\ i \in Nat /\ m \in Nat /\ m \in DOMAIN batch /\ m \in Built
    BY JudgedAlone DEF Calm, WarehouseInv, FeedInv
  <2>. QED
    BY <2>1, RowFields
<1>2. Contends(batch[m].events, n) /\ n \in RowIndexes(m)
  BY <1>1, EventType DEF Contends, RowIndexes
<1>3. Row(m, n) \in ValidOf(m) /\ ~Loses(ValidOf(m), Row(m, n))
  BY <1>2, ValidRows, LosersForetold
<1>4. ~RJ010(Prior(m), Row(m, n))
  BY <1>2, NothingAfterCancel
<1>5. ~RJ001(ValidOf(m), Prior(m), Row(m, n))
  <2>1. e.draft.trade_version \in Nat
    BY <1>1 DEF Draft
  <2>2. ASSUME NEW f \in Prior(m), SameTrade(f, Row(m, n))
        PROVE  f.sent.trade_version <= e.draft.trade_version
    <3>1. PICK j \in 1..(m - 1) : \E k \in RowIndexes(j) :
            f = Row(j, k) /\ batch[j].events[k].field_valid
      BY AcceptedBefore
    <3>2. PICK k \in RowIndexes(j) : f = Row(j, k) /\ batch[j].events[k].field_valid
      BY <3>1
    <3>3. j \in 1..m /\ j \in 1..i /\ k \in DOMAIN batch[j].events
      BY <1>1 DEF RowIndexes
    <3>4. j \in DOMAIN batch
      BY <3>3, JudgedAlone
    <3>. QED
      BY <1>1, <2>2, <3>2, <3>3, <3>4, RowFields DEF SameTrade
  <2>3. ASSUME NEW f \in ValidOf(m), SameTrade(f, Row(m, n))
        PROVE  f.sent.trade_version <= e.draft.trade_version
    <3>1. PICK k \in RowIndexes(m) : f = Row(m, k) /\ Contends(batch[m].events, k)
      BY ValidRows
    <3>2. k \in DOMAIN batch[m].events /\ batch[m].events[k].field_valid /\ m \in 1..m
      BY <1>1, <3>1 DEF RowIndexes, Contends
    <3>. QED
      BY <1>1, <2>3, <3>1, <3>2, RowFields DEF SameTrade
  <2>4. \A f \in MarksBefore(ValidOf(m), Prior(m), Row(m, n)) :
          f.sent.trade_version <= e.draft.trade_version
    BY <2>2, <2>3 DEF MarksBefore
  <2>5. \A f \in MarksBefore(ValidOf(m), Prior(m), Row(m, n)) : f.sent.trade_version \in Nat
    <3>1. ASSUME NEW j \in 1..m, NEW k \in RowIndexes(j) PROVE Row(j, k).sent.trade_version \in Nat
      <4>1. j \in 1..i /\ k \in DOMAIN batch[j].events
        BY <1>1 DEF RowIndexes
      <4>2. j \in DOMAIN batch
        BY <4>1, JudgedAlone
      <4>3. batch[j].events[k].draft \in Draft
            /\ Row(j, k).sent.trade_version = batch[j].events[k].draft.trade_version
        BY <1>1, <4>1, <4>2, RowFields
      <4>. QED
        BY <4>3 DEF Draft
    <3>2. \A f \in Prior(m) : \E j \in 1..(m - 1) : \E k \in RowIndexes(j) : f = Row(j, k)
      BY AcceptedBefore
    <3>3. \A f \in ValidOf(m) : \E k \in RowIndexes(m) : f = Row(m, k)
      BY ValidRows
    <3>4. m \in 1..m /\ 1..(m - 1) \subseteq 1..m
      BY <1>1
    <3>5. \A f \in Prior(m) \cup ValidOf(m) : f.sent.trade_version \in Nat
      BY <3>1, <3>2, <3>3, <3>4
    <3>. QED
      BY <3>5 DEF MarksBefore
  <2>. QED
    BY <1>1, <2>1, <2>4, <2>5 DEF RJ001
<1>6. batch[m].verdicts[n].verdict = VerdictOn(ValidOf(m), Prior(m), Row(m, n))
  <2>1. batch[m].verdicts[n] = Judgement(m, n)
    BY <1>1, <1>2 DEF Calm, WarehouseInv, Judged
  <2>. QED
    BY <2>1 DEF Judgement, Prior
<1>. QED
  BY <1>2, <1>3, <1>4, <1>5, <1>6 DEF VerdictOn

(* An event that carries the last of its version loses no race.            *)
LEMMA CarrierWins ==
    ASSUME NEW i, Calm(i), NEW m \in 1..i, NEW n \in DOMAIN batch[m].events, NEW t, NEW v,
           Carries(LogNow, m, n, t, v)
    PROVE  /\ batch[m].events[n].field_valid /\ ~RaceLost(batch[m].events, n)
           /\ batch[m].events[n].draft.trade_id = t /\ batch[m].events[n].draft.trade_version = v
<1>. DEFINE ev == batch[m].events
<1>1. FeedInv /\ FeedType /\ m \in DOMAIN batch
  BY JudgedAlone DEF Calm, WarehouseInv, FeedInv
<1>2. LogNow[m].events = ev
  BY <1>1, EventsGenerated
<1>3. /\ ev[n].field_valid /\ ev[n].draft.trade_id = t /\ ev[n].draft.trade_version = v
      /\ LastOfVersion(LogNow, m, n)
  BY <1>2 DEF Carries
<1>4. ASSUME RaceLost(ev, n) PROVE FALSE
  <2>1. PICK k \in DOMAIN ev :
          /\ Contends(ev, k) /\ ev[k].draft.trade_id = ev[n].draft.trade_id
          /\ ev[k].draft.trade_version = ev[n].draft.trade_version
          /\ \/ ev[k].draft.effective_event_ts > ev[n].draft.effective_event_ts
             \/ ev[k].draft.effective_event_ts = ev[n].draft.effective_event_ts /\ k > n
    BY <1>4 DEF RaceLost
  <2>2. /\ k \in Nat /\ n \in Nat /\ ev[k].draft \in Draft /\ ev[n].draft \in Draft
    BY <1>1, RowFields
  <2>3. ev[k].draft.effective_event_ts \in Nat /\ ev[n].draft.effective_event_ts \in Nat
    BY <2>2 DEF Draft
  <2>4. k > n
    <3>1. CASE k < n
      <4>1. ev[k].draft.effective_event_ts < ev[n].draft.effective_event_ts
        BY <2>1, <3>1, InOrder DEF Follows
      <4>. QED
        BY <2>1, <2>3, <4>1
    <3>2. CASE k = n
      BY <2>1, <2>2, <2>3, <3>2
    <3>. QED
      BY <2>2, <3>1, <3>2
  <2>5. ev[k].field_valid
    BY <2>1 DEF Contends
  <2>. QED
    BY <1>2, <1>3, <2>1, <2>4, <2>5 DEF LastOfVersion
<1>. QED
  BY <1>3, <1>4

(* The floor of a batch in step is what was accepted before it.            *)
LEMMA FloorAccepted ==
    ASSUME NEW i, Calm(i), NEW j \in 1..i, NEW t, NEW v \in Nat
    PROVE  (t \in DOMAIN batch[j].floor /\ v < batch[j].floor[t]) <=>
             \E f \in Prior(j) : f.sent.trade_id = t /\ v < f.sent.trade_version
<1>1. /\ FeedInv /\ FeedType /\ i \in Nat /\ j \in Nat /\ j \in DOMAIN batch
      /\ batch[j].universe = 0 /\ FloorAbove(LogNow) /\ FloorReached(LogNow)
  BY JudgedAlone DEF Calm, WarehouseInv, FeedInv, History
<1>2. /\ LogNow \in Log /\ DOMAIN LogNow = DOMAIN batch
      /\ \A m \in DOMAIN batch :
           LogNow[m].universe = batch[m].universe /\ LogNow[m].floor = batch[m].floor
  BY <1>1, LogNowType
<1>3. \A m \in 1..(j - 1) :
        /\ m \in 1..i /\ m < j /\ m \in DOMAIN batch /\ batch[m].universe = 0
  BY <1>1, JudgedAlone
<1>4. ASSUME NEW f \in Prior(j), f.sent.trade_id = t, v < f.sent.trade_version
      PROVE  t \in DOMAIN batch[j].floor /\ v < batch[j].floor[t]
  <2>1. PICK m \in 1..(j - 1) : \E n \in RowIndexes(m) :
          f = Row(m, n) /\ batch[m].events[n].field_valid
    BY AcceptedBefore
  <2>2. PICK n \in RowIndexes(m) : f = Row(m, n) /\ batch[m].events[n].field_valid
    BY <2>1
  <2>3. n \in DOMAIN batch[m].events
    BY DEF RowIndexes
  <2>4. /\ batch[m].events[n].draft \in Draft
        /\ f.sent.trade_id = batch[m].events[n].draft.trade_id
        /\ f.sent.trade_version = batch[m].events[n].draft.trade_version
    BY <1>1, <1>3, <2>2, <2>3, RowFields
  <2>5. n \in DOMAIN LogNow[m].events /\ LogNow[m].events = batch[m].events
    BY <1>1, <1>3, <2>3, EventsGenerated
  <2>6. t \in DOMAIN batch[j].floor /\ f.sent.trade_version <= batch[j].floor[t]
    BY <1>1, <1>2, <1>3, <1>4, <2>2, <2>4, <2>5 DEF FloorAbove
  <2>7. batch[j].floor[t] \in Nat
    BY <1>1, <2>6, FeedFields DEF BatchRow, Floor
  <2>8. f.sent.trade_version \in Nat
    BY <2>4 DEF Draft
  <2>. QED
    BY <1>4, <2>6, <2>7, <2>8
<1>5. ASSUME t \in DOMAIN batch[j].floor, v < batch[j].floor[t]
      PROVE  \E f \in Prior(j) : f.sent.trade_id = t /\ v < f.sent.trade_version
  <2>1. PICK m \in DOMAIN LogNow : \E n \in DOMAIN LogNow[m].events :
          /\ m < j /\ LogNow[m].universe = LogNow[j].universe
          /\ Carries(LogNow, m, n, t, LogNow[j].floor[t])
    BY <1>1, <1>2, <1>5 DEF FloorReached
  <2>2. PICK n \in DOMAIN LogNow[m].events :
          m < j /\ Carries(LogNow, m, n, t, batch[j].floor[t])
    BY <1>1, <1>2, <2>1
  <2>3. m \in 1..(j - 1) /\ m \in 1..i /\ m \in Nat
    BY <1>1, <1>2, <2>2, FeedFields
  <2>4. LogNow[m].events = batch[m].events
    <3>1. ~(AtWork /\ m = Len(batch))
      BY <1>1, <2>2, FeedFields
    <3>. QED
      BY <1>1, <1>3, <2>3, <3>1, LogNowType DEF Generated
  <2>5. /\ n \in DOMAIN batch[m].events
        /\ batch[m].events[n].field_valid /\ ~RaceLost(batch[m].events, n)
        /\ batch[m].events[n].draft.trade_id = t
        /\ batch[m].events[n].draft.trade_version = batch[j].floor[t]
    BY <2>2, <2>3, <2>4, CarrierWins
  <2>6. ASSUME NEW p \in 1..m, NEW k \in DOMAIN batch[p].events, batch[p].events[k].field_valid,
               batch[p].events[k].draft.trade_id = t
        PROVE  batch[p].events[k].draft.trade_version <= batch[j].floor[t]
    <3>1. p \in 1..(j - 1) /\ p < j
      BY <1>1, <2>3
    <3>2. k \in DOMAIN LogNow[p].events /\ LogNow[p].events = batch[p].events
      BY <1>1, <1>3, <3>1, EventsGenerated
    <3>. QED
      BY <1>1, <1>2, <1>3, <2>6, <3>1, <3>2 DEF FloorAbove
  <2>7. n \in RowIndexes(m) /\ batch[m].verdicts[n].verdict = "ACCEPTED"
    BY <2>3, <2>5, <2>6, AcceptedIf
  <2>8. Row(m, n) \in Prior(j)
    <3>1. m \in Earlier(j)
      BY <2>3, JudgedAlone
    <3>. QED
      BY <2>7, <3>1 DEF Prior, AcceptedOf
  <2>9. Row(m, n).sent.trade_id = t /\ Row(m, n).sent.trade_version = batch[j].floor[t]
    BY <1>1, <1>3, <2>3, <2>5, RowFields
  <2>. QED
    BY <1>5, <2>8, <2>9
<1>. QED
  BY <1>4, <1>5

(* _settle_version_arbitration finds the late versions that the build does.*)
LEMMA LateForetold ==
    ASSUME NEW i, Calm(i), NEW j \in 1..i, NEW k \in RowIndexes(j)
    PROVE  RJ001(ValidOf(j), Prior(j), Row(j, k)) <=>
             Overtaken(batch[j].events, batch[j].floor, k)
<1>. DEFINE ev == batch[j].events
            e == ev[k].draft
            r == Row(j, k)
            first == \E f \in Prior(j) : SameTrade(f, r) /\ r.sent.trade_version < f.sent.trade_version
            second == \E f \in ValidOf(j) :
                        /\ SameTrade(f, r) /\ ~Loses(ValidOf(j), f) /\ Precedes(f, r)
                        /\ r.sent.trade_version < f.sent.trade_version
            before == \E n \in DOMAIN ev :
                        /\ Contends(ev, n) /\ ~RaceLost(ev, n)
                        /\ ev[n].draft.trade_id = e.trade_id
                        /\ e.trade_version < ev[n].draft.trade_version
                        /\ ev[n].draft.effective_event_ts < e.effective_event_ts
<1>1. /\ FeedType /\ j \in DOMAIN batch /\ k \in DOMAIN ev
  BY JudgedAlone DEF Calm, WarehouseInv, FeedInv, RowIndexes
<1>2. /\ e \in Draft /\ r.sent.trade_id = e.trade_id /\ r.sent.trade_version = e.trade_version
      /\ e.trade_version \in Nat /\ e.effective_event_ts \in Nat /\ k \in Nat
  <2>1. e \in Draft /\ r.sent.trade_id = e.trade_id /\ r.sent.trade_version = e.trade_version /\ k \in Nat
    BY <1>1, RowFields
  <2>. QED
    BY <2>1 DEF Draft
<1>3. RJ001(ValidOf(j), Prior(j), r) <=> first \/ second
  <2>1. ~(r.sent.trade_version < 0)
    BY <1>2
  <2>. HIDE DEF r
  <2>. QED
    BY <2>1 DEF RJ001, MarksBefore
<1>4. first <=> e.trade_id \in DOMAIN batch[j].floor /\ e.trade_version < batch[j].floor[e.trade_id]
  <2>1. first <=> \E f \in Prior(j) : f.sent.trade_id = e.trade_id /\ e.trade_version < f.sent.trade_version
    BY <1>2 DEF SameTrade
  <2>. HIDE DEF e, first
  <2>. QED
    BY <1>2, <2>1, FloorAccepted
<1>5. ASSUME second PROVE before
  <2>1. PICK f \in ValidOf(j) :
          /\ SameTrade(f, r) /\ ~Loses(ValidOf(j), f) /\ Precedes(f, r)
          /\ r.sent.trade_version < f.sent.trade_version
    BY <1>5
  <2>2. PICK n \in RowIndexes(j) : f = Row(j, n) /\ Contends(ev, n)
    BY ValidRows
  <2>3. n \in DOMAIN ev
    BY DEF RowIndexes
  <2>4. /\ ev[n].draft \in Draft /\ f.sent.trade_version = ev[n].draft.trade_version
        /\ n \in Nat
    BY <1>1, <2>2, <2>3, RowFields
  <2>5. ~RaceLost(ev, n)
    BY <2>1, <2>2, LosersForetold
  <2>6. /\ ev[n].draft.trade_id = e.trade_id
        /\ \/ ev[n].draft.effective_event_ts < e.effective_event_ts
           \/ ev[n].draft.effective_event_ts = e.effective_event_ts /\ n < k
    BY <1>1, <2>1, <2>2, <2>3, RanksInBatch
  <2>7. ev[n].draft.effective_event_ts < e.effective_event_ts
    <3>1. CASE n < k
      BY <1>1, <2>3, <2>6, <3>1, InOrder DEF Follows
    <3>. QED
      BY <2>6, <3>1
  <2>. QED
    BY <1>2, <2>1, <2>2, <2>3, <2>4, <2>5, <2>6, <2>7
<1>6. ASSUME before PROVE second
  <2>1. PICK n \in DOMAIN ev :
          /\ Contends(ev, n) /\ ~RaceLost(ev, n)
          /\ ev[n].draft.trade_id = e.trade_id
          /\ e.trade_version < ev[n].draft.trade_version
          /\ ev[n].draft.effective_event_ts < e.effective_event_ts
    BY <1>6
  <2>2. n \in RowIndexes(j) /\ Row(j, n) \in ValidOf(j)
    BY <2>1, ValidRows
  <2>3. ~Loses(ValidOf(j), Row(j, n))
    BY <2>1, <2>2, LosersForetold
  <2>4. SameTrade(Row(j, n), r) /\ Precedes(Row(j, n), r)
    BY <1>1, <2>1, RanksInBatch
  <2>5. Row(j, n).sent.trade_version = ev[n].draft.trade_version
    BY <1>1, RowFields
  <2>. QED
    BY <1>2, <2>1, <2>2, <2>3, <2>4, <2>5
<1>7. Overtaken(ev, batch[j].floor, k) <=>
        (e.trade_id \in DOMAIN batch[j].floor /\ e.trade_version < batch[j].floor[e.trade_id])
          \/ before
  BY DEF Overtaken
<1>. HIDE DEF first, second, before
<1>. QED
  BY <1>3, <1>4, <1>5, <1>6, <1>7

(* An event that may be accepted and is not marked late is not overtaken.  *)
LEMMA NotOvertaken ==
    ASSUME NEW i, Calm(i), NEW j \in 1..i, NEW k \in DOMAIN batch[j].events,
           batch[j].events[k].field_valid, "RJ001" \notin batch[j].events[k].expected_rule_codes
    PROVE  ~Overtaken(batch[j].events, batch[j].floor, k)
<1>. DEFINE ev == batch[j].events
            e == ev[k].draft
<1>1. /\ FeedInv /\ FeedType /\ j \in DOMAIN batch /\ LateMarked(LogNow)
  BY JudgedAlone DEF Calm, WarehouseInv, FeedInv, History
<1>2. /\ j \in DOMAIN LogNow /\ LogNow[j].events = ev /\ k \in DOMAIN LogNow[j].events
      /\ LogNow[j].floor = batch[j].floor
  BY <1>1, EventsGenerated, LogNowType
<1>3. /\ e.trade_id \in DOMAIN batch[j].floor => batch[j].floor[e.trade_id] <= e.trade_version
      /\ \A n \in DOMAIN ev :
           n < k /\ ev[n].field_valid /\ ev[n].draft.trade_id = e.trade_id
           => ev[n].draft.trade_version <= e.trade_version
  BY <1>1, <1>2 DEF LateMarked
<1>4. \A n \in DOMAIN ev : /\ n \in Nat /\ ev[n].draft.trade_version \in Nat
                           /\ ev[n].draft.effective_event_ts \in Nat
  <2>1. \A n \in DOMAIN ev : n \in Nat /\ ev[n].draft \in Draft
    BY <1>1, RowFields
  <2>. QED
    BY <2>1 DEF Draft
<1>5. e.trade_id \in DOMAIN batch[j].floor => batch[j].floor[e.trade_id] \in Nat
  BY <1>1, FeedFields DEF BatchRow, Floor
<1>6. ~(e.trade_id \in DOMAIN batch[j].floor /\ e.trade_version < batch[j].floor[e.trade_id])
  BY <1>3, <1>4, <1>5
<1>7. ASSUME NEW n \in DOMAIN ev, Contends(ev, n), ev[n].draft.trade_id = e.trade_id,
             e.trade_version < ev[n].draft.trade_version,
             ev[n].draft.effective_event_ts < e.effective_event_ts
      PROVE  FALSE
  <2>1. ~(n < k)
    BY <1>3, <1>4, <1>7 DEF Contends
  <2>2. CASE k < n
    <3>1. e.effective_event_ts < ev[n].draft.effective_event_ts
      BY <1>7, <2>2, InOrder DEF Follows
    <3>. QED
      BY <1>4, <1>7, <3>1
  <2>3. CASE k = n
    BY <1>4, <1>7, <2>3
  <2>. QED
    BY <1>4, <2>1, <2>2, <2>3
<1>. QED
  BY <1>6, <1>7 DEF Overtaken

(* The verdict on an event of a batch in step, from what the simulator     *)
(* knows of the batch.                                                     *)
LEMMA VerdictForetold ==
    ASSUME NEW i, Calm(i), NEW k \in RowIndexes(i),
           NEW lost, lost = RaceLost(batch[i].events, k),
           NEW late, late = Overtaken(batch[i].events, batch[i].floor, k)
    PROVE  LET e == batch[i].events[k]
               row == batch[i].verdicts[k] IN
           /\ row.verdict = IF lost THEN "SUPERSEDED"
                            ELSE IF e.field_valid /\ ~late THEN "ACCEPTED" ELSE "REJECTED"
           /\ CodesOf[e.damage] \subseteq row.codes
           /\ lost => "RJ009" \in row.codes
           /\ late => "RJ001" \in row.codes
<1>. DEFINE e == batch[i].events[k]
            row == batch[i].verdicts[k]
            r == Row(i, k)
<1>1. /\ i \in 1..i /\ i \in Built /\ i \in DOMAIN batch /\ k \in DOMAIN batch[i].events
      /\ Identified(e)
  <2>1. FeedType /\ i \in DOMAIN batch
    BY DEF Calm, WarehouseInv, FeedInv
  <2>2. i \in 1..i
    BY <2>1, FeedFields
  <2>. QED
    BY <2>1, <2>2, JudgedAlone DEF RowIndexes
<1>2. row = Judgement(i, k)
  BY <1>1 DEF Calm, WarehouseInv, Judged
<1>3. /\ row.verdict = VerdictOn(ValidOf(i), Prior(i), r)
      /\ row.codes = FieldRulesFired(e, batch[i].built_on)
                       \cup StateRulesFired(ValidOf(i), Prior(i), r)
  BY <1>2 DEF Judgement, Prior
<1>4. /\ Loses(ValidOf(i), r) <=> lost
      /\ RJ001(ValidOf(i), Prior(i), r) <=> late
      /\ ~RJ010(Prior(i), r)
  BY <1>1, LosersForetold, LateForetold, NothingAfterCancel
<1>5. r \in ValidOf(i) <=> e.field_valid
  BY <1>1, ValidRows DEF Contends
<1>6. row.verdict = IF lost THEN "SUPERSEDED"
                    ELSE IF e.field_valid /\ ~late THEN "ACCEPTED" ELSE "REJECTED"
  <2>. HIDE DEF r, e, row
  <2>. QED
    BY <1>3, <1>4, <1>5 DEF VerdictOn
<1>7. CodesOf[e.damage] \subseteq row.codes
  BY <1>3 DEF FieldRulesFired
<1>8. (lost => "RJ009" \in row.codes) /\ (late => "RJ001" \in row.codes)
  <2>. HIDE DEF r, e, row
  <2>. QED
    BY <1>3, <1>4 DEF StateRulesFired, StateRule
<1>. QED
  BY <1>6, <1>7, <1>8

LEMMA CalmForetold ==
    ASSUME NEW i, Calm(i)
    PROVE  Foretold(i)
<1>. DEFINE ev == batch[i].events
            floor == batch[i].floor
<1>1. FeedType /\ i \in DOMAIN batch /\ ManifestKept /\ i \in 1..i
  <2>1. FeedType /\ i \in DOMAIN batch /\ ManifestKept
    BY DEF Calm, WarehouseInv, FeedInv
  <2>. QED
    BY <2>1, FeedFields
<1>2. SUFFICES ASSUME NEW k \in RowIndexes(i), k \in DOMAIN batch[i].manifest
               PROVE  /\ batch[i].verdicts[k].verdict = batch[i].manifest[k].expected_verdict
                      /\ batch[i].manifest[k].expected_rule_codes \subseteq batch[i].verdicts[k].codes
  BY DEF Foretold
<1>. DEFINE e == ev[k]
            row == batch[i].verdicts[k]
            promise == Settled(ev, floor, k)
<1>3. batch[i].manifest = BuildManifest(ev, floor)
  <2>1. batch[i].manifest # <<>>
    BY <1>2
  <2>. QED
    BY <1>1, <2>1 DEF ManifestKept
<1>4. /\ k \in DOMAIN ev /\ Identified(e)
      /\ batch[i].manifest[k].expected_verdict = promise.expected_verdict
      /\ batch[i].manifest[k].expected_rule_codes = promise.expected_rule_codes
  BY <1>3 DEF RowIndexes, BuildManifest
<1>5. e \in Emitted
  BY <1>1, <1>4, RowFields
<1>6. DOMAIN e = {"draft", "damage", "injected_fault", "field_valid", "expected_verdict",
                  "expected_rule_codes"}
  BY <1>5 DEF Emitted, GeneratedEvent
<1>7. /\ CodesOf[e.damage] \subseteq WarnRules <=> e.field_valid
      /\ "RJ001" \notin e.expected_rule_codes => e.expected_rule_codes \subseteq CodesOf[e.damage]
      /\ "RJ001" \in e.expected_rule_codes => e.expected_rule_codes = {"RJ001"}
      /\ e.expected_verdict = IF e.field_valid /\ "RJ001" \notin e.expected_rule_codes
                              THEN "ACCEPTED" ELSE "REJECTED"
  BY <1>4, <1>5, FieldsForetold
<1>8. /\ row.verdict = IF RaceLost(ev, k) THEN "SUPERSEDED"
                       ELSE IF e.field_valid /\ ~Overtaken(ev, floor, k)
                            THEN "ACCEPTED" ELSE "REJECTED"
      /\ CodesOf[e.damage] \subseteq row.codes
      /\ RaceLost(ev, k) => "RJ009" \in row.codes
      /\ Overtaken(ev, floor, k) => "RJ001" \in row.codes
  BY VerdictForetold
<1>9. e.field_valid /\ "RJ001" \notin e.expected_rule_codes => ~Overtaken(ev, floor, k)
  BY <1>1, <1>4, NotOvertaken
<1>10. CASE RaceLost(ev, k)
  <2>1. promise = [e EXCEPT !.expected_verdict = "SUPERSEDED", !.expected_rule_codes = {"RJ009"}]
    BY <1>10 DEF Settled
  <2>. HIDE DEF promise, e
  <2>2. promise.expected_verdict = "SUPERSEDED" /\ promise.expected_rule_codes = {"RJ009"}
    BY <1>6, <2>1
  <2>. QED
    BY <1>4, <1>8, <1>10, <2>2
<1>11. CASE ~RaceLost(ev, k) /\ "RJ001" \in e.expected_rule_codes /\ ~Overtaken(ev, floor, k)
  <2>1. promise = [e EXCEPT !.expected_rule_codes = @ \ {"RJ001"},
                            !.expected_verdict = IF e.field_valid /\ e.expected_rule_codes = {"RJ001"}
                                                   THEN "ACCEPTED" ELSE @]
    BY <1>4, <1>11 DEF Settled
  <2>. HIDE DEF promise, e
  <2>2. /\ promise.expected_rule_codes = {}
        /\ promise.expected_verdict = IF e.field_valid THEN "ACCEPTED" ELSE "REJECTED"
    BY <1>6, <1>7, <1>11, <2>1
  <2>. QED
    BY <1>4, <1>8, <1>11, <2>2
<1>12. CASE ~RaceLost(ev, k) /\ "RJ001" \in e.expected_rule_codes /\ Overtaken(ev, floor, k)
  <2>1. promise = e
    BY <1>12 DEF Settled
  <2>. HIDE DEF promise, e
  <2>. QED
    BY <1>4, <1>7, <1>8, <1>12, <2>1
<1>13. CASE ~RaceLost(ev, k) /\ "RJ001" \notin e.expected_rule_codes
  <2>1. promise = e
    BY <1>13 DEF Settled
  <2>. HIDE DEF promise, e
  <2>2. row.verdict = IF e.field_valid THEN "ACCEPTED" ELSE "REJECTED"
    BY <1>8, <1>9, <1>13
  <2>. QED
    BY <1>4, <1>7, <1>8, <1>13, <2>1, <2>2
<1>. QED
  BY <1>10, <1>11, <1>12, <1>13

(* The manifest is ground truth, for any number of simulators and batches, *)
(* any faults, payload and tenors: if a batch and those before it were     *)
(* built in the order they were generated and nothing in them has matured, *)
(* every event gets the verdict and at least the codes it was promised.    *)
THEOREM ManifestIsGroundTruth == Spec => []ManifestForetells
<1>1. WarehouseInv => ManifestForetells
  BY CalmForetold DEF ManifestForetells, Calm
<1>. QED
  BY <1>1, WarehouseInvariant, PTL

LEMMA BookFollows ==
    ASSUME WarehouseInv, \A i \in DOMAIN batch : InStep(i) /\ NothingMatured(i),
           lock = NoSim, book.universe = 0, NEW t \in Trade
    PROVE  LET accepted == {r.sent : r \in {q \in AcceptedRows : q.sent.trade_id = t}} IN
           /\ \A a \in accepted : a.trade_version <= Known(book, t)
           /\ t \in DOMAIN book.trades =>
                /\ \E a \in accepted : a.trade_version = Known(book, t)
                /\ book.trades[t].is_cancelled <=> \E a \in accepted : a.action = "CANCEL"
<1>1. /\ FeedInv /\ FeedType /\ Judged /\ Current = book /\ book \in Book
      /\ Recorded(book, LogNow) /\ VersionsWitnessed(book, LogNow) /\ CancelsWitnessed(book, LogNow)
  BY DEF WarehouseInv, FeedInv, FeedType, History, Current
<1>2. /\ LogNow \in Log /\ DOMAIN LogNow = DOMAIN batch
      /\ \A i \in DOMAIN batch :
           LogNow[i].universe = batch[i].universe /\ LogNow[i].events = batch[i].events
  BY <1>1, LogNowType DEF Generated, AtWork
<1>3. \A i \in DOMAIN batch : /\ Calm(i) /\ i \in Nat /\ i \in 1..i /\ i \in Built
                              /\ batch[i].universe = 0
  <2>1. \A i \in DOMAIN batch : Calm(i) /\ i \in Nat /\ i \in 1..i
    BY <1>1, FeedFields DEF Calm
  <2>. QED
    BY <2>1, JudgedAlone
<1>4. ASSUME NEW i \in DOMAIN batch, NEW k \in DOMAIN batch[i].events
      PROVE  InBook(book, batch[i].events[k])
  BY <1>1, <1>2, <1>3 DEF Recorded
<1>. DEFINE accepted == {r.sent : r \in {q \in AcceptedRows : q.sent.trade_id = t}}
<1>5. ASSUME NEW a \in accepted
      PROVE  /\ t \in DOMAIN book.trades /\ a.trade_version <= book.trades[t].trade_version
             /\ a.action = "CANCEL" => book.trades[t].is_cancelled
  <2>1. PICK r \in AcceptedRows : a = r.sent /\ r.sent.trade_id = t
    OBVIOUS
  <2>2. PICK i \in Built : \E k \in RowIndexes(i) :
          r = Row(i, k) /\ batch[i].verdicts[k].verdict = "ACCEPTED"
    BY DEF AcceptedRows
  <2>3. PICK k \in RowIndexes(i) : r = Row(i, k) /\ batch[i].verdicts[k].verdict = "ACCEPTED"
    BY <2>2
  <2>4. i \in DOMAIN batch /\ k \in DOMAIN batch[i].events
    BY DEF Built, RowIndexes
  <2>5. batch[i].events[k].field_valid
    <3>1. Calm(i)
      BY <1>3, <2>4
    <3>2. \E late, lost : batch[i].verdicts[k].verdict =
             IF lost THEN "SUPERSEDED"
             ELSE IF batch[i].events[k].field_valid /\ ~late THEN "ACCEPTED" ELSE "REJECTED"
      BY <3>1, VerdictForetold
    <3>. QED
      BY <2>3, <3>2
  <2>6. /\ batch[i].events[k].draft.trade_id = t
        /\ a.trade_version = batch[i].events[k].draft.trade_version
        /\ a.action = batch[i].events[k].draft.action
    BY <1>1, <2>1, <2>3, <2>4, RowFields
  <2>. QED
    BY <1>4, <2>4, <2>5, <2>6 DEF InBook
<1>6. ASSUME NEW i \in DOMAIN batch, NEW k \in DOMAIN batch[i].events, NEW v,
             batch[i].events[k].field_valid, ~RaceLost(batch[i].events, k),
             batch[i].events[k].draft.trade_id = t,
             batch[i].events[k].draft.trade_version = v,
             t \in DOMAIN book.trades, v = book.trades[t].trade_version
      PROVE  \E a \in accepted : a.trade_version = v /\ a.action = batch[i].events[k].draft.action
  <2>1. ASSUME NEW j \in 1..i, NEW n \in DOMAIN batch[j].events, batch[j].events[n].field_valid,
               batch[j].events[n].draft.trade_id = t
        PROVE  batch[j].events[n].draft.trade_version <= v
    <3>1. j \in DOMAIN batch
      BY <1>3, JudgedAlone
    <3>. QED
      BY <1>4, <1>6, <2>1, <3>1 DEF InBook
  <2>2. k \in RowIndexes(i) /\ batch[i].verdicts[k].verdict = "ACCEPTED"
    BY <1>3, <1>6, <2>1, AcceptedIf
  <2>3. Row(i, k) \in AcceptedRows
    BY <1>3, <2>2 DEF AcceptedRows
  <2>4. /\ Row(i, k).sent.trade_id = t /\ Row(i, k).sent.trade_version = v
        /\ Row(i, k).sent.action = batch[i].events[k].draft.action
    BY <1>1, <1>6, RowFields
  <2>. QED
    BY <2>3, <2>4
<1>7. ASSUME t \in DOMAIN book.trades
      PROVE  /\ \E a \in accepted : a.trade_version = book.trades[t].trade_version
             /\ book.trades[t].is_cancelled => \E a \in accepted : a.action = "CANCEL"
  <2>. DEFINE v == book.trades[t].trade_version
  <2>1. \E a \in accepted : a.trade_version = v
    <3>1. PICK i \in DOMAIN LogNow : \E k \in DOMAIN LogNow[i].events : Carries(LogNow, i, k, t, v)
      BY <1>1, <1>7 DEF VersionsWitnessed
    <3>2. PICK k \in DOMAIN LogNow[i].events : Carries(LogNow, i, k, t, v)
      BY <3>1
    <3>3. i \in DOMAIN batch /\ k \in DOMAIN batch[i].events
      BY <1>2
    <3>. HIDE DEF accepted, v
    <3>4. /\ batch[i].events[k].field_valid /\ ~RaceLost(batch[i].events, k)
          /\ batch[i].events[k].draft.trade_id = t /\ batch[i].events[k].draft.trade_version = v
      BY <1>3, <3>2, <3>3, CarrierWins
    <3>. QED
      BY <1>6, <1>7, <3>3, <3>4 DEF v
  <2>2. ASSUME book.trades[t].is_cancelled PROVE \E a \in accepted : a.action = "CANCEL"
    <3>1. PICK i \in DOMAIN LogNow : \E k \in DOMAIN LogNow[i].events :
            Cancels(LogNow[i].events[k], t, v)
      BY <1>1, <1>7, <2>2 DEF CancelsWitnessed
    <3>2. PICK k \in DOMAIN LogNow[i].events : Cancels(LogNow[i].events[k], t, v)
      BY <3>1
    <3>3. i \in DOMAIN batch /\ k \in DOMAIN batch[i].events
      BY <1>2
    <3>4. /\ batch[i].events[k].field_valid /\ batch[i].events[k].draft.action = "CANCEL"
          /\ batch[i].events[k].draft.trade_id = t /\ batch[i].events[k].draft.trade_version = v
      BY <1>2, <3>2, <3>3 DEF Cancels
    <3>5. ~RaceLost(batch[i].events, k)
      <4>1. SUFFICES ASSUME RaceLost(batch[i].events, k) PROVE FALSE
        OBVIOUS
      <4>. DEFINE ev == batch[i].events
      <4>2. PICK n \in DOMAIN ev :
              /\ ev[n].draft.trade_id = ev[k].draft.trade_id
              /\ \/ ev[n].draft.effective_event_ts > ev[k].draft.effective_event_ts
                 \/ ev[n].draft.effective_event_ts = ev[k].draft.effective_event_ts /\ n > k
        BY <4>1 DEF RaceLost
      <4>3. k \in Nat /\ n \in Nat /\ ev[n].draft \in Draft /\ ev[k].draft \in Draft
        BY <1>1, <3>3, RowFields
      <4>4. ev[n].draft.effective_event_ts \in Nat /\ ev[k].draft.effective_event_ts \in Nat
        BY <4>3 DEF Draft
      <4>5. CASE k < n
        BY <1>3, <3>3, <3>4, <4>2, <4>5, InOrder DEF Follows
      <4>6. CASE n < k
        <5>1. ev[n].draft.effective_event_ts < ev[k].draft.effective_event_ts
          BY <1>3, <3>3, <4>2, <4>6, InOrder DEF Follows
        <5>. QED
          BY <4>2, <4>4, <4>6, <5>1
      <4>7. CASE n = k
        BY <4>2, <4>3, <4>4, <4>7
      <4>. QED
        BY <4>3, <4>5, <4>6, <4>7
    <3>. HIDE DEF accepted
    <3>. QED
      BY <1>6, <1>7, <3>3, <3>4, <3>5
  <2>. QED
    BY <2>1, <2>2
<1>. HIDE DEF accepted
<1>8. \A a \in accepted : a.trade_version <= Known(book, t)
  BY <1>5 DEF Known
<1>9. t \in DOMAIN book.trades =>
        /\ \E a \in accepted : a.trade_version = Known(book, t)
        /\ book.trades[t].is_cancelled <=> \E a \in accepted : a.action = "CANCEL"
  <2>1. SUFFICES ASSUME t \in DOMAIN book.trades
                 PROVE  /\ \E a \in accepted : a.trade_version = Known(book, t)
                        /\ book.trades[t].is_cancelled <=> \E a \in accepted : a.action = "CANCEL"
    OBVIOUS
  <2>2. Known(book, t) = book.trades[t].trade_version
    BY <2>1 DEF Known
  <2>3. book.trades[t].is_cancelled \in BOOLEAN
    BY <1>1, <2>1, EntriesOf DEF Book, Entry
  <2>. QED
    BY <1>5, <1>7, <2>1, <2>2, <2>3
<1>. QED
  BY <1>8, <1>9 DEF accepted

(* The book remembers what the warehouse knows, whatever was resent, came  *)
(* late or failed, once every batch generated is in step.                  *)
THEOREM BookIsFollowed == Spec => []BookFollowsWarehouse
<1>1. WarehouseInv => BookFollowsWarehouse
  BY BookFollows DEF BookFollowsWarehouse
<1>. QED
  BY <1>1, WarehouseInvariant, PTL
-----------------------------------------------------------------------------
(* THE RECONCILER                                                          *)

(* The place in a pool of the row that stands at p when row c has left.    *)
Before(c, p) == IF p < c THEN p ELSE p + 1

LEMMA RowLeaves ==
    ASSUME NEW A, NEW s \in Seq(A), NEW c \in DOMAIN s
    PROVE  /\ RemoveAt(s, c) \in Seq(A) /\ DOMAIN RemoveAt(s, c) = 1 .. Len(s) - 1
           /\ \A p \in 1 .. Len(s) - 1 :
                /\ Before(c, p) \in DOMAIN s \ {c}
                /\ RemoveAt(s, c)[p] = s[Before(c, p)]
           /\ \A q \in DOMAIN s \ {c} : \E p \in 1 .. Len(s) - 1 : Before(c, p) = q
<1>. DEFINE a == SubSeq(s, 1, c - 1)
            b == SubSeq(s, c + 1, Len(s))
<1>1. Len(s) \in Nat /\ c \in 1 .. Len(s) /\ \A k \in 1 .. Len(s) : s[k] \in A
  OBVIOUS
<1>2. /\ a \in Seq(A) /\ Len(a) = c - 1 /\ \A k \in 1 .. c - 1 : a[k] = s[k]
      /\ b \in Seq(A) /\ Len(b) = Len(s) - c /\ \A k \in 1 .. Len(s) - c : b[k] = s[c + k]
  <2>1. \A k \in 1 .. c - 1 : s[k] \in A
    BY <1>1
  <2>2. \A k \in c + 1 .. Len(s) : s[k] \in A
    BY <1>1
  <2>3. a \in Seq(A) /\ Len(a) = c - 1 /\ \A k \in 1 .. c - 1 : a[k] = s[1 + k - 1]
    <3>1. \A k \in 1 .. c - 1 : a[k] = s[1 + k - 1]
      BY <1>1, <2>1, SubSeqProperties
    <3>. QED
      BY <1>1, <2>1, <3>1, SubSeqProperties
  <2>4. /\ b \in Seq(A) /\ Len(b) = Len(s) - c
        /\ \A k \in 1 .. Len(s) - (c + 1) + 1 : b[k] = s[(c + 1) + k - 1]
    BY <1>1, <2>2, SubSeqProperties
  <2>. HIDE DEF a, b
  <2>5. \A k \in 1 .. Len(s) - c :
          k \in 1 .. Len(s) - (c + 1) + 1 /\ (c + 1) + k - 1 = c + k
    BY <1>1
  <2>6. \A k \in 1 .. c - 1 : 1 + k - 1 = k
    OBVIOUS
  <2>. QED
    BY <2>3, <2>4, <2>5, <2>6
<1>3. RemoveAt(s, c) = a \o b
  BY DEF RemoveAt
<1>. HIDE DEF a, b
<1>4. /\ RemoveAt(s, c) \in Seq(A) /\ Len(RemoveAt(s, c)) = Len(s) - 1
      /\ \A p \in 1 .. Len(s) - 1 :
           RemoveAt(s, c)[p] = IF p <= c - 1 THEN a[p] ELSE b[p - (c - 1)]
  <2>1. /\ a \o b \in Seq(A) /\ Len(a \o b) = Len(a) + Len(b)
        /\ \A p \in 1 .. Len(a) + Len(b) :
             (a \o b)[p] = IF p <= Len(a) THEN a[p] ELSE b[p - Len(a)]
    BY <1>2, ConcatProperties
  <2>2. Len(a) + Len(b) = Len(s) - 1
    BY <1>1, <1>2
  <2>. QED
    BY <1>2, <1>3, <2>1, <2>2
<1>5. ASSUME NEW p \in 1 .. Len(s) - 1
      PROVE  RemoveAt(s, c)[p] = s[Before(c, p)] /\ Before(c, p) \in DOMAIN s \ {c}
  <2>1. CASE p < c
    BY <1>1, <1>2, <1>4, <2>1 DEF Before
  <2>2. CASE ~(p < c)
    <3>1. p - (c - 1) \in 1 .. Len(s) - c /\ c + (p - (c - 1)) = p + 1 /\ ~(p <= c - 1)
      BY <1>1, <2>2
    <3>2. RemoveAt(s, c)[p] = b[p - (c - 1)]
      BY <1>4, <3>1
    <3>3. b[p - (c - 1)] = s[p + 1]
      BY <1>2, <3>1
    <3>4. Before(c, p) = p + 1 /\ p + 1 \in DOMAIN s \ {c}
      BY <1>1, <2>2 DEF Before
    <3>. QED
      BY <3>2, <3>3, <3>4
  <2>. QED
    BY <2>1, <2>2
<1>6. ASSUME NEW q \in DOMAIN s \ {c}
      PROVE  \E p \in 1 .. Len(s) - 1 : Before(c, p) = q
  <2>1. CASE q < c
    BY <1>1, <2>1 DEF Before
  <2>2. CASE q > c
    <3>1. q - 1 \in 1 .. Len(s) - 1 /\ Before(c, q - 1) = q
      BY <1>1, <2>2 DEF Before
    <3>. QED
      BY <3>1
  <2>. QED
    BY <1>1, <2>1, <2>2
<1>. QED
  BY <1>1, <1>4, <1>5, <1>6

(* Rows and expectations are paired when each row of the pool answers one  *)
(* of the expectations S, with its verdict, and each is answered.          *)
Paired(manifest, rows, S, m) ==
    /\ m \in [DOMAIN rows -> S]
    /\ \A p, q \in DOMAIN rows : m[p] = m[q] => p = q
    /\ \A k \in S : \E p \in DOMAIN rows : m[p] = k
    /\ \A p \in DOMAIN rows : rows[p].verdict = manifest[m[p]].expected_verdict

(* What _claim_row takes is a row of the pool, and one of the verdict      *)
(* expected if there is any.                                               *)
LEMMA RowClaimed ==
    ASSUME NEW A, NEW rows \in Seq(A), NEW e,
           \E p \in DOMAIN rows : rows[p].verdict = e.expected_verdict
    PROVE  /\ ClaimRow(rows, e) \in DOMAIN rows
           /\ rows[ClaimRow(rows, e)].verdict = e.expected_verdict
<1>. DEFINE same == {n \in DOMAIN rows : rows[n].verdict = e.expected_verdict}
            exact == {n \in same : e.expected_rule_codes \subseteq rows[n].codes}
            first(S) == CHOOSE n \in S : \A m \in S : n <= m
<1>1. same \in SUBSET Nat /\ exact \in SUBSET Nat /\ same # {} /\ exact \subseteq same
  OBVIOUS
<1>2. ClaimRow(rows, e) = IF exact # {} THEN first(exact)
                          ELSE IF same # {} THEN first(same) ELSE 1
  BY DEF ClaimRow
<1>3. first(same) \in same
  <2>. HIDE DEF same, exact
  <2>1. \E n \in same : \A m \in same : n <= m
    BY <1>1, LeastNumber
  <2>. QED
    BY <2>1
<1>4. exact # {} => first(exact) \in exact
  <2>. HIDE DEF same, exact
  <2>1. exact # {} => \E n \in exact : \A m \in exact : n <= m
    BY <1>1, LeastNumber
  <2>. QED
    BY <2>1
<1>5. ClaimRow(rows, e) \in same
  <2>. HIDE DEF same, exact, first
  <2>. QED
    BY <1>1, <1>2, <1>3, <1>4
<1>. QED
  BY <1>5

(* When the row of one expectation is claimed by another of the same       *)
(* verdict, the two change rows, and the rest stays paired.                *)
LEMMA RestPaired ==
    ASSUME NEW A, NEW rows \in Seq(A), NEW manifest, NEW S, NEW m,
           Paired(manifest, rows, S, m), NEW n \in S, NEW c \in DOMAIN rows,
           rows[c].verdict = manifest[n].expected_verdict
    PROVE  \E r : Paired(manifest, RemoveAt(rows, c), S \ {n}, r)
<1>. DEFINE left == RemoveAt(rows, c)
            D == 1 .. Len(rows) - 1
            r == [p \in D |-> IF m[Before(c, p)] = n THEN m[c] ELSE m[Before(c, p)]]
<1>1. /\ DOMAIN left = D
      /\ \A p \in D : Before(c, p) \in DOMAIN rows \ {c} /\ left[p] = rows[Before(c, p)]
      /\ \A q \in DOMAIN rows \ {c} : \E p \in D : Before(c, p) = q
  BY RowLeaves
<1>2. \A p, q \in D : Before(c, p) = Before(c, q) => p = q
  BY DEF Before
<1>. HIDE DEF left, D
<1>3. ASSUME NEW p \in D
      PROVE  r[p] \in S \ {n} /\ left[p].verdict = manifest[r[p]].expected_verdict
  <2>1. Before(c, p) \in DOMAIN rows /\ Before(c, p) # c /\ left[p] = rows[Before(c, p)]
    BY <1>1
  <2>2. CASE m[Before(c, p)] = n
    <3>1. r[p] = m[c] /\ m[c] # n /\ m[c] \in S
      BY <2>1, <2>2 DEF Paired
    <3>. QED
      BY <2>1, <2>2, <3>1 DEF Paired
  <2>3. CASE m[Before(c, p)] # n
    BY <2>1, <2>3 DEF Paired
  <2>. QED
    BY <2>2, <2>3
<1>4. ASSUME NEW p \in D, NEW q \in D, r[p] = r[q]
      PROVE  p = q
  <2>1. /\ Before(c, p) \in DOMAIN rows /\ Before(c, p) # c
        /\ Before(c, q) \in DOMAIN rows /\ Before(c, q) # c
    BY <1>1
  <2>2. Before(c, p) = Before(c, q)
    BY <1>4, <2>1 DEF Paired
  <2>. QED
    BY <1>2, <2>2
<1>5. ASSUME NEW k \in S \ {n}
      PROVE  \E p \in D : r[p] = k
  <2>1. PICK q \in DOMAIN rows : m[q] = k
    BY DEF Paired
  <2>2. CASE q # c
    <3>1. PICK p \in D : Before(c, p) = q
      BY <1>1, <2>2
    <3>. QED
      BY <2>1, <3>1
  <2>3. CASE q = c
    <3>1. PICK o \in DOMAIN rows : m[o] = n
      BY DEF Paired
    <3>2. PICK p \in D : Before(c, p) = o
      BY <1>1, <2>1, <2>3, <3>1
    <3>. QED
      BY <2>1, <2>3, <3>1, <3>2
  <2>. QED
    BY <2>2, <2>3
<1>6. r \in [DOMAIN left -> S \ {n}]
  BY <1>1, <1>3
<1>. HIDE DEF r
<1>7. Paired(manifest, left, S \ {n}, r)
  BY <1>1, <1>3, <1>4, <1>5, <1>6 DEF Paired
<1>. QED
  BY <1>7 DEF left

(* The pool and the counts of the reconciler, for rows in A.               *)
Found(A) == [unclaimed : Seq(A), missing : Nat, verdict_mismatches : Nat,
             rule_code_mismatches : Nat]

(* Nothing is wrong so far, and what is left is paired.                    *)
FoundSoFar(manifest, found, S) ==
    /\ found.missing = 0 /\ found.verdict_mismatches = 0
    /\ \E m : Paired(manifest, found.unclaimed, S, m)

LEMMA ClaimType ==
    ASSUME NEW A, NEW found \in Found(A), NEW e
    PROVE  ClaimRow(found.unclaimed, e) \in DOMAIN found.unclaimed
             => Claim(found, e) \in Found(A)
<1>1. CASE found.unclaimed = <<>>
  BY <1>1
<1>2. CASE found.unclaimed # <<>>
  <2>. DEFINE n == ClaimRow(found.unclaimed, e)
  <2>1. n \in DOMAIN found.unclaimed => RemoveAt(found.unclaimed, n) \in Seq(A)
    BY RowLeaves DEF Found
  <2>. HIDE DEF n
  <2>. QED
    BY <1>2, <2>1 DEF Claim, Found, n
<1>. QED
  BY <1>1, <1>2

LEMMA ClaimKeeps ==
    ASSUME NEW A, NEW found \in Found(A), NEW manifest, NEW S, NEW n \in S,
           FoundSoFar(manifest, found, S)
    PROVE  /\ Claim(found, manifest[n]) \in Found(A)
           /\ FoundSoFar(manifest, Claim(found, manifest[n]), S \ {n})
<1>. DEFINE rows == found.unclaimed
            e == manifest[n]
            c == ClaimRow(rows, e)
<1>1. PICK m : Paired(manifest, rows, S, m)
  BY DEF FoundSoFar
<1>2. rows \in Seq(A)
  BY DEF Found
<1>3. PICK p \in DOMAIN rows : m[p] = n
  BY <1>1 DEF Paired
<1>4. rows # <<>> /\ rows[p].verdict = e.expected_verdict
  BY <1>1, <1>3 DEF Paired
<1>5. c \in DOMAIN rows /\ rows[c].verdict = e.expected_verdict
  <2>. HIDE DEF rows, e
  <2>. QED
    BY <1>2, <1>4, RowClaimed
<1>6. \E r : Paired(manifest, RemoveAt(rows, c), S \ {n}, r)
  <2>. HIDE DEF rows, c
  <2>. QED
    BY <1>1, <1>2, <1>5, RestPaired
<1>7. Claim(found, e) \in Found(A)
  BY <1>5, ClaimType
<1>8. /\ Claim(found, e).unclaimed = RemoveAt(rows, c)
      /\ Claim(found, e).missing = found.missing
      /\ Claim(found, e).verdict_mismatches = found.verdict_mismatches + 0
  <2>. HIDE DEF c
  <2>. QED
    BY <1>4, <1>5 DEF Claim, c
<1>. QED
  BY <1>6, <1>7, <1>8 DEF FoundSoFar

(* What an expectation that is looked at leaves of those still to come.    *)
Left(mine, n) == {k \in mine : n < k}

LEMMA LeftToCome ==
    ASSUME NEW N \in Nat, NEW mine \in SUBSET (1 .. N)
    PROVE  /\ Left(mine, 0) = mine
           /\ \A n \in 1 .. N :
                /\ n \in mine => n \in Left(mine, n - 1) /\ Left(mine, n) = Left(mine, n - 1) \ {n}
                /\ n \notin mine => Left(mine, n) = Left(mine, n - 1)
<1>1. \A k \in mine : k \in Int /\ 0 < k
  OBVIOUS
<1>2. Left(mine, 0) = mine
  BY <1>1, Zenon DEF Left
<1>3. ASSUME NEW n \in 1 .. N
      PROVE  \A k \in mine : n - 1 < k <=> n < k \/ k = n
  BY <1>1
<1>4. ASSUME NEW n \in 1 .. N
      PROVE  /\ ~(n < n)
             /\ n \in mine => n \in Left(mine, n - 1)
  BY <1>3 DEF Left
<1>5. ASSUME NEW n \in 1 .. N, NEW k
      PROVE  /\ n \in mine => (k \in Left(mine, n) <=> k \in Left(mine, n - 1) /\ k # n)
             /\ n \notin mine => (k \in Left(mine, n) <=> k \in Left(mine, n - 1))
  <2>1. k \in mine => (n - 1 < k <=> n < k \/ k = n)
    BY <1>3
  <2>. QED
    BY <1>4, <2>1, Zenon DEF Left
<1>6. ASSUME NEW n \in 1 .. N, n \in mine
      PROVE  Left(mine, n) = Left(mine, n - 1) \ {n}
  BY <1>5, <1>6, Zenon
<1>7. ASSUME NEW n \in 1 .. N, n \notin mine
      PROVE  Left(mine, n) = Left(mine, n - 1)
  BY <1>5, <1>7, Zenon
<1>. QED
  BY <1>2, <1>4, <1>6, <1>7

(* The reconciler's rounds, on rows that answer the expectations mine.     *)
LEMMA NothingWrongFound ==
    ASSUME NEW manifest, Len(manifest) \in Nat, NEW mine \in SUBSET (1 .. Len(manifest)),
           NEW A, NEW rows \in Seq(A), NEW p0, Paired(manifest, rows, mine, p0)
    PROVE  LET r == Compare(manifest, mine, rows) IN r.verdict_mismatches = 0 /\ r.missing = 0
<1>. DEFINE N == Len(manifest)
            start == [unclaimed |-> rows, missing |-> 0, verdict_mismatches |-> 0,
                      rule_code_mismatches |-> 0]
            next(f, n) == IF n \in mine THEN Claim(f, manifest[n]) ELSE f
            (* the rounds stay in Found(A), where they are what they should be *)
            good(n) == {f \in Found(A) : FoundSoFar(manifest, f, Left(mine, n))}
            body == [n \in 1 .. N |->
                       [f \in Found(A) |-> IF f \in good(n - 1) THEN next(f, n) ELSE f]]
<1>11. N \in Nat /\ mine \in SUBSET (1 .. N)
  OBVIOUS
<1>12. /\ Left(mine, 0) = mine
       /\ \A n \in 1 .. N :
            /\ n \in mine => n \in Left(mine, n - 1) /\ Left(mine, n) = Left(mine, n - 1) \ {n}
            /\ n \notin mine => Left(mine, n) = Left(mine, n - 1)
  <2>. HIDE DEF N
  <2>. QED
    BY <1>11, LeftToCome
<1>1. start \in Found(A) /\ FoundSoFar(manifest, start, Left(mine, 0))
  <2>1. Left(mine, 0) = mine
    BY <1>12
  <2>2. FoundSoFar(manifest, start, mine)
    BY DEF FoundSoFar
  <2>. QED
    BY <2>1, <2>2 DEF Found
<1>2. ASSUME NEW n \in 1 .. N, NEW f \in good(n - 1)
      PROVE  next(f, n) \in good(n)
  <2>1. f \in Found(A) /\ FoundSoFar(manifest, f, Left(mine, n - 1))
    BY <1>2
  <2>2. CASE n \in mine
    <3>1. n \in Left(mine, n - 1) /\ Left(mine, n) = Left(mine, n - 1) \ {n}
      BY <1>12, <2>2
    <3>2. /\ Claim(f, manifest[n]) \in Found(A)
          /\ FoundSoFar(manifest, Claim(f, manifest[n]), Left(mine, n - 1) \ {n})
      BY <2>1, <3>1, ClaimKeeps
    <3>. QED
      BY <2>2, <3>1, <3>2
  <2>3. CASE n \notin mine
    <3>1. Left(mine, n) = Left(mine, n - 1)
      BY <1>12, <2>3
    <3>. QED
      BY <2>1, <2>3, <3>1
  <2>. QED
    BY <2>2, <2>3
<1>. HIDE DEF start, good, next
<1>3. body \in [1 .. N -> [Found(A) -> Found(A)]]
  <2>1. ASSUME NEW n \in 1 .. N, NEW f \in Found(A)
        PROVE  (IF f \in good(n - 1) THEN next(f, n) ELSE f) \in Found(A)
    <3>1. f \in good(n - 1) => next(f, n) \in good(n)
      BY <1>2
    <3>. QED
      BY <3>1 DEF good
  <2>. QED
    BY <2>1
<1>. HIDE DEF body
<1>4. PICK g : g \in [0 .. N -> Found(A)] /\ g[0] = start
                  /\ \A n \in 1 .. N : g[n] = body[n][g[n - 1]]
  <2>1. N \in Nat /\ start \in Found(A)
    BY <1>1, <1>11
  <2>. HIDE DEF N
  <2>2. \E g : LoopRun(g, N, Found(A), start, body)
    BY <2>1, <1>3, LoopExists
  <2>. QED
    BY <2>2 DEF LoopRun
<1>5. \A n \in 0 .. N : g[n] \in good(n)
  <2>. DEFINE S == {n \in 0 .. N : g[n] \in good(n)}
  <2>1. 0 \in S
    BY <1>1, <1>4 DEF good
  <2>2. ASSUME NEW n \in 0 .. N, n \in S, n < N
        PROVE  n + 1 \in S
    <3>1. n + 1 \in 1 .. N /\ n + 1 \in 0 .. N /\ (n + 1) - 1 = n /\ g[n] \in Found(A)
      BY <1>4, <2>2
    <3>2. g[n + 1] = body[n + 1][g[n]]
      BY <1>4, <3>1
    <3>3. body[n + 1][g[n]] = next(g[n], n + 1)
      BY <2>2, <3>1 DEF body
    <3>4. next(g[n], n + 1) \in good(n + 1)
      BY <1>2, <2>2, <3>1
    <3>. QED
      BY <3>1, <3>2, <3>3, <3>4
  <2>3. 0 .. N \subseteq S
    <3>. HIDE DEF S
    <3>. QED
      BY <2>1, <2>2, PrefixInduction
  <2>. QED
    BY <2>3
<1>6. \A n \in 1 .. N : n - 1 \in 0 .. N /\ g[n] = next(g[n - 1], n)
  BY <1>4, <1>5 DEF body
<1>. DEFINE Rounds(f) == f = [n \in 0 .. N |-> IF n = 0 THEN start ELSE next(f[n - 1], n)]
            after == CHOOSE f : Rounds(f)
<1>7. Rounds(g)
  BY <1>4, <1>6
<1>8. Rounds(after)
  <2>. HIDE DEF Rounds
  <2>. QED
    BY <1>7
<1>9. Compare(manifest, mine, rows) = after[N]
  BY DEF Compare, start, next
<1>10. after[N] \in good(N)
  <2>. DEFINE S == {n \in 0 .. N : after[n] \in good(n)}
  <2>. HIDE DEF after
  <2>1. after[0] = start /\ \A n \in 1 .. N : after[n] = next(after[n - 1], n)
    BY <1>8
  <2>2. 0 \in S
    BY <1>1, <2>1 DEF good
  <2>3. ASSUME NEW n \in 0 .. N, n \in S, n < N
        PROVE  n + 1 \in S
    <3>1. n + 1 \in 1 .. N /\ n + 1 \in 0 .. N /\ (n + 1) - 1 = n
      BY <2>3
    <3>2. next(after[n], n + 1) \in good(n + 1)
      BY <1>2, <2>3, <3>1
    <3>. QED
      BY <2>1, <3>1, <3>2
  <2>4. 0 .. N \subseteq S
    <3>. HIDE DEF S
    <3>. QED
      BY <2>2, <2>3, PrefixInduction
  <2>. QED
    BY <2>4
<1>. QED
  BY <1>9, <1>10 DEF good, FoundSoFar

LEMMA ReconcilerAgrees ==
    ASSUME WarehouseInv, NEW i \in DOMAIN batch, Foretold(i), NEW r \in Results(i)
    PROVE  r.verdict_mismatches = 0 /\ r.missing = 0
<1>1. FeedType /\ ManifestKept
  BY DEF WarehouseInv, FeedInv
<1>. DEFINE manifest == batch[i].manifest
            verdicts == batch[i].verdicts
<1>. DEFINE rowsIn(order) == [n \in DOMAIN order |-> verdicts[order[n]]]
            found(S) == {Compare(manifest, S, rowsIn(order)) : order \in Bijection(1 .. Cardinality(S), S)}
<1>2. PICK key \in Keys(i) : r \in found(IndexesOf(i, key))
  <2>1. Results(i) = UNION {found(IndexesOf(i, key)) : key \in Keys(i)}
    BY DEF Results
  <2>. HIDE DEF found
  <2>. QED
    BY <2>1
<1>. DEFINE mine == IndexesOf(i, key)
            c == Cardinality(mine)
<1>6. PICK order \in Bijection(1 .. c, mine) : r = Compare(manifest, mine, rowsIn(order))
  <2>. HIDE DEF rowsIn, mine
  <2>1. r \in found(mine)
    BY <1>2 DEF mine
  <2>. QED
    BY <2>1
<1>. DEFINE rows == rowsIn(order)
<1>3. manifest = BuildManifest(batch[i].events, batch[i].floor) /\ Len(manifest) \in Nat
      /\ DOMAIN manifest = DOMAIN batch[i].events /\ DOMAIN manifest = 1 .. Len(manifest)
  <2>1. manifest # <<>>
    BY <1>2 DEF Keys
  <2>2. manifest \in Seq(Expectation)
    BY <1>1, FeedFields DEF FeedType, BatchRow
  <2>3. manifest = BuildManifest(batch[i].events, batch[i].floor)
    BY <1>1, <2>1 DEF ManifestKept
  <2>. QED
    BY <2>2, <2>3 DEF BuildManifest
<1>4. mine \subseteq RowIndexes(i) \cap DOMAIN manifest
  BY <1>3 DEF IndexesOf, RowIndexes
<1>5. \A k \in mine : verdicts[k].verdict = manifest[k].expected_verdict
  BY <1>4 DEF Foretold
<1>. DEFINE A == {verdicts[k] : k \in mine}
<1>. HIDE DEF mine, c
<1>7. order \in [1 .. c -> mine] /\ (\A k \in mine : \E p \in 1 .. c : order[p] = k)
      /\ \A p, q \in 1 .. c : order[p] = order[q] => p = q
  BY <1>6 DEF Bijection, Injection, Surjection, IsInjective
<1>8. c \in Nat
  <2>1. IsFiniteSet(mine)
    <3>1. mine \subseteq 1 .. Len(manifest)
      BY <1>3, <1>4
    <3>2. IsFiniteSet(1 .. Len(manifest))
      BY <1>3, FS_Interval
    <3>. QED
      BY <3>1, <3>2, FS_Subset
  <2>. QED
    BY <2>1, FS_CardinalityType DEF c
<1>9. rows \in Seq(A) /\ DOMAIN rows = 1 .. c
  BY <1>7, <1>8
<1>10. Paired(manifest, rows, mine, order)
  BY <1>5, <1>7, <1>9 DEF Paired
<1>11. mine \in SUBSET (1 .. Len(manifest))
  BY <1>3, <1>4
<1>12. r = Compare(manifest, mine, rows)
  BY <1>6
<1>. HIDE DEF manifest, rows, A
<1>. QED
  BY <1>3, <1>9, <1>10, <1>11, <1>12, NothingWrongFound

(* The greedy choice of rows finds no fault with a warehouse that does what*)
(* the manifest of a batch in step promises: whatever order its rows come  *)
(* in, each expectation is given a row of its verdict.                     *)
THEOREM ReconcilerAgreesWithManifest == Spec => []ReconcileFindsNoWrongVerdict
<1>1. WarehouseInv => ReconcileFindsNoWrongVerdict
  <2>. SUFFICES ASSUME WarehouseInv, NEW i \in DOMAIN batch, InStep(i), NothingMatured(i),
                       NEW r \in Results(i)
                PROVE  r.verdict_mismatches = 0 /\ r.missing = 0
    BY DEF ReconcileFindsNoWrongVerdict
  <2>1. Foretold(i)
    BY CalmForetold DEF Calm
  <2>. QED
    BY <2>1, ReconcilerAgrees
<1>. QED
  BY <1>1, WarehouseInvariant, PTL
=============================================================================
