-------------------------------- MODULE Policy --------------------------------
(***************************************************************************)
(* The policy engine (policy.py) and the choice of a generation tier       *)
(* (llm.route_generation): deterministic functions of an order, a customer *)
(* and a merchant configuration.  Money is in cents, emotion and discounts *)
(* in percent.  Amounts of half a cent round up; Python rounds the binary  *)
(* fraction, which may go either way.                                      *)
(***************************************************************************)
EXTENDS Integers, FiniteSets

CONSTANT NoAuto   \* the auto_refund of a tenant that has not published any

Rules == {"R-WINDOW", "R-FINAL", "R-HYGIENE", "R-USED", "R-DAMAGE"}

Reasons == {"size_fit", "damaged", "quality", "value_gap", "usage",
            "changed_mind", "unknown"}

Scenarios == {"not_eligible", "usage_issue", "value_gap", "product_damage",
              "emotional_insist"}

Actions == {"send_guide", "offer_compensation", "offer_repair_exchange",
            "decline_with_rules", "instant_refund", "escalate_human",
            "standard_return"}

Percent(amount, p) == (amount * p + 50) \div 100
Least(a, b) == IF a <= b THEN a ELSE b

ValueCap(order, cfg) == Percent(order.total, cfg.discount)

(* pick_candidate_orders: the orders a customer is asked to choose from.   *)
IsCandidate(order) == order.days <= 60

(* check_eligibility: the rules an order violates; none if the reason is   *)
(* exempt.  A rule the merchant has disabled is not in cfg.rules.          *)
Hygienic == {"innerwear", "swimwear"}
Sized == {"apparel", "footwear"}

Exempt(reason) == reason \in {"damaged", "quality"}

Violates(order, reason, rule, cfg) ==
    \/ rule = "R-WINDOW" /\ order.days > cfg.window
    \/ rule = "R-FINAL" /\ order.finalSale
    \/ rule = "R-HYGIENE" /\ order.category \in Hygienic /\ order.opened
    \/ rule = "R-USED" /\ order.used /\ reason = "changed_mind"

Violated(order, reason, cfg) ==
    {rule \in cfg.rules : ~Exempt(reason) /\ Violates(order, reason, rule, cfg)}

(* classify_scenario: anger before the rules, the rules before the reason. *)
ClassifyScenario(reason, emotion, violated, cfg) ==
    IF emotion >= cfg.hardStop THEN "emotional_insist"
    ELSE IF violated # {} THEN "not_eligible"
    ELSE IF Exempt(reason) THEN "product_damage"
    ELSE IF reason = "usage" THEN "usage_issue"
    ELSE "value_gap"

(* matching_special_rules: names are the product's name and its SKU.       *)
SpecialRules(order, scenario, special) ==
    {rule \in special :
        \/ rule.scope = "product" /\ rule.match \in order.names
        \/ rule.scope = "category" /\ rule.match = order.category
        \/ rule.scope = "scenario" /\ rule.match = scenario}

(* triage_refund.                                                          *)
Anomalies(order, customer, violated, cfg) ==
    {a \in {"customer_risk_flag", "high_return_frequency", "outside_window",
            "not_eligible"} :
        \/ a = "customer_risk_flag" /\ customer.risk
        \/ a = "high_return_frequency" /\ customer.returns >= 4
        \/ a = "outside_window" /\ order.days > cfg.window
        \/ a = "not_eligible" /\ violated # {}}

AutoQualified(order, cfg, auto, round) ==
    IF auto = NoAuto
    THEN order.total <= cfg.refundCap
    ELSE /\ auto.enabled
         /\ auto.min <= order.total
         /\ order.total <= auto.max
         /\ round >= auto.attempts

(* Slip: anomalies are reported but do not stop the refund.                *)
TriageRefundAnyway(order, customer, violated, round, cfg, auto) ==
    IF AutoQualified(order, cfg, auto, round) THEN "instant_refund" ELSE "escalate_human"

TriageRefund(order, customer, violated, round, cfg, auto) ==
    IF /\ AutoQualified(order, cfg, auto, round)
       /\ Anomalies(order, customer, violated, cfg) = {}
    THEN "instant_refund"
    ELSE "escalate_human"

(* build_resolution: the action, and the offers the model may choose from. *)
OfferIds == {"CREDIT", "REFUND_PARTIAL", "FREE_EXCHANGE", "PARTIAL_KEEP", "FREE_REPAIR",
             "SEND_GUIDE", "LIVE_ONBOARDING", "SEND_VIDEO_GUIDE", "GOODWILL_COUPON",
             "PAID_REPAIR"}

Proposal == [id : OfferIds, value : Nat]

Offer(id, amount) == [id |-> id, value |-> amount]

AbuseCooldown(order, customer, cfg) ==
    customer.risk \/ order.negotiated >= cfg.abuseLimit

(* Slip: the ladder goes down.                                             *)
CreditStepDown(round) == IF round >= 2 THEN 15 ELSE 25

CreditStep(round) == IF round >= 2 THEN 25 ELSE 15

CreditOffers(order, round, cfg) ==
    LET credit == Least(Percent(order.total, CreditStep(round)), ValueCap(order, cfg))
    IN  {Offer("CREDIT", credit), Offer("REFUND_PARTIAL", credit)}
          \cup IF order.category \in Sized /\ order.sizes
               THEN {Offer("FREE_EXCHANGE", 0)} ELSE {}

DamageOffers(order, cfg) ==
    {Offer("FREE_EXCHANGE", 0),
     Offer("PARTIAL_KEEP", Least(Percent(order.total, 25), ValueCap(order, cfg)))}
      \cup IF order.repairable THEN {Offer("FREE_REPAIR", 0)} ELSE {}

UsageOffers(order) ==
    {Offer("SEND_GUIDE", 0), Offer("LIVE_ONBOARDING", 0)}
      \cup IF order.video THEN {Offer("SEND_VIDEO_GUIDE", 0)} ELSE {}

DeclineOffers(order, cfg) ==
    {Offer("GOODWILL_COUPON", Least(Percent(order.total, 10), ValueCap(order, cfg)))}
      \cup IF order.repairable THEN {Offer("PAID_REPAIR", 0)} ELSE {}

Resolution(action, offers) == [action |-> action, offers |-> offers]

BuildResolution(order, customer, scenario, violated, round, cfg, auto) ==
    CASE scenario = "not_eligible" ->
           Resolution("decline_with_rules", DeclineOffers(order, cfg))
      [] scenario = "usage_issue" ->
           Resolution("send_guide", UsageOffers(order))
      [] scenario = "product_damage" ->
           Resolution("offer_repair_exchange", DamageOffers(order, cfg))
      [] scenario = "value_gap" ->
           IF AbuseCooldown(order, customer, cfg)
           THEN Resolution("standard_return", {})
           ELSE Resolution("offer_compensation", CreditOffers(order, round, cfg))
      [] scenario = "emotional_insist" ->
           Resolution(TriageRefund(order, customer, violated, round, cfg, auto), {})

(* llm.route_generation, as long as the conversation's budget lasts.       *)
RouteGeneration(scenario, emotion, order, round, customer, cfg) ==
    IF scenario \in {"not_eligible", "emotional_insist"} THEN "none"
    ELSE IF \/ emotion >= cfg.largeModel
            \/ order.total >= cfg.highValue
            \/ round >= 2
            \/ customer.vip /\ order.total >= 8000
    THEN "large"
    ELSE "small"
=============================================================================
