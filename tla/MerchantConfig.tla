--------------------------- MODULE MerchantConfig ---------------------------
(***************************************************************************)
(* The values of a merchant's configuration (merchant.py): validate is the *)
(* gate of publications, clamp repairs whatever a row holds when it is     *)
(* read.  Numbers are in hundredths; one that is no finite number is NaN.  *)
(* A text is what matters of it: blank or not, the platform's or not.      *)
(***************************************************************************)
EXTENDS Integers

CONSTANTS NaN, Blank, Platform, Texts

ASSUME MerchantConfigAssumption ==
    NaN \notin Int /\ Blank \notin Texts /\ Platform \in Texts

Between(lo, hi) == [lo |-> lo, hi |-> hi]

Bounds == [return_window_days |-> Between(700, 36500),
           max_discount_pct |-> Between(0, 50),
           instant_refund_cap_usd |-> Between(0, 50000),
           manual_sla_hours |-> Between(100, 4800),
           emotion_hard_stop |-> Between(50, 90),
           emotion_large_model |-> Between(20, 80),
           high_value_order_usd |-> Between(2000, 500000),
           max_negotiation_rounds |-> Between(100, 300),
           max_session_turns |-> Between(400, 2000),
           abuse_negotiation_limit |-> Between(200, 1000)]

Field == DOMAIN Bounds

IntField == {"return_window_days", "manual_sla_hours", "max_negotiation_rounds",
             "max_session_turns", "abuse_negotiation_limit"}

Defaults == [return_window_days |-> 3000, max_discount_pct |-> 30,
             instant_refund_cap_usd |-> 5000, manual_sla_hours |-> 200,
             emotion_hard_stop |-> 70, emotion_large_model |-> 45,
             high_value_order_usd |-> 20000, max_negotiation_rounds |-> 200,
             max_session_turns |-> 800, abuse_negotiation_limit |-> 300]

EmotionGap == 1

RuleCodes == {"R-WINDOW", "R-FINAL", "R-HYGIENE", "R-USED", "R-DAMAGE"}

ImmutableRules == {"R-DAMAGE"}

BuiltinFields == [values |-> Defaults, rules |-> [c \in RuleCodes |-> Platform],
                  note |-> Platform]

-----------------------------------------------------------------------------
(* validate: the fields and rules that are wrong, none if the row may be   *)
(* stored.                                                                 *)

InBounds(f, v) == v \in Int /\ Bounds[f].lo <= v /\ v <= Bounds[f].hi

Whole(f, v) == f \in IntField => v % 100 = 0

RaisesInTime(values) ==
    LET large == values.emotion_large_model  stop == values.emotion_hard_stop IN
    large \in Int /\ stop \in Int => large < stop

Violations(row) ==
    {f \in Field : ~(InBounds(f, row.values[f]) /\ Whole(f, row.values[f]))}
    \cup {f \in {"emotion_large_model"} : ~RaisesInTime(row.values)}
    \cup (ImmutableRules \ DOMAIN row.rules)
    \cup {c \in DOMAIN row.rules : c \notin RuleCodes \/ row.rules[c] = Blank}
    \cup {f \in {"exceptions_note"} : row.note = Blank}

Valid(row) == Violations(row) = {}

-----------------------------------------------------------------------------
(* clamp, field by field.                                                  *)

ClampValue(f, raw) ==
    LET b == Bounds[f]
        v == IF raw \in Int THEN raw ELSE Defaults[f]
        c == IF v < b.lo THEN b.lo ELSE IF v > b.hi THEN b.hi ELSE v
    IN  IF f \in IntField THEN (c \div 100) * 100 ELSE c

(* Slip: the threshold of the safety rule gives way.                       *)
OrderEmotionsUpwards(values) ==
    IF values.emotion_large_model < values.emotion_hard_stop THEN values
    ELSE [values EXCEPT !.emotion_hard_stop = values.emotion_large_model + EmotionGap]

(* The threshold of the large model is put below that of the hard stop,    *)
(* which is a safety rule and stays.                                       *)
OrderEmotions(values) ==
    LET below == values.emotion_hard_stop - EmotionGap
        lo == Bounds.emotion_large_model.lo
    IN  IF values.emotion_large_model < values.emotion_hard_stop THEN values
        ELSE [values EXCEPT !.emotion_large_model = IF below < lo THEN lo ELSE below]

(* Slip: what is missing stays missing.                                    *)
ClampRulesAsTheyAre(rules) ==
    [c \in DOMAIN rules \cap RuleCodes |-> IF rules[c] # Blank THEN rules[c] ELSE Platform]

(* Unknown codes go, blank texts become the platform's, and the protected  *)
(* rules are put back.                                                     *)
ClampRules(rules) ==
    [c \in (DOMAIN rules \cap RuleCodes) \cup ImmutableRules |->
        IF c \in DOMAIN rules /\ rules[c] # Blank THEN rules[c] ELSE Platform]

Clamp(row) ==
    [values |-> OrderEmotions([f \in Field |-> ClampValue(f, row.values[f])]),
     rules |-> ClampRules(row.rules),
     note |-> IF row.note # Blank THEN row.note ELSE Platform]
=============================================================================
