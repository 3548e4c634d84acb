------------------------ MODULE MerchantConfigProofs ------------------------
(***************************************************************************)
(* clamp makes of any row a configuration that validate accepts, leaves    *)
(* accepted ones alone, and gives up no setting that is legal by itself.   *)
(***************************************************************************)
EXTENDS MerchantConfig, TLAPS

LEMMA FieldNames ==
    Field = {"return_window_days", "max_discount_pct", "instant_refund_cap_usd",
             "manual_sla_hours", "emotion_hard_stop", "emotion_large_model",
             "high_value_order_usd", "max_negotiation_rounds", "max_session_turns",
             "abuse_negotiation_limit"}
BY DEF Field, Bounds, Between

(* The table itself is sound: every interval is one, its ends and the      *)
(* default are legal values of the field.                                  *)
LEMMA BoundsSound ==
    ASSUME NEW f \in Field
    PROVE  /\ Bounds[f].lo \in Nat /\ Bounds[f].hi \in Nat /\ Defaults[f] \in Nat
           /\ Bounds[f].lo <= Defaults[f] /\ Defaults[f] <= Bounds[f].hi
           /\ f \in IntField => /\ Bounds[f].lo % 100 = 0
                                /\ Bounds[f].hi % 100 = 0
                                /\ Defaults[f] % 100 = 0
BY FieldNames DEF Bounds, Defaults, IntField, Between

(* Truncation to a whole number, in hundredths.                            *)
LEMMA Truncation ==
    ASSUME NEW c \in Nat
    PROVE  /\ (c \div 100) * 100 \in Nat
           /\ (c \div 100) * 100 <= c
           /\ ((c \div 100) * 100) % 100 = 0
           /\ c % 100 = 0 => (c \div 100) * 100 = c
           /\ \A lo \in Nat : lo % 100 = 0 /\ lo <= c => lo <= (c \div 100) * 100
OBVIOUS

-----------------------------------------------------------------------------
(* One value: what clamp makes of it is legal, and it is itself if it was. *)
LEMMA ClampedValueLegal ==
    ASSUME NEW f \in Field, NEW raw
    PROVE  InBounds(f, ClampValue(f, raw)) /\ Whole(f, ClampValue(f, raw))
<1> DEFINE lo == Bounds[f].lo
           hi == Bounds[f].hi
           v == IF raw \in Int THEN raw ELSE Defaults[f]
           c == IF v < lo THEN lo ELSE IF v > hi THEN hi ELSE v
<1>1. lo \in Nat /\ hi \in Nat /\ lo <= hi /\ v \in Int
  BY BoundsSound
<1>2. c \in Nat /\ lo <= c /\ c <= hi
  BY <1>1
<1>3. CASE f \in IntField
  <2>1. ClampValue(f, raw) = (c \div 100) * 100
    BY <1>3 DEF ClampValue
  <2>2. lo % 100 = 0
    BY <1>3, BoundsSound
  <2> HIDE DEF c, lo, hi
  <2>3. /\ (c \div 100) * 100 \in Nat /\ (c \div 100) * 100 <= c
        /\ lo <= (c \div 100) * 100 /\ ((c \div 100) * 100) % 100 = 0
    BY <1>1, <1>2, <2>2, Truncation
  <2>4. (c \div 100) * 100 <= hi
    BY <1>1, <1>2, <2>3
  <2> QED
    BY <1>1, <2>1, <2>3, <2>4 DEF InBounds, Whole, lo, hi
<1>4. CASE f \notin IntField
  <2>1. ClampValue(f, raw) = c
    BY <1>4 DEF ClampValue
  <2> QED
    BY <1>1, <1>2, <1>4, <2>1 DEF InBounds, Whole
<1> QED
  BY <1>3, <1>4

LEMMA LegalValueKept ==
    ASSUME NEW f \in Field, NEW raw, InBounds(f, raw), Whole(f, raw)
    PROVE  ClampValue(f, raw) = raw
<1>1. raw \in Nat /\ Bounds[f].lo <= raw /\ raw <= Bounds[f].hi
  BY BoundsSound DEF InBounds
<1>2. ~(raw < Bounds[f].lo) /\ ~(raw > Bounds[f].hi)
  BY <1>1, BoundsSound
<1>3. f \in IntField => (raw \div 100) * 100 = raw
  BY <1>1, Truncation DEF Whole
<1> QED
  BY <1>1, <1>2, <1>3 DEF ClampValue

-----------------------------------------------------------------------------
(* The thresholds: repairing their order touches nothing but that of the   *)
(* large model, which it lowers and leaves legal.                          *)
LEMMA OrderedEmotions ==
    ASSUME NEW values \in [Field -> Int],
           \A f \in Field : InBounds(f, values[f]) /\ Whole(f, values[f])
    PROVE  /\ OrderEmotions(values) \in [Field -> Int]
           /\ \A f \in Field : /\ InBounds(f, OrderEmotions(values)[f])
                               /\ Whole(f, OrderEmotions(values)[f])
           /\ \A f \in Field \ {"emotion_large_model"} :
                 OrderEmotions(values)[f] = values[f]
           /\ OrderEmotions(values).emotion_large_model <= values.emotion_large_model
           /\ RaisesInTime(OrderEmotions(values))
           /\ RaisesInTime(values) => OrderEmotions(values) = values
<1> DEFINE large == values["emotion_large_model"]
           stop == values["emotion_hard_stop"]
<1>1. /\ "emotion_large_model" \in Field /\ "emotion_hard_stop" \in Field
      /\ "emotion_large_model" \notin IntField
  BY FieldNames DEF IntField
<1>2. /\ large \in Int /\ 20 <= large /\ large <= 80
      /\ stop \in Int /\ 50 <= stop /\ stop <= 90
  BY <1>1 DEF InBounds, Bounds, Between
<1>3. CASE large < stop
  <2>1. OrderEmotions(values) = values
    BY <1>3 DEF OrderEmotions
  <2> QED
    BY <1>1, <1>2, <1>3, <2>1 DEF RaisesInTime
<1>4. CASE ~(large < stop)
  <2>1. Bounds.emotion_large_model.lo = 20
    BY DEF Bounds, Between
  <2>2. OrderEmotions(values) = [values EXCEPT !["emotion_large_model"] = stop - 1]
    <3>1. ~(stop - 1 < 20)
      BY <1>2
    <3> QED
      BY <1>4, <2>1, <3>1 DEF OrderEmotions, EmotionGap
  <2>3. InBounds("emotion_large_model", stop - 1)
    BY <1>2, <1>4 DEF InBounds, Bounds, Between
  <2>4. ~RaisesInTime(values)
    BY <1>2, <1>4 DEF RaisesInTime
  <2>5. stop - 1 \in Int /\ stop - 1 <= large /\ stop - 1 < stop
    BY <1>2, <1>4
  <2> DEFINE new == OrderEmotions(values)
  <2>6. /\ new \in [Field -> Int]
        /\ new["emotion_large_model"] = stop - 1
        /\ \A f \in Field \ {"emotion_large_model"} : new[f] = values[f]
    BY <1>1, <2>2, <2>5
  <2>7. ASSUME NEW f \in Field
        PROVE  InBounds(f, new[f]) /\ Whole(f, new[f])
    BY <1>1, <2>3, <2>6, <2>7 DEF Whole
  <2>8. RaisesInTime(new)
    BY <1>1, <2>5, <2>6 DEF RaisesInTime
  <2> QED
    BY <2>4, <2>5, <2>6, <2>7, <2>8
<1> QED
  BY <1>3, <1>4

-----------------------------------------------------------------------------
(* The rules: what is left has a text, is known, and holds the protected.  *)
LegalRules(rules) ==
    /\ ImmutableRules \subseteq DOMAIN rules
    /\ \A c \in DOMAIN rules : c \in RuleCodes /\ rules[c] # Blank

LEMMA PlatformNotBlank == Platform # Blank
BY MerchantConfigAssumption

LEMMA ClampedRulesLegal ==
    ASSUME NEW rules
    PROVE  LegalRules(ClampRules(rules))
<1> DEFINE codes == (DOMAIN rules \cap RuleCodes) \cup ImmutableRules
<1>1. codes \subseteq RuleCodes
  BY DEF RuleCodes, ImmutableRules
<1>2. DOMAIN ClampRules(rules) = codes
  BY DEF ClampRules
<1>3. ASSUME NEW c \in codes
      PROVE  ClampRules(rules)[c] # Blank
  BY PlatformNotBlank DEF ClampRules
<1> QED
  BY <1>1, <1>2, <1>3 DEF LegalRules

(* validate in terms of these.                                             *)
LEMMA ValidParts ==
    ASSUME NEW row
    PROVE  Valid(row) <=>
             /\ \A f \in Field : InBounds(f, row.values[f]) /\ Whole(f, row.values[f])
             /\ RaisesInTime(row.values)
             /\ LegalRules(row.rules)
             /\ row.note # Blank
BY DEF Valid, Violations, LegalRules

-----------------------------------------------------------------------------
(* Whatever a row holds, clamp makes a configuration of it that validate   *)
(* accepts: within every bound, with the protected rules, with a text for  *)
(* each rule and for the note (merchant.clamp never raises and never lets  *)
(* a bad row through).                                                     *)
THEOREM ClampIsValid ==
    ASSUME NEW row
    PROVE  Valid(Clamp(row))
<1> DEFINE values == [f \in Field |-> ClampValue(f, row.values[f])]
<1>1. \A f \in Field : InBounds(f, values[f]) /\ Whole(f, values[f])
  BY ClampedValueLegal
<1>2. values \in [Field -> Int]
  BY <1>1 DEF InBounds
<1> HIDE DEF values
<1>3. /\ \A f \in Field : /\ InBounds(f, OrderEmotions(values)[f])
                          /\ Whole(f, OrderEmotions(values)[f])
      /\ RaisesInTime(OrderEmotions(values))
  BY <1>1, <1>2, OrderedEmotions
<1>4. /\ Clamp(row).values = OrderEmotions(values)
      /\ Clamp(row).rules = ClampRules(row.rules)
      /\ Clamp(row).note = IF row.note # Blank THEN row.note ELSE Platform
  BY DEF Clamp, values
<1>5. Clamp(row).note # Blank
  BY <1>4, PlatformNotBlank
<1> QED
  BY <1>3, <1>4, <1>5, ClampedRulesLegal, ValidParts

(* A value that is legal by itself survives, whatever else is wrong with   *)
(* the row; the threshold of the large model may be lowered, that of the   *)
(* hard stop is never moved by it.                                         *)
THEOREM ClampKeepsSettings ==
    ASSUME NEW row, NEW f \in Field \ {"emotion_large_model"},
           InBounds(f, row.values[f]), Whole(f, row.values[f])
    PROVE  Clamp(row).values[f] = row.values[f]
<1> DEFINE values == [g \in Field |-> ClampValue(g, row.values[g])]
<1>1. \A g \in Field : InBounds(g, values[g]) /\ Whole(g, values[g])
  BY ClampedValueLegal
<1>2. values \in [Field -> Int]
  BY <1>1 DEF InBounds
<1>3. values[f] = row.values[f]
  BY LegalValueKept
<1> HIDE DEF values
<1>4. OrderEmotions(values)[f] = values[f]
  BY <1>1, <1>2, OrderedEmotions
<1>5. Clamp(row).values = OrderEmotions(values)
  BY DEF Clamp, values
<1> QED
  BY <1>3, <1>4, <1>5

(* A configuration that validate accepts is left as it is: what a merchant *)
(* publishes is what conversations are held to.                            *)
THEOREM ClampKeepsValid ==
    ASSUME NEW values \in [Field -> Int], NEW codes, NEW texts,
           NEW rules \in [codes -> texts], NEW note,
           Valid([values |-> values, rules |-> rules, note |-> note])
    PROVE  Clamp([values |-> values, rules |-> rules, note |-> note])
           = [values |-> values, rules |-> rules, note |-> note]
<1> DEFINE row == [values |-> values, rules |-> rules, note |-> note]
           clamped == [f \in Field |-> ClampValue(f, values[f])]
<1>1. /\ \A f \in Field : InBounds(f, values[f]) /\ Whole(f, values[f])
      /\ RaisesInTime(values)
      /\ LegalRules(rules)
      /\ note # Blank
  BY ValidParts
<1>2. clamped = values
  BY <1>1, LegalValueKept
<1>3. OrderEmotions(values) = values
  BY <1>1, OrderedEmotions
<1>4. ClampRules(rules) = rules
  <2>1. (DOMAIN rules \cap RuleCodes) \cup ImmutableRules = codes /\ DOMAIN rules = codes
    BY <1>1 DEF LegalRules
  <2>2. \A c \in codes : rules[c] # Blank
    BY <1>1, <2>1 DEF LegalRules
  <2>3. ClampRules(rules) = [c \in codes |-> rules[c]]
    BY <2>1, <2>2 DEF ClampRules
  <2> QED
    BY <2>3
<1>5. Clamp(row) = [values |-> OrderEmotions(clamped), rules |-> ClampRules(rules),
                    note |-> note]
  BY <1>1 DEF Clamp
<1> QED
  BY <1>2, <1>3, <1>4, <1>5
=============================================================================
