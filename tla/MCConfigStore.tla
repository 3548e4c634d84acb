---------------------------- MODULE MCConfigStore ----------------------------
(* Instances of ConfigStore for TLC.                                        *)
EXTENDS ConfigStore, TLC

CONSTANTS w1, w2, r1, r2, s1, s2, off, on, own

TwoTexts == {Platform, own}

(* The second policy asks for a window of six days, which the endpoint     *)
(* lets through and validate does not.                                     *)
Policies == {[window |-> 6000, cap |-> 50000, auto |-> on, note |-> own,
              rules |-> ("R-FINAL" :> own)],
             [window |-> 600, cap |-> 5000, auto |-> off, note |-> Platform,
              rules |-> ("R-FINAL" :> own)]}

(* A row that is out of bounds, holds no number where one should be, calls *)
(* the large model too late, lacks the protected rule and has an unknown   *)
(* one, with blank texts.                                                  *)
Broken == [values |-> [Defaults EXCEPT !.max_discount_pct = -10, !.manual_sla_hours = NaN,
                                       !.emotion_large_model = 75],
           rules |-> ("R-FINAL" :> Blank) @@ ("R-OTHER" :> own),
           note |-> Blank]

Seeds == {[fields |-> Broken, auto |-> NoAuto]}

NoSeeds == {}

Perms == Permutations(Worker) \cup Permutations(Slot)
=============================================================================
