------------------------------ MODULE MCMetrics ------------------------------
(* Instances of Metrics for TLC.                                            *)
EXTENDS Metrics, TLC

CONSTANTS r1, r2, s1, s2, s3

TwoOffers == {<<"value_gap", "offer_compensation">>,
              <<"product_damage", "offer_repair_exchange">>}

Perms == Permutations(Slot) \cup Permutations(Session \ Control)
=============================================================================
