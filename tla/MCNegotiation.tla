---------------------------- MODULE MCNegotiation ----------------------------
(* Instances of Negotiation for TLC.                                        *)
EXTENDS Negotiation, TLC

CONSTANTS r1, r2, recent, old, foreign, alice, bob, carol

Item == [days |-> 5, total |-> 4000, negotiated |-> 0, category |-> "electronics",
         names |-> {"lamp", "LMP-1"}, finalSale |-> FALSE, opened |-> TRUE, used |-> TRUE,
         repairable |-> FALSE, sizes |-> FALSE, video |-> FALSE]

(* old is past the 60 days, and was haggled over before.                    *)
TwoOrders ==
    [o \in OrderId |->
        IF o = old THEN [Item EXCEPT !.days = 70, !.negotiated = 3] ELSE Item]

(* Two orders are alice's.  bob has none, and nobody names carol.           *)
Owners == [o \in OrderId |-> IF o = foreign THEN carol ELSE alice]

Calm == [risk |-> FALSE, returns |-> 0, vip |-> FALSE]

Trusted == [c \in CustomerId |-> Calm]

AliceFlagged == [c \in CustomerId |-> [Calm EXCEPT !.risk = c = alice]]

(* The defaults, with four turns and the window rule switched off, so that  *)
(* an old order can still be eligible.                                      *)
Shop == [window |-> 30, rules |-> Rules \ {"R-WINDOW"}, discount |-> 30,
         refundCap |-> 5000, hardStop |-> 70, largeModel |-> 45, highValue |-> 20000,
         abuseLimit |-> 3, maxRounds |-> 2, maxTurns |-> 4]

(* One round and three turns: the limits come soon, so turns may overlap.   *)
SmallShop == [Shop EXCEPT !.maxRounds = 1, !.maxTurns = 3]

AfterOneAttempt == [enabled |-> TRUE, min |-> 0, max |-> 5000, attempts |-> 1]

UsageIsSpecial == {[scope |-> "scenario", match |-> "usage_issue"]}

NoSpecial == {}

Said(why, asks, anger) == [reason |-> why, asks |-> asks, emotion |-> anger]

(* Small talk, "I want to return it", "it broke", "how does it work", fury. *)
AllMessages == {Said("unknown", FALSE, 0), Said("unknown", TRUE, 0),
                Said("damaged", TRUE, 0), Said("usage", FALSE, 0),
                Said("unknown", TRUE, 85)}

FewMessages == {Said("usage", FALSE, 0), Said("unknown", TRUE, 85)}

Heard(i, why, anger) == [intent |-> i, reason |-> why, emotion |-> anger]

(* The fallback, a hand-over, an angry customer the rules did not notice.   *)
Answers == {Heard("return", "unknown", 30), Heard("other", "unknown", 10),
            Heard("return", "value_gap", 75)}

Perms == Permutations(Slot)
=============================================================================
