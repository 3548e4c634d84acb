----------------------------- MODULE Negotiation -----------------------------
(***************************************************************************)
(* POST /api/negotiate (app._negotiate): one conversation, whose turns     *)
(* share the session object of one worker process.  A slot is a turn being *)
(* served on a pool thread.  A turn leaves the process when it asks a      *)
(* model, reads the customer, the customer's orders or the order it is     *)
(* about, opens a ticket or commits a refund: other turns of the same      *)
(* conversation then run in between, and may change the customer and the   *)
(* order that the session holds.  They also run in between the reading and *)
(* the writing of session.emotion.                                         *)
(*                                                                         *)
(* What the client is told is kept in offers, refunds, tickets and freed.  *)
(* The session's stage, texts and costs are not modelled: no step reads    *)
(* the stage, and the cost only decides that the budget is exhausted,      *)
(* which is left open.                                                     *)
(***************************************************************************)
EXTENDS Policy, Sequences

CONSTANTS
    Slot,          \* turns served at the same time
    OrderId,       \* order numbers a customer may send
    OrderOf,       \* order number -> the order
    Owner,         \* order number -> the customer whose order it is
    CustomerId,    \* customers
    Customer,      \* customer -> the attributes on record, or the defaults
    OrdersInTable, \* production: orders and customers are read from Postgres
    Config,        \* the configuration the session is pinned to
    AutoRefund,    \* its automatic refund policy, or NoAuto
    Special,       \* its special rules
    Message,       \* the messages a customer may send
    ModelAnswer,   \* the small model's answers, its fallback included
    Names,         \* customers a request may name; None: it names nobody
    MaxFaults,     \* bound on failed reads and commits
    None

ASSUME NegotiationAssumption ==
    /\ IsFiniteSet(Slot)
    /\ None \notin OrderId \cup CustomerId
    /\ Owner \in [OrderId -> CustomerId]
    /\ OrdersInTable \in BOOLEAN
    /\ OrderOf \in [OrderId -> [days : Nat, total : Nat, negotiated : Nat,
            category : STRING, names : SUBSET STRING, finalSale : BOOLEAN,
            opened : BOOLEAN, used : BOOLEAN, repairable : BOOLEAN,
            sizes : BOOLEAN, video : BOOLEAN]]
    /\ Customer \in [CustomerId -> [risk : BOOLEAN, returns : Nat, vip : BOOLEAN]]
    /\ Config \in [window : Nat, rules : SUBSET Rules, discount : Nat,
            refundCap : Nat, hardStop : 1..100, largeModel : 0..100,
            highValue : Nat, abuseLimit : Nat, maxRounds : Nat \ {0}, maxTurns : Nat]
    /\ ModelAnswer \subseteq
         [intent : {"return", "concern", "other"}, reason : Reasons, emotion : 0..100]
    /\ Message \subseteq [reason : Reasons, asks : BOOLEAN, emotion : 0..100]
    /\ Names \subseteq CustomerId \cup {None}
    /\ AutoRefund = NoAuto \/ AutoRefund \in [enabled : BOOLEAN, min : Nat, max : Nat, attempts : Nat]
    /\ MaxFaults \in Nat

VARIABLES
    pc,         \* slot -> where its turn is
    req,        \* slot -> the request it serves
    heard,      \* slot -> the intent it heard and the emotion it will write
    customer,   \* slot -> the customer it has read, and whether the session was
                \*         given to another while it was reading the orders
    subject,    \* slot -> the order it is about
    missing,    \* slot -> what it took for empty because a read failed
    plan,       \* slot -> the resolution it is about to offer
    turns, round, intent, reason, emotion, customerId, orderId, outcome,  \* the session
    holdout,    \* the session is in the control group
    offers,     \* the offers made, in order
    refunds,    \* orders refunded, and what the turn had missed and read
    tickets,    \* orders sent to a specialist
    confirmed,  \* orders the customer has named
    freed,      \* the customer was let go: a return, a refund or a specialist
    faults

local == <<pc, req, heard, customer, subject, missing, plan>>
session == <<turns, round, intent, reason, emotion, customerId, orderId, outcome>>
told == <<offers, refunds, tickets, freed>>
vars == <<local, session, holdout, told, confirmed, faults>>

-----------------------------------------------------------------------------
(* A request may name a customer: the session's, another one, or nobody.   *)
(* What it says is not read if it asks for the way out.                    *)
Request ==
    LET Asking(anyway, message) ==
            [anyway : anyway, names : Names, confirm : OrderId \cup {None},
             message : message]
    IN  Asking({FALSE}, Message) \cup Asking({TRUE}, {None})

(* How angry the customer was known to be, or sounded, when a turn began.  *)
Mood(m) == IF emotion >= Config.hardStop THEN "recorded"
           ELSE IF m.emotion >= Config.hardStop THEN "voiced" ELSE "calm"

NoRequest == [confirm |-> None, mood |-> "calm"]
Nobody == [id |-> None, swapped |-> FALSE]
NoPlan == [scenario |-> "none", offers |-> {}]

Reads == {"customer", "extras"}

(* The turns that have read the customer, and not yet settled the order.   *)
Reading == {"orders", "order", "confirm"}

At(r, where) == pc[r] = where
Goto(r, where) == pc' = [pc EXCEPT ![r] = where]

Answered(r) ==
    /\ Goto(r, "idle")
    /\ req' = [req EXCEPT ![r] = NoRequest]
    /\ heard' = [heard EXCEPT ![r] = None]
    /\ customer' = [customer EXCEPT ![r] = Nobody]
    /\ subject' = [subject EXCEPT ![r] = None]
    /\ missing' = [missing EXCEPT ![r] = {}]
    /\ plan' = [plan EXCEPT ![r] = NoPlan]

Fault == faults < MaxFaults /\ faults' = faults + 1

Init ==
    /\ pc = [r \in Slot |-> "idle"]
    /\ req = [r \in Slot |-> NoRequest]
    /\ heard = [r \in Slot |-> None]
    /\ customer = [r \in Slot |-> Nobody]
    /\ subject = [r \in Slot |-> None]
    /\ missing = [r \in Slot |-> {}]
    /\ plan = [r \in Slot |-> NoPlan]
    /\ turns = 0 /\ round = 0
    /\ intent = "none" /\ reason = "none" /\ emotion = 0
    /\ customerId = None /\ orderId = None /\ outcome = "none"
    /\ holdout \in BOOLEAN
    /\ offers = <<>> /\ refunds = {} /\ tickets = {} /\ freed = FALSE
    /\ confirmed = {}
    /\ faults = 0

-----------------------------------------------------------------------------
(* A request arrives.  turns is only compared with maxTurns: it stops one  *)
(* above.                                                                  *)
Receive(q) ==
    /\ turns' = Least(turns + 1, Config.maxTurns + 1)
    /\ customerId' = IF q.names = None THEN customerId ELSE q.names
    /\ customer' = IF customerId' = customerId THEN customer
                   ELSE [s \in Slot |->
                           [customer[s] EXCEPT !.swapped = @ \/ pc[s] \in Reading]]
    /\ confirmed' = confirmed \cup ({q.confirm} \ {None})

(* Slips: one round too many; the turn limit is forgotten.                 *)
MustReleaseLate(q) == q.anyway \/ round > Config.maxRounds \/ turns' > Config.maxTurns
MustReleaseByRound(q) == q.anyway \/ round >= Config.maxRounds

MustRelease(q) == q.anyway \/ round >= Config.maxRounds \/ turns' > Config.maxTurns

(* _release: the way out, the round limit and the turn limit.              *)
ArriveReleased(r, q) ==
    /\ At(r, "idle")
    /\ Receive(q)
    /\ MustRelease(q)
    /\ outcome' = "released"
    /\ freed' = TRUE
    /\ UNCHANGED <<pc, req, heard, subject, missing, plan, round, intent, reason, emotion,
                   orderId, holdout, offers, refunds, tickets, faults>>

Enter(r, q, where) ==
    /\ At(r, "idle")
    /\ Receive(q)
    /\ ~MustRelease(q)
    /\ Goto(r, where)
    /\ req' = [req EXCEPT ![r] = [confirm |-> q.confirm, mood |-> Mood(q.message)]]
    /\ UNCHANGED <<subject, missing, plan, round, intent, reason, emotion, orderId, outcome,
                   holdout, told, faults>>

(* An order is named and the intent is known: the message is not read.     *)
ArriveConfirming(r, q) ==
    /\ q.confirm # None
    /\ intent # "none"
    /\ Enter(r, q, "verify")
    /\ UNCHANGED heard

(* llm.rule_intent: what the keyword rules make of a message.              *)
RuleHit(m) == m.emotion >= Config.hardStop \/ m.asks \/ m.reason # "unknown"

RuleAnswer(m) ==
    [intent  |-> IF m.emotion >= Config.hardStop \/ m.asks THEN "return" ELSE "concern",
     reason  |-> IF m.emotion < Config.hardStop /\ m.reason = "unknown"
                 THEN "changed_mind" ELSE m.reason,
     emotion |-> m.emotion]

(* llm.classify_intent: the rules, else the small model or its fallback.   *)
Classified(m) == IF RuleHit(m) THEN {RuleAnswer(m)} ELSE ModelAnswer

ArriveSpeaking(r, q) ==
    /\ q.confirm = None \/ intent = "none"
    /\ Enter(r, q, "classify")
    /\ \E a \in Classified(q.message) : heard' = [heard EXCEPT ![r] = a]

-----------------------------------------------------------------------------
(* Slip: the latest emotion is kept, not the highest.                      *)
ClassifyLatest(r) ==
    /\ At(r, "classify")
    /\ Goto(r, "feel")
    /\ intent' = heard[r].intent
    /\ reason' = heard[r].reason
    /\ UNCHANGED <<req, heard, customer, subject, missing, plan, turns, round, emotion,
                   customerId, orderId, outcome, holdout, told, confirmed, faults>>

(* Slip: the emotions are added up.                                        *)
ClassifyAdded(r) ==
    /\ At(r, "classify")
    /\ Goto(r, "feel")
    /\ intent' = heard[r].intent
    /\ reason' = heard[r].reason
    /\ heard' = [heard EXCEPT ![r].emotion = @ + emotion]
    /\ UNCHANGED <<req, customer, subject, missing, plan, turns, round, emotion,
                   customerId, orderId, outcome, holdout, told, confirmed, faults>>

(* The answer is there.  Intent and reason are written, and the emotion    *)
(* is read: it is to be the larger of the two.                             *)
Classify(r) ==
    /\ At(r, "classify")
    /\ Goto(r, "feel")
    /\ intent' = heard[r].intent
    /\ reason' = heard[r].reason
    /\ heard' = [heard EXCEPT ![r].emotion = IF @ >= emotion THEN @ ELSE emotion]
    /\ UNCHANGED <<req, customer, subject, missing, plan, turns, round, emotion, customerId,
                   orderId, outcome, holdout, told, confirmed, faults>>

(* The emotion is written.                                                 *)
Feel(r) ==
    /\ At(r, "feel")
    /\ heard[r].intent # "other"
    /\ emotion' = heard[r].emotion
    /\ Goto(r, "verify")
    /\ heard' = [heard EXCEPT ![r] = None]
    /\ UNCHANGED <<req, customer, subject, missing, plan, turns, round, intent, reason,
                   customerId, orderId, outcome, holdout, told, confirmed, faults>>

(* "passthrough": the message is not about a return.                       *)
PassOn(r) ==
    /\ At(r, "feel")
    /\ heard[r].intent = "other"
    /\ emotion' = heard[r].emotion
    /\ Answered(r)
    /\ UNCHANGED <<turns, round, intent, reason, customerId, orderId, outcome,
                   holdout, told, confirmed, faults>>

(* The customer of the session as it is now is read.  A database has       *)
(* attributes for anybody, the defaults (db.CUSTOMER_ATTR_DEFAULTS) for    *)
(* nobody; the dictionaries of the demonstration know no nobody.           *)
AskCustomer(r) ==
    /\ At(r, "verify")
    /\ OrdersInTable \/ customerId # None
    /\ Goto(r, "orders")
    /\ customer' = [customer EXCEPT ![r].id = customerId]
    /\ UNCHANGED <<req, heard, subject, plan, session, holdout, told, confirmed>>

ReadCustomer(r) == AskCustomer(r) /\ UNCHANGED <<missing, faults>>

(* The read of the attributes fails and looks like a customer nothing is   *)
(* known of, or that of the policy extras, made when the turn began, did   *)
(* and looked like a tenant without special rules and refund policy.       *)
ReadCustomerMissing(r) ==
    /\ AskCustomer(r)
    /\ \E what \in SUBSET (IF OrdersInTable THEN Reads ELSE {"extras"}) \ {{}} :
         /\ faults + Cardinality(what) <= MaxFaults
         /\ faults' = faults + Cardinality(what)
         /\ missing' = [missing EXCEPT ![r] = what]

(* The orders are those of the customer the session has by now.            *)
HasCandidate == \E o \in OrderId : Owner[o] = customerId /\ IsCandidate(OrderOf[o])

ReadOrders(r) ==
    /\ At(r, "orders")
    /\ HasCandidate
    /\ Goto(r, "order")
    /\ UNCHANGED <<req, heard, customer, subject, missing, plan, session, holdout, told,
                   confirmed, faults>>

(* Slip: a lone candidate need not be confirmed.                           *)
ChosenAlone(r) ==
    IF req[r].confirm # None THEN req[r].confirm
    ELSE IF orderId # None THEN orderId
    ELSE CHOOSE o \in OrderId : IsCandidate(OrderOf[o]) /\ (HasCandidate => Owner[o] = customerId)

(* The order a turn is about: the one it names, else the session's.        *)
Chosen(r) == IF req[r].confirm # None THEN req[r].confirm ELSE orderId

(* The order is looked up: in the table, among the customer's own.         *)
LookUp(r) ==
    /\ At(r, "order")
    /\ Chosen(r) # None
    /\ OrdersInTable => Owner[Chosen(r)] = customerId
    /\ Goto(r, "confirm")
    /\ subject' = [subject EXCEPT ![r] = Chosen(r)]
    /\ UNCHANGED <<req, heard, customer, missing, plan, session, holdout, told,
                   confirmed, faults>>

(* The order is the customer's whom the session has by now.                *)
Confirm(r) ==
    /\ At(r, "confirm")
    /\ Owner[subject[r]] = customerId
    /\ orderId' = subject[r]
    /\ Goto(r, "decide")
    /\ UNCHANGED <<req, heard, customer, subject, missing, plan, turns, round, intent,
                   reason, emotion, customerId, outcome, holdout, told, confirmed, faults>>

(* No customer, no recent order, no order named, or not the customer's.    *)
Unverified(r) ==
    \/ At(r, "verify") /\ ~OrdersInTable /\ customerId = None
    \/ At(r, "orders") /\ ~HasCandidate
    \/ At(r, "order") /\ Chosen(r) = None
    \/ At(r, "order") /\ Chosen(r) # None /\ OrdersInTable /\ Owner[Chosen(r)] # customerId
    \/ At(r, "confirm") /\ Owner[subject[r]] # customerId

AskAgain(r) ==
    /\ Unverified(r)
    /\ Answered(r)
    /\ UNCHANGED <<session, holdout, told, confirmed, faults>>

(* The read of the orders, or of the order, fails and looks empty.         *)
VerifyFails(r) ==
    /\ OrdersInTable
    /\ \/ At(r, "orders") /\ customerId # None
       \/ At(r, "order") /\ Chosen(r) # None
    /\ Fault
    /\ Answered(r)
    /\ UNCHANGED <<session, holdout, told, confirmed>>

-----------------------------------------------------------------------------
(* The decision, without leaving the process.                              *)

Order(r) == OrderOf[subject[r]]

Ordinary == [risk |-> FALSE, returns |-> 0, vip |-> FALSE]

CustomerOf(r) ==
    IF "customer" \in missing[r] \/ customer[r].id = None THEN Ordinary
    ELSE Customer[customer[r].id]
AutoOf(r) == IF "extras" \in missing[r] THEN NoAuto ELSE AutoRefund
SpecialOf(r) == IF "extras" \in missing[r] THEN {} ELSE Special

Broken(r) == Violated(Order(r), reason, Config)
Scenario(r) == ClassifyScenario(reason, emotion, Broken(r), Config)
IsSpecial(r) == SpecialRules(Order(r), Scenario(r), SpecialOf(r)) # {}

Resolved(r, n) ==
    BuildResolution(Order(r), CustomerOf(r), Scenario(r), Broken(r), n, Config, AutoOf(r))

(* The control group gets the standard return.                             *)
HoldOut(r) ==
    /\ At(r, "decide")
    /\ holdout
    /\ freed' = TRUE
    /\ Answered(r)
    /\ UNCHANGED <<session, holdout, offers, refunds, tickets, confirmed, faults>>

NeedsReview(r) ==
    \/ IsSpecial(r)
    \/ Scenario(r) = "not_eligible"
    \/ Scenario(r) = "emotional_insist" /\ Resolved(r, round).action = "escalate_human"

Decide(r, where) ==
    /\ At(r, "decide")
    /\ ~holdout
    /\ Goto(r, where)
    /\ UNCHANGED <<req, heard, customer, subject, missing, plan, session, holdout, told,
                   confirmed, faults>>

ToReview(r) == Decide(r, "review") /\ NeedsReview(r)

ToRefund(r) ==
    /\ Decide(r, "refund")
    /\ ~NeedsReview(r)
    /\ Scenario(r) = "emotional_insist"

MayRetain(r) ==
    /\ At(r, "decide")
    /\ ~holdout
    /\ ~NeedsReview(r)
    /\ Scenario(r) # "emotional_insist"

(* No more retention (abuse cooldown): the standard return.                *)
GiveUp(r) ==
    /\ MayRetain(r)
    /\ Resolved(r, round + 1).offers = {}
    /\ outcome' = "released"
    /\ freed' = TRUE
    /\ Answered(r)
    /\ UNCHANGED <<turns, round, intent, reason, emotion, customerId, orderId,
                   holdout, offers, refunds, tickets, confirmed, faults>>

Made(r, scenario, o) ==
    [order |-> subject[r], scenario |-> scenario, value |-> o.value, mood |-> req[r].mood]

Propose(r) ==
    /\ MayRetain(r)
    /\ Resolved(r, round + 1).offers # {}
    /\ round' = round + 1

(* A model is asked for the wording.                                       *)
AskModel(r) ==
    /\ Propose(r)
    /\ RouteGeneration(Scenario(r), emotion, Order(r), round + 1, CustomerOf(r), Config) # "none"
    /\ Goto(r, "generate")
    /\ plan' = [plan EXCEPT ![r] = [scenario |-> Scenario(r),
                                    offers |-> Resolved(r, round + 1).offers]]
    /\ UNCHANGED <<req, heard, customer, subject, missing, turns, intent, reason, emotion,
                   customerId, orderId, outcome, holdout, told, confirmed, faults>>

(* The budget is exhausted: the template takes the first of the offers,    *)
(* whose order is not modelled.                                            *)
UseTemplate(r) ==
    /\ Propose(r)
    /\ \E o \in Resolved(r, round + 1).offers :
         offers' = Append(offers, Made(r, Scenario(r), o))
    /\ Answered(r)
    /\ UNCHANGED <<turns, intent, reason, emotion, customerId, orderId, outcome, holdout,
                   refunds, tickets, freed, confirmed, faults>>

(* The model's proposal, or the fallback's, passes L2 and L3.              *)
MakeOffer(r) ==
    /\ At(r, "generate")
    /\ \E o \in plan[r].offers : offers' = Append(offers, Made(r, plan[r].scenario, o))
    /\ Answered(r)
    /\ UNCHANGED <<session, holdout, refunds, tickets, freed, confirmed, faults>>

(* _blocked: the proposal is not in the allow-list, or its text promises   *)
(* what it may not.  The round is spent.                                   *)
Block(r) ==
    /\ At(r, "generate")
    /\ Answered(r)
    /\ UNCHANGED <<session, holdout, told, confirmed, faults>>

(* _manual_review, once the ticket is there.                               *)
Escalate(r) ==
    /\ At(r, "review")
    /\ outcome' = "escalated"
    /\ tickets' = tickets \cup {subject[r]}
    /\ freed' = TRUE
    /\ Answered(r)
    /\ UNCHANGED <<turns, round, intent, reason, emotion, customerId, orderId, holdout,
                   offers, refunds, confirmed, faults>>

Paid(r) ==
    [order |-> subject[r], missing |-> missing[r], swapped |-> customer[r].swapped]

(* _emotional, once the refund is committed.                               *)
IssueRefund(r) ==
    /\ At(r, "refund")
    /\ outcome' = "instant_refund"
    /\ refunds' = refunds \cup {Paid(r)}
    /\ freed' = TRUE
    /\ Answered(r)
    /\ UNCHANGED <<turns, round, intent, reason, emotion, customerId, orderId, holdout,
                   offers, tickets, confirmed, faults>>

(* 503: the ticket or the refund could not be committed.                   *)
CommitFails(r) ==
    /\ pc[r] \in {"review", "refund"}
    /\ Fault
    /\ Answered(r)
    /\ UNCHANGED <<session, holdout, told, confirmed>>

Arrive(r, q) == ArriveReleased(r, q) \/ ArriveConfirming(r, q) \/ ArriveSpeaking(r, q)

Step(r) ==
    \/ Classify(r) \/ Feel(r) \/ PassOn(r) \/ AskAgain(r)
    \/ ReadCustomer(r) \/ ReadOrders(r) \/ LookUp(r) \/ Confirm(r)
    \/ HoldOut(r) \/ ToReview(r) \/ ToRefund(r) \/ GiveUp(r)
    \/ AskModel(r) \/ UseTemplate(r) \/ MakeOffer(r) \/ Block(r)
    \/ Escalate(r) \/ IssueRefund(r)

Failure(r) == VerifyFails(r) \/ ReadCustomerMissing(r) \/ CommitFails(r)

Next ==
    \/ \E r \in Slot, q \in Request : Arrive(r, q)
    \/ \E r \in Slot : Step(r) \/ Failure(r)

Spec == Init /\ [][Next]_vars

(* A turn that is served goes on; the customer goes on writing.            *)
Fairness ==
    /\ \A r \in Slot : WF_vars(Step(r))
    /\ WF_vars(\E r \in Slot, q \in Request : Arrive(r, q))

FairSpec == Spec /\ Fairness

-----------------------------------------------------------------------------
Pc == {"idle", "classify", "feel", "verify"} \cup Reading
        \cup {"decide", "generate", "review", "refund"}
Moods == {"calm", "recorded", "voiced"}
Answer == [intent : {"return", "concern", "other"}, reason : Reasons, emotion : 0..100]
Owned == {o \in OrderId : Owner[o] \in Names}
Refund == [order : Owned, missing : SUBSET Reads, swapped : BOOLEAN]
OfferMade == [order : Owned, scenario : Scenarios, value : Nat, mood : Moods]

(* Every variable stays in the set of values the code can give it.         *)
TypeOK ==
    /\ pc \in [Slot -> Pc]
    /\ req \in [Slot -> [confirm : OrderId \cup {None}, mood : Moods]]
    /\ heard \in [Slot -> Answer \cup {None}]
    /\ customer \in [Slot -> [id : CustomerId \cup {None}, swapped : BOOLEAN]]
    /\ subject \in [Slot -> OrderId \cup {None}]
    /\ missing \in [Slot -> SUBSET Reads]
    /\ plan \in [Slot -> [scenario : Scenarios \cup {"none"}, offers : SUBSET Proposal]]
    /\ turns \in 0..(Config.maxTurns + 1)
    /\ round \in Nat
    /\ intent \in {"none", "return", "concern", "other"}
    /\ reason \in Reasons \cup {"none"}
    /\ emotion \in 0..100
    /\ customerId \in Names \cup {None}
    /\ orderId \in Owned \cup {None}
    /\ outcome \in {"none", "released", "escalated", "instant_refund"}
    /\ holdout \in BOOLEAN
    /\ offers \in Seq(OfferMade)
    /\ refunds \subseteq Refund
    /\ tickets \subseteq Owned
    /\ confirmed \subseteq OrderId
    /\ freed \in BOOLEAN
    /\ faults \in Nat

(* However its turns overlap, a conversation makes at most one offer more  *)
(* than the round limit for each further turn in service: the limit is     *)
(* checked (app.py:306) long before the round is counted (app.py:427).     *)
OffersBounded == Len(offers) < Config.maxRounds + Cardinality(Slot)

(* Offers, refunds and tickets are only ever about an order that has been  *)
(* named in the conversation (S3), and that belongs to a customer it was   *)
(* held for: with several orders, changed minds, another customer halfway  *)
(* and overlapping turns, no turn acts on a guess or on a foreign order.   *)
(* A turn that names none may act on the order an overlapping one named.   *)
ConfirmedOnly ==
    /\ \A i \in DOMAIN offers : offers[i].order \in confirmed \cap Owned
    /\ {f.order : f \in refunds} \cup tickets \subseteq confirmed \cap Owned

(* A customer whose anger was on record when the turn began gets no offer  *)
(* in that turn, however calm the later messages sound (app.py:318, 412).  *)
CalmOffers == \A i \in DOMAIN offers : offers[i].mood # "recorded"

(* Haggling over one order never lowers the money on the table: a later    *)
(* credit is not smaller than an earlier one (the 15% -> 25% ladder).      *)
StepUp ==
    \A i, j \in DOMAIN offers :
        /\ i < j
        /\ offers[i].order = offers[j].order
        /\ offers[i].scenario = "value_gap" /\ offers[j].scenario = "value_gap"
        /\ offers[j].value > 0
        => offers[i].value <= offers[j].value

(* A refund nobody has looked at is for an order inside the return window, *)
(* goes to a customer without a risk flag, and is within the merchant's    *)
(* limits and after the prior attempts the merchant asks for, whatever the *)
(* reason the customer gave in the turns before.  A turn that could not    *)
(* read the flag, or the limits, keeps the others (policy.triage_refund),  *)
(* and so does a turn that read the flag of one customer and the order of  *)
(* another, because an overlapping turn named the other in between.        *)
Qualifies(f) ==
    /\ OrderOf[f.order].days <= Config.window
    /\ ~Customer[Owner[f.order]].risk \/ "customer" \in f.missing \/ f.swapped
    /\ IF AutoRefund = NoAuto \/ "extras" \in f.missing
       THEN OrderOf[f.order].total <= Config.refundCap
       ELSE /\ AutoRefund.enabled
            /\ AutoRefund.attempts <= round
            /\ OrderOf[f.order].total <= AutoRefund.max

RefundsQualify == \A f \in refunds : Qualifies(f)

(* A customer who keeps writing, and never asks for the way out, is let    *)
(* through all the same: the round and turn limits end every conversation. *)
Freed == <>freed

-----------------------------------------------------------------------------
(* What the documents say and the code does not do (README, Disagreements). *)

(* README.md:306: at most two rounds of negotiation (max_rounds_enforced). *)
RoundLimit == Len(offers) <= Config.maxRounds

(* README.md:263: round counts only the offers actually made.              *)
RoundsAreOffers == (\A r \in Slot : At(r, "idle")) => round = Len(offers)

(* policy.py:107: large amounts and anomalies are for a specialist.        *)
RefundsAlwaysQualify ==
    \A f \in refunds : Qualifies([f EXCEPT !.missing = {}, !.swapped = FALSE])

(* policy.py:107, where every read is answered: a customer with the flag.  *)
FlagHeeded == \A f \in refunds : f.missing = {} => ~Customer[Owner[f.order]].risk

(* README.md:305: no offer when the customer is angry.                     *)
AngryNotRetained == \A i \in DOMAIN offers : offers[i].mood # "voiced"

(* policy.pick_candidate_orders: only orders of the last 60 days are       *)
(* candidates for a return.                                                *)
OnlyCandidates == \A i \in DOMAIN offers : IsCandidate(OrderOf[offers[i].order])

(* app.py:318: the emotion only rises.                                     *)
EmotionNeverFalls == [][emotion' >= emotion]_vars
=============================================================================
