-------------------------- MODULE NegotiationProofs --------------------------
(***************************************************************************)
(* Type correctness of Negotiation and each of its safety invariants.      *)
(*                                                                         *)
(* Typed adds to the type invariant what a turn carries: an answer while   *)
(* it is being heard, an order from the decision on, a scenario while its  *)
(* text is generated.  Counted pays for the offers in advance: a turn that *)
(* has passed the round check and has not yet counted its round weighs     *)
(* one, and so does a counted round whose offer is still being written.    *)
(* Named, Cleared, Watched and Ladder are the inductive invariants of the  *)
(* other four; Watched and Ladder are inductive without overlap only.      *)
(***************************************************************************)
EXTENDS Negotiation, FiniteSetTheorems, TLAPS

Carries ==
    \A r \in Slot :
        /\ pc[r] \in {"classify", "feel"} => heard[r] \in Answer
        /\ pc[r] = "confirm" => subject[r] \in OrderId
        /\ pc[r] \in {"decide", "generate", "review", "refund"} => subject[r] \in Owned
        /\ pc[r] = "generate" => plan[r].scenario \in Scenarios

Typed == TypeOK /\ Carries

(* Turns that may still count a round, and turns that have.                *)
Undecided == {"classify", "feel", "verify"} \cup Reading \cup {"decide"}
Early == {r \in Slot : pc[r] \in Undecided}
Writing == {r \in Slot : pc[r] = "generate"}

Counted ==
    /\ round + Cardinality(Early) < Config.maxRounds + Cardinality(Slot)
    /\ Len(offers) + Cardinality(Writing) <= round

-----------------------------------------------------------------------------
(* The policy engine returns amounts that are natural numbers of cents.    *)
LEMMA PercentNat == ASSUME NEW a \in Nat, NEW p \in Nat PROVE Percent(a, p) \in Nat
<1>1. a * p \in Nat
  BY SMT
<1>2. ASSUME NEW x \in Nat PROVE (x + 50) \div 100 \in Nat
  BY SMT
<1> QED
  BY <1>1, <1>2 DEF Percent

LEMMA LeastNat == ASSUME NEW a \in Nat, NEW b \in Nat PROVE Least(a, b) \in Nat
BY DEF Least

LEMMA ResolutionTyped ==
    ASSUME NEW order \in [days : Nat, total : Nat, negotiated : Nat,
               category : STRING, names : SUBSET STRING, finalSale : BOOLEAN,
               opened : BOOLEAN, used : BOOLEAN, repairable : BOOLEAN,
               sizes : BOOLEAN, video : BOOLEAN],
           NEW cfg, cfg.discount \in Nat,
           NEW who, NEW scenario \in Scenarios, NEW violated,
           NEW n \in Nat, NEW auto
    PROVE  BuildResolution(order, who, scenario, violated, n, cfg, auto).offers
               \subseteq Proposal
<1>1. order.total \in Nat
  OBVIOUS
<1>2. ValueCap(order, cfg) \in Nat
  BY <1>1, PercentNat DEF ValueCap
<1>3. ASSUME NEW p \in Nat PROVE Least(Percent(order.total, p), ValueCap(order, cfg)) \in Nat
  BY <1>1, <1>2, PercentNat, LeastNat
<1>4. CreditStep(n) \in Nat
  BY DEF CreditStep
<1>5. ASSUME NEW id \in OfferIds, NEW v \in Nat PROVE Offer(id, v) \in Proposal
  BY DEF Offer, Proposal
<1>6. CreditOffers(order, n, cfg) \subseteq Proposal
  BY <1>3, <1>4, <1>5 DEF CreditOffers, OfferIds
<1>7. DamageOffers(order, cfg) \subseteq Proposal
  BY <1>3, <1>5 DEF DamageOffers, OfferIds
<1>8. UsageOffers(order) \subseteq Proposal
  BY <1>5 DEF UsageOffers, OfferIds
<1>9. DeclineOffers(order, cfg) \subseteq Proposal
  BY <1>3, <1>5 DEF DeclineOffers, OfferIds
<1> QED
  BY <1>6, <1>7, <1>8, <1>9 DEF BuildResolution, Resolution, Scenarios

LEMMA ResolvedTyped ==
    ASSUME TypeOK, Carries, NEW r \in Slot, At(r, "decide"), NEW n \in Nat
    PROVE  /\ Scenario(r) \in Scenarios
           /\ Resolved(r, n).offers \subseteq Proposal
<1> USE NegotiationAssumption
<1>1. Scenario(r) \in Scenarios
  BY DEF Scenario, ClassifyScenario, Scenarios
<1>2. subject[r] \in OrderId
  BY DEF Carries, At, Owned
<1>3. Order(r) \in [days : Nat, total : Nat, negotiated : Nat,
               category : STRING, names : SUBSET STRING, finalSale : BOOLEAN,
               opened : BOOLEAN, used : BOOLEAN, repairable : BOOLEAN,
               sizes : BOOLEAN, video : BOOLEAN]
  BY <1>2 DEF Order
<1>4. Config.discount \in Nat
  OBVIOUS
<1> QED
  BY <1>1, <1>3, <1>4, ResolutionTyped DEF Resolved

(* What the messages of a request become when they are understood.         *)
LEMMA ClassifiedTyped ==
    ASSUME NEW m \in Message
    PROVE  Classified(m) \subseteq Answer
<1> USE NegotiationAssumption
<1>1. m \in [reason : Reasons, asks : BOOLEAN, emotion : 0..100]
  OBVIOUS
<1>2. RuleAnswer(m) \in Answer
  BY <1>1 DEF RuleAnswer, Answer, Reasons
<1>3. ModelAnswer \subseteq Answer
  BY DEF Answer
<1> QED
  BY <1>2, <1>3 DEF Classified

LEMMA InitTyped == Init => Typed
<1> SUFFICES ASSUME Init PROVE Typed
  OBVIOUS
<1> USE NegotiationAssumption
<1>1. TypeOK
  <2>1. turns \in 0..(Config.maxTurns + 1)
    <3>1. Config.maxTurns \in Nat
      OBVIOUS
    <3> QED
      BY <3>1 DEF Init
  <2>2. /\ pc \in [Slot -> Pc]
        /\ req \in [Slot -> [confirm : OrderId \cup {None}, mood : Moods]]
        /\ heard \in [Slot -> Answer \cup {None}]
        /\ customer \in [Slot -> [id : CustomerId \cup {None}, swapped : BOOLEAN]]
        /\ subject \in [Slot -> OrderId \cup {None}]
        /\ missing \in [Slot -> SUBSET Reads]
        /\ plan \in [Slot -> [scenario : Scenarios \cup {"none"}, offers : SUBSET Proposal]]
    BY DEF Init, NoRequest, Nobody, NoPlan, Pc, Moods
  <2>3. offers \in Seq(OfferMade)
    BY DEF Init
  <2>4. /\ round \in Nat
        /\ intent \in {"none", "return", "concern", "other"}
        /\ reason \in Reasons \cup {"none"}
        /\ emotion \in 0..100
        /\ orderId \in Owned \cup {None}
        /\ outcome \in {"none", "released", "escalated", "instant_refund"}
    BY SMT DEF Init
  <2>5. /\ holdout \in BOOLEAN
        /\ customerId \in Names \cup {None}
        /\ refunds \subseteq Refund
        /\ tickets \subseteq Owned
        /\ confirmed \subseteq OrderId
        /\ freed \in BOOLEAN
        /\ faults \in Nat
    BY DEF Init
  <2> QED
    BY <2>1, <2>2, <2>3, <2>4, <2>5 DEF TypeOK
<1>2. Carries
  BY DEF Init, Carries
<1> QED
  BY <1>1, <1>2 DEF Typed

(* A turn that is answered leaves its slot as it found it.                 *)
LEMMA AnsweredTyped ==
    ASSUME Typed, NEW r \in Slot, Answered(r)
    PROVE  /\ pc' \in [Slot -> Pc]
           /\ req' \in [Slot -> [confirm : OrderId \cup {None}, mood : Moods]]
           /\ heard' \in [Slot -> Answer \cup {None}]
           /\ customer' \in [Slot -> [id : CustomerId \cup {None}, swapped : BOOLEAN]]
           /\ subject' \in [Slot -> OrderId \cup {None}]
           /\ missing' \in [Slot -> SUBSET Reads]
           /\ plan' \in [Slot -> [scenario : Scenarios \cup {"none"}, offers : SUBSET Proposal]]
           /\ Carries'
<1> USE DEF Typed, TypeOK, Answered, Goto
<1>1. pc' \in [Slot -> Pc]
  BY DEF Pc
<1>2. req' \in [Slot -> [confirm : OrderId \cup {None}, mood : Moods]]
  BY DEF NoRequest, Moods
<1>3. heard' \in [Slot -> Answer \cup {None}]
  OBVIOUS
<1>4. subject' \in [Slot -> OrderId \cup {None}]
  OBVIOUS
<1>8. customer' \in [Slot -> [id : CustomerId \cup {None}, swapped : BOOLEAN]]
  BY DEF Nobody
<1>5. plan' \in [Slot -> [scenario : Scenarios \cup {"none"}, offers : SUBSET Proposal]]
  BY DEF NoPlan
<1>6. missing' \in [Slot -> SUBSET Reads]
  OBVIOUS
<1>7. Carries'
  BY DEF Carries
<1> QED
  BY <1>1, <1>2, <1>3, <1>4, <1>5, <1>6, <1>7, <1>8

LEMMA ReceiveTyped ==
    ASSUME TypeOK, NEW q \in Request, Receive(q)
    PROVE  /\ turns' \in 0..(Config.maxTurns + 1)
           /\ customerId' \in Names \cup {None}
           /\ customer' \in [Slot -> [id : CustomerId \cup {None}, swapped : BOOLEAN]]
           /\ confirmed' \subseteq OrderId
<1> USE NegotiationAssumption
<1>1. Config.maxTurns \in Nat
  OBVIOUS
<1>2. turns' \in 0..(Config.maxTurns + 1)
  BY <1>1 DEF TypeOK, Receive, Least
<1>3. customerId' \in Names \cup {None}
  BY DEF TypeOK, Receive, Request
<1>5. customer' \in [Slot -> [id : CustomerId \cup {None}, swapped : BOOLEAN]]
  <2>1. CASE customerId' = customerId
    BY <2>1 DEF TypeOK, Receive
  <2>2. CASE customerId' # customerId
    <3>1. ASSUME NEW s \in Slot
          PROVE  [customer[s] EXCEPT !.swapped = @ \/ pc[s] \in Reading]
                   \in [id : CustomerId \cup {None}, swapped : BOOLEAN]
      <4>1. customer[s] \in [id : CustomerId \cup {None}, swapped : BOOLEAN]
        BY DEF TypeOK
      <4>2. (customer[s].swapped \/ pc[s] \in Reading) \in BOOLEAN
        OBVIOUS
      <4> QED
        BY <4>1, <4>2
    <3> QED
      BY <2>2, <3>1 DEF Receive
  <2> QED
    BY <2>1, <2>2
<1>4. confirmed' \subseteq OrderId
  BY DEF TypeOK, Receive, Request
<1> QED
  BY <1>2, <1>3, <1>4, <1>5

(* One step per action.                                                    *)
LEMMA ArriveTyped ==
    ASSUME Typed, NEW r \in Slot, NEW q \in Request, Arrive(r, q)
    PROVE  Typed'
<1> USE NegotiationAssumption DEF Typed
<1>1. CASE ArriveReleased(r, q)
  <2>1. /\ turns' \in 0..(Config.maxTurns + 1)
        /\ customerId' \in Names \cup {None}
        /\ customer' \in [Slot -> [id : CustomerId \cup {None}, swapped : BOOLEAN]]
        /\ confirmed' \subseteq OrderId
    BY <1>1, ReceiveTyped DEF ArriveReleased
  <2>2. TypeOK'
    BY <1>1, <2>1 DEF ArriveReleased, TypeOK
  <2>3. Carries'
    BY <1>1 DEF ArriveReleased, Carries
  <2> QED
    BY <2>2, <2>3
<1>2. ASSUME NEW where \in {"verify", "classify"}, Enter(r, q, where),
             heard' \in [Slot -> Answer \cup {None}],
             \A p \in Slot : p # r => heard'[p] = heard[p],
             where = "classify" => heard'[r] \in Answer
      PROVE  Typed'
  <2>1. /\ turns' \in 0..(Config.maxTurns + 1)
        /\ customerId' \in Names \cup {None}
        /\ customer' \in [Slot -> [id : CustomerId \cup {None}, swapped : BOOLEAN]]
        /\ confirmed' \subseteq OrderId
    BY <1>2, ReceiveTyped DEF Enter
  <2>2. pc' \in [Slot -> Pc] /\ \A p \in Slot : pc'[p] = IF p = r THEN where ELSE pc[p]
    BY <1>2 DEF Enter, Goto, TypeOK, Pc
  <2>3. req' \in [Slot -> [confirm : OrderId \cup {None}, mood : Moods]]
    BY <1>2 DEF Enter, TypeOK, Request, Mood, Moods
  <2>4. TypeOK'
    BY <1>2, <2>1, <2>2, <2>3 DEF Enter, TypeOK, told
  <2>5. Carries'
    BY <1>2, <2>2 DEF Enter, Carries
  <2> QED
    BY <2>4, <2>5
<1>3. CASE ArriveConfirming(r, q)
  BY <1>2, <1>3 DEF ArriveConfirming, TypeOK
<1>4. CASE ArriveSpeaking(r, q)
  <2>1. PICK a \in Classified(q.message) : heard' = [heard EXCEPT ![r] = a]
    BY <1>4 DEF ArriveSpeaking
  <2>2. a \in Answer
    <3>1. ~q.anyway
      BY <1>4 DEF ArriveSpeaking, Enter, MustRelease
    <3>2. q.message \in Message
      BY <3>1 DEF Request
    <3> QED
      BY <3>2, ClassifiedTyped
  <2>3. /\ heard' \in [Slot -> Answer \cup {None}]
        /\ \A p \in Slot : p # r => heard'[p] = heard[p]
        /\ heard'[r] \in Answer
    BY <2>1, <2>2 DEF TypeOK
  <2> QED
    BY <1>2, <1>4, <2>3 DEF ArriveSpeaking
<1> QED
  BY <1>1, <1>3, <1>4 DEF Arrive

LEMMA HearingTyped ==
    ASSUME Typed, NEW r \in Slot, Classify(r) \/ Feel(r) \/ PassOn(r)
    PROVE  Typed'
<1> USE NegotiationAssumption DEF Typed
<1>1. CASE Classify(r)
  <2>1. heard[r] \in Answer
    BY <1>1 DEF Classify, Carries, At
  <2>2. [heard[r] EXCEPT !.emotion = IF @ >= emotion THEN @ ELSE emotion] \in Answer
    BY <2>1 DEF TypeOK, Answer
  <2>3. /\ heard' \in [Slot -> Answer \cup {None}]
        /\ \A p \in Slot : p # r => heard'[p] = heard[p]
        /\ heard'[r] \in Answer
    BY <1>1, <2>2 DEF Classify, TypeOK
  <2>4. pc' \in [Slot -> Pc] /\ \A p \in Slot : pc'[p] = IF p = r THEN "feel" ELSE pc[p]
    BY <1>1 DEF Classify, Goto, TypeOK, Pc
  <2>5. intent' \in {"none", "return", "concern", "other"} /\ reason' \in Reasons \cup {"none"}
    BY <1>1, <2>1 DEF Classify, Answer
  <2>6. TypeOK'
    BY <1>1, <2>3, <2>4, <2>5 DEF Classify, TypeOK, told
  <2>7. Carries'
    BY <1>1, <2>3, <2>4 DEF Classify, Carries
  <2> QED
    BY <2>6, <2>7
<1>2. ASSUME Feel(r) \/ PassOn(r) PROVE emotion' \in 0..100
  <2>1. heard[r] \in Answer
    BY <1>2 DEF Feel, PassOn, Carries, At
  <2> QED
    BY <1>2, <2>1 DEF Feel, PassOn, Answer
<1>3. CASE Feel(r)
  <2>1. pc' \in [Slot -> Pc] /\ \A p \in Slot : pc'[p] = IF p = r THEN "verify" ELSE pc[p]
    BY <1>3 DEF Feel, Goto, TypeOK, Pc
  <2>2. /\ heard' \in [Slot -> Answer \cup {None}]
        /\ \A p \in Slot : p # r => heard'[p] = heard[p]
    BY <1>3 DEF Feel, TypeOK
  <2>3. TypeOK'
    BY <1>2, <1>3, <2>1, <2>2 DEF Feel, TypeOK, told
  <2>4. Carries'
    BY <1>3, <2>1, <2>2 DEF Feel, Carries
  <2> QED
    BY <2>3, <2>4
<1>4. CASE PassOn(r)
  <2>1. TypeOK'
    BY <1>2, <1>4, AnsweredTyped DEF PassOn, TypeOK, told
  <2> QED
    BY <1>4, <2>1, AnsweredTyped DEF PassOn
<1> QED
  BY <1>1, <1>3, <1>4

(* A turn that answers, and leaves the session's types alone.              *)
LEMMA AnsweringTyped ==
    ASSUME Typed, NEW r \in Slot,
           \/ AskAgain(r) \/ VerifyFails(r) \/ HoldOut(r) \/ GiveUp(r) \/ Block(r)
           \/ Escalate(r) \/ IssueRefund(r) \/ CommitFails(r)
    PROVE  Typed'
<1> USE NegotiationAssumption DEF Typed
<1>1. ASSUME Answered(r), UNCHANGED <<session, holdout, told, confirmed>>, faults' \in Nat
      PROVE  Typed'
  BY <1>1, AnsweredTyped DEF TypeOK, session, told
<1>2. CASE AskAgain(r) \/ Block(r) \/ VerifyFails(r) \/ CommitFails(r)
  <2>1. faults' \in Nat
    BY <1>2 DEF AskAgain, Block, VerifyFails, CommitFails, Fault, TypeOK
  <2> QED
    BY <1>1, <1>2, <2>1 DEF AskAgain, Block, VerifyFails, CommitFails
<1>3. CASE HoldOut(r)
  BY <1>3, AnsweredTyped DEF HoldOut, TypeOK, session
<1>4. CASE GiveUp(r)
  BY <1>4, AnsweredTyped DEF GiveUp, TypeOK
<1>5. CASE Escalate(r)
  <2>1. subject[r] \in Owned
    BY <1>5 DEF Escalate, Carries, At
  <2> QED
    BY <1>5, <2>1, AnsweredTyped DEF Escalate, TypeOK
<1>6. CASE IssueRefund(r)
  <2>1. subject[r] \in Owned
    BY <1>6 DEF IssueRefund, Carries, At
  <2>3. Paid(r) \in Refund
    BY <2>1 DEF Paid, Refund, TypeOK
  <2>2. refunds' \subseteq Refund
    BY <1>6, <2>3 DEF IssueRefund, TypeOK
  <2> QED
    BY <1>6, <2>2, AnsweredTyped DEF IssueRefund, TypeOK
<1> QED
  BY <1>2, <1>3, <1>4, <1>5, <1>6

(* Reading the customer, the orders and the order.                         *)
LEMMA AskCustomerTyped ==
    ASSUME Typed, NEW r \in Slot, AskCustomer(r),
           missing' \in [Slot -> SUBSET Reads], faults' \in Nat
    PROVE  Typed'
<1> USE NegotiationAssumption DEF Typed
<1>1. pc' \in [Slot -> Pc] /\ \A p \in Slot : pc'[p] = IF p = r THEN "orders" ELSE pc[p]
  BY DEF AskCustomer, Goto, TypeOK, Pc, Reading
<1>2. customer' \in [Slot -> [id : CustomerId \cup {None}, swapped : BOOLEAN]]
  <2>1. customerId \in CustomerId \cup {None}
    BY DEF TypeOK
  <2>2. customer[r] \in [id : CustomerId \cup {None}, swapped : BOOLEAN]
    BY DEF TypeOK
  <2>3. [customer[r] EXCEPT !.id = customerId] \in [id : CustomerId \cup {None}, swapped : BOOLEAN]
    BY <2>1, <2>2
  <2> QED
    BY <2>3 DEF AskCustomer, TypeOK
<1>3. TypeOK'
  BY <1>1, <1>2 DEF AskCustomer, TypeOK, session, told
<1>4. Carries'
  BY <1>1 DEF AskCustomer, Carries
<1> QED
  BY <1>3, <1>4

LEMMA ReadingTyped ==
    ASSUME Typed, NEW r \in Slot,
           \/ ReadCustomer(r) \/ ReadCustomerMissing(r) \/ ReadOrders(r)
           \/ LookUp(r) \/ Confirm(r)
    PROVE  Typed'
<1> USE NegotiationAssumption DEF Typed
<1>1. CASE ReadCustomer(r)
  BY <1>1, AskCustomerTyped DEF ReadCustomer, TypeOK
<1>2. CASE ReadCustomerMissing(r)
  <2>1. PICK what \in SUBSET (IF OrdersInTable THEN Reads ELSE {"extras"}) :
            /\ faults' = faults + Cardinality(what)
            /\ missing' = [missing EXCEPT ![r] = what]
    BY <1>2 DEF ReadCustomerMissing
  <2>2. what \in SUBSET Reads
    BY DEF Reads
  <2>3. Cardinality(what) \in Nat
    <3>1. IsFiniteSet(Reads)
      <4>1. Reads = {"customer"} \cup {"extras"}
        BY DEF Reads
      <4>2. IsFiniteSet({"customer"})
        BY FS_Singleton
      <4> QED
        BY <4>1, <4>2, FS_AddElement
    <3> QED
      BY <2>2, <3>1, FS_Subset, FS_CardinalityType
  <2>4. faults' \in Nat
    BY <2>1, <2>3 DEF TypeOK
  <2>5. missing' \in [Slot -> SUBSET Reads]
    BY <2>1, <2>2 DEF TypeOK
  <2> QED
    BY <1>2, <2>4, <2>5, AskCustomerTyped DEF ReadCustomerMissing
<1>3. CASE ReadOrders(r)
  <2>1. pc' \in [Slot -> Pc] /\ \A p \in Slot : pc'[p] = IF p = r THEN "order" ELSE pc[p]
    BY <1>3 DEF ReadOrders, Goto, TypeOK, Pc, Reading
  <2>2. TypeOK'
    BY <1>3, <2>1 DEF ReadOrders, TypeOK, session, told
  <2>3. Carries'
    BY <1>3, <2>1 DEF ReadOrders, Carries
  <2> QED
    BY <2>2, <2>3
<1>4. CASE LookUp(r)
  <2>1. pc' \in [Slot -> Pc] /\ \A p \in Slot : pc'[p] = IF p = r THEN "confirm" ELSE pc[p]
    BY <1>4 DEF LookUp, Goto, TypeOK, Pc, Reading
  <2>2. Chosen(r) \in OrderId
    BY <1>4 DEF LookUp, Chosen, TypeOK, Owned
  <2>3. /\ subject' \in [Slot -> OrderId \cup {None}]
        /\ subject'[r] \in OrderId
        /\ \A p \in Slot : p # r => subject'[p] = subject[p]
    BY <1>4, <2>2 DEF LookUp, TypeOK
  <2>4. TypeOK'
    BY <1>4, <2>1, <2>3 DEF LookUp, TypeOK, session, told
  <2>5. Carries'
    BY <1>4, <2>1, <2>3 DEF LookUp, Carries
  <2> QED
    BY <2>4, <2>5
<1>5. CASE Confirm(r)
  <2>1. pc' \in [Slot -> Pc] /\ \A p \in Slot : pc'[p] = IF p = r THEN "decide" ELSE pc[p]
    BY <1>5 DEF Confirm, Goto, TypeOK, Pc
  <2>2. subject[r] \in Owned
    <3>1. subject[r] \in OrderId
      BY <1>5 DEF Confirm, Carries, At
    <3>2. Owner[subject[r]] \in CustomerId /\ Owner[subject[r]] \in Names \cup {None}
      BY <1>5, <3>1 DEF Confirm, TypeOK
    <3> QED
      BY <3>1, <3>2 DEF Owned
  <2>3. TypeOK'
    BY <1>5, <2>1, <2>2 DEF Confirm, TypeOK, told
  <2>4. Carries'
    BY <1>5, <2>1, <2>2 DEF Confirm, Carries
  <2> QED
    BY <2>3, <2>4
<1> QED
  BY <1>1, <1>2, <1>3, <1>4, <1>5

LEMMA DecidingTyped ==
    ASSUME Typed, NEW r \in Slot, ToReview(r) \/ ToRefund(r)
    PROVE  Typed'
<1> USE NegotiationAssumption DEF Typed
<1>1. PICK where \in {"review", "refund"} : Decide(r, where)
  BY DEF ToReview, ToRefund
<1>2. pc' \in [Slot -> Pc] /\ \A p \in Slot : pc'[p] = IF p = r THEN where ELSE pc[p]
  BY <1>1 DEF Decide, Goto, TypeOK, Pc
<1>3. TypeOK'
  BY <1>1, <1>2 DEF Decide, TypeOK, session, told
<1>4. subject[r] \in Owned
  BY <1>1 DEF Decide, Carries, At
<1>5. Carries'
  BY <1>1, <1>2, <1>4 DEF Decide, Carries
<1> QED
  BY <1>3, <1>5

LEMMA OfferingTyped ==
    ASSUME Typed, NEW r \in Slot, AskModel(r) \/ UseTemplate(r) \/ MakeOffer(r)
    PROVE  Typed'
<1> USE NegotiationAssumption DEF Typed
<1>1. req[r].mood \in Moods
  BY DEF TypeOK
<1>2. ASSUME NEW scenario \in Scenarios, NEW o \in Proposal, subject[r] \in Owned
      PROVE  Append(offers, Made(r, scenario, o)) \in Seq(OfferMade)
  <2>1. Made(r, scenario, o) \in OfferMade
    BY <1>1, <1>2 DEF Made, OfferMade, Proposal
  <2> QED
    BY <2>1 DEF TypeOK
<1>3. ASSUME AskModel(r) \/ UseTemplate(r)
      PROVE  /\ At(r, "decide")
             /\ subject[r] \in Owned
             /\ Scenario(r) \in Scenarios
             /\ Resolved(r, round + 1).offers \subseteq Proposal
             /\ round' \in Nat
  <2>1. At(r, "decide") /\ round' = round + 1
    BY <1>3 DEF AskModel, UseTemplate, Propose, MayRetain
  <2>2. round + 1 \in Nat
    BY DEF TypeOK
  <2>3. subject[r] \in Owned
    BY <2>1 DEF Carries, At
  <2> QED
    BY <2>1, <2>2, <2>3, ResolvedTyped
<1>4. CASE AskModel(r)
  <2>1. pc' \in [Slot -> Pc] /\ \A p \in Slot : pc'[p] = IF p = r THEN "generate" ELSE pc[p]
    BY <1>4 DEF AskModel, Goto, TypeOK, Pc
  <2>2. /\ plan' \in [Slot -> [scenario : Scenarios \cup {"none"}, offers : SUBSET Proposal]]
        /\ plan'[r].scenario \in Scenarios
        /\ \A p \in Slot : p # r => plan'[p] = plan[p]
    BY <1>3, <1>4 DEF AskModel, TypeOK
  <2>3. TypeOK'
    BY <1>3, <1>4, <2>1, <2>2 DEF AskModel, TypeOK, told
  <2>4. Carries'
    BY <1>3, <1>4, <2>1, <2>2 DEF AskModel, Carries
  <2> QED
    BY <2>3, <2>4
<1>5. CASE UseTemplate(r)
  <2>1. PICK o \in Resolved(r, round + 1).offers :
            offers' = Append(offers, Made(r, Scenario(r), o))
    BY <1>5 DEF UseTemplate
  <2>2. offers' \in Seq(OfferMade)
    BY <1>2, <1>3, <1>5, <2>1
  <2>3. UNCHANGED <<turns, intent, reason, emotion, customerId, orderId, outcome, holdout,
                    refunds, tickets, freed, confirmed, faults>>
    BY <1>5 DEF UseTemplate
  <2>4. /\ pc' \in [Slot -> Pc]
        /\ req' \in [Slot -> [confirm : OrderId \cup {None}, mood : Moods]]
        /\ heard' \in [Slot -> Answer \cup {None}]
        /\ customer' \in [Slot -> [id : CustomerId \cup {None}, swapped : BOOLEAN]]
        /\ subject' \in [Slot -> OrderId \cup {None}]
        /\ missing' \in [Slot -> SUBSET Reads]
        /\ plan' \in [Slot -> [scenario : Scenarios \cup {"none"}, offers : SUBSET Proposal]]
        /\ Carries'
    BY <1>5, AnsweredTyped DEF UseTemplate
  <2>5. round' \in Nat
    BY <1>3, <1>5
  <2> QED
    BY <2>2, <2>3, <2>4, <2>5 DEF TypeOK
<1>6. CASE MakeOffer(r)
  <2>1. PICK o \in plan[r].offers : offers' = Append(offers, Made(r, plan[r].scenario, o))
    BY <1>6 DEF MakeOffer
  <2>2. plan[r].scenario \in Scenarios /\ subject[r] \in Owned
    BY <1>6 DEF MakeOffer, Carries, At
  <2>3. o \in Proposal
    BY DEF TypeOK
  <2>4. offers' \in Seq(OfferMade)
    BY <1>2, <2>1, <2>2, <2>3
  <2> QED
    BY <1>6, <2>4, AnsweredTyped DEF MakeOffer, TypeOK, session
<1> QED
  BY <1>4, <1>5, <1>6

LEMMA NextTyped == Typed /\ [Next]_vars => Typed'
<1> SUFFICES ASSUME Typed, [Next]_vars PROVE Typed'
  OBVIOUS
<1>1. ASSUME NEW r \in Slot, NEW q \in Request, Arrive(r, q) PROVE Typed'
  BY <1>1, ArriveTyped
<1>2. ASSUME NEW r \in Slot, Step(r) PROVE Typed'
  BY <1>2, HearingTyped, AnsweringTyped, ReadingTyped, DecidingTyped, OfferingTyped DEF Step
<1>3. ASSUME NEW r \in Slot, Failure(r) PROVE Typed'
  BY <1>3, AnsweringTyped, ReadingTyped DEF Failure
<1>4. CASE UNCHANGED vars
  BY <1>4 DEF vars, local, session, told, Typed, TypeOK, Carries
<1> QED
  BY <1>1, <1>2, <1>3, <1>4 DEF Next

(* Every reachable state of a conversation is well typed.                  *)
THEOREM TypeCorrect == Spec => []TypeOK
<1>1. Typed => TypeOK
  BY DEF Typed
<1> QED
  BY InitTyped, NextTyped, <1>1, PTL DEF Spec

-----------------------------------------------------------------------------
(* The offers are counted before they are made.                            *)

LEMMA Finite ==
    /\ IsFiniteSet(Slot)
    /\ Cardinality(Slot) \in Nat
    /\ IsFiniteSet(Early) /\ Cardinality(Early) \in Nat
    /\ Cardinality(Early) <= Cardinality(Slot)
    /\ IsFiniteSet(Writing) /\ Cardinality(Writing) \in Nat
<1>1. IsFiniteSet(Slot)
  BY NegotiationAssumption
<1>2. Early \subseteq Slot /\ Writing \subseteq Slot
  BY DEF Early, Writing
<1> QED
  BY <1>1, <1>2, FS_Subset, FS_CardinalityType

LEMMA FinitePrimed ==
    /\ IsFiniteSet(Early') /\ Cardinality(Early') \in Nat
    /\ Cardinality(Early') <= Cardinality(Slot)
    /\ IsFiniteSet(Writing') /\ Cardinality(Writing') \in Nat
<1>1. IsFiniteSet(Slot)
  BY NegotiationAssumption
<1>2. Early' \subseteq Slot /\ Writing' \subseteq Slot
  BY DEF Early, Writing
<1> QED
  BY <1>1, <1>2, FS_Subset, FS_CardinalityType

(* A step that neither counts a round nor makes an offer.                  *)
LEMMA QuietCounted ==
    ASSUME Counted, TypeOK, round' = round, offers' = offers,
           Early' \subseteq Early, Writing' \subseteq Writing
    PROVE  Counted'
<1>1. Cardinality(Early') <= Cardinality(Early) /\ Cardinality(Writing') <= Cardinality(Writing)
  BY Finite, FS_Subset
<1>2. Config.maxRounds \in Nat
  BY NegotiationAssumption
<1>3. Len(offers) \in Nat /\ round \in Nat
  BY DEF TypeOK
<1> QED
  BY <1>1, <1>2, <1>3, Finite, FinitePrimed DEF Counted

LEMMA AnsweredSets ==
    ASSUME TypeOK, NEW r \in Slot, Answered(r)
    PROVE  Early' = Early \ {r} /\ Writing' = Writing \ {r}
BY DEF TypeOK, Answered, Goto, Early, Undecided, Reading, Writing

LEMMA GotoSets ==
    ASSUME TypeOK, NEW r \in Slot, NEW where \in Pc, Goto(r, where)
    PROVE  /\ Early' = IF where \in Undecided THEN Early \cup {r} ELSE Early \ {r}
           /\ Writing' = IF where = "generate" THEN Writing \cup {r} ELSE Writing \ {r}
BY DEF TypeOK, Goto, Early, Undecided, Reading, Writing

LEMMA ArriveCounted ==
    ASSUME Counted, TypeOK, NEW r \in Slot, NEW q \in Request, Arrive(r, q)
    PROVE  Counted'
<1>1. CASE ArriveReleased(r, q)
  BY <1>1, QuietCounted DEF ArriveReleased, Early, Writing
<1>2. ASSUME NEW where \in {"verify", "classify"}, Enter(r, q, where) PROVE Counted'
  <2>1. round < Config.maxRounds /\ round' = round /\ offers' = offers
    BY <1>2, NegotiationAssumption DEF Enter, MustRelease, told, TypeOK
  <2>2. Writing' = Writing \ {r}
    BY <1>2, GotoSets DEF Enter, Pc
  <2>3. Writing' = Writing
    BY <1>2, <2>2 DEF Enter, Writing, At
  <2>4. Config.maxRounds \in Nat /\ round \in Nat
    BY NegotiationAssumption DEF TypeOK
  <2> QED
    BY <2>1, <2>3, <2>4, Finite, FinitePrimed DEF Counted
<1> QED
  BY <1>1, <1>2 DEF Arrive, ArriveConfirming, ArriveSpeaking

LEMMA StepCounted ==
    ASSUME Counted, TypeOK, NEW r \in Slot, Step(r) \/ Failure(r)
    PROVE  Counted'
<1>1. ASSUME Answered(r), round' = round, offers' = offers PROVE Counted'
  BY <1>1, AnsweredSets, QuietCounted
<1>2. CASE PassOn(r) \/ AskAgain(r) \/ HoldOut(r) \/ GiveUp(r) \/ Block(r)
           \/ Escalate(r) \/ IssueRefund(r) \/ VerifyFails(r) \/ CommitFails(r)
  <2>1. Answered(r) /\ round' = round /\ offers' = offers
    BY <1>2 DEF PassOn, AskAgain, HoldOut, GiveUp, Block, Escalate, IssueRefund,
                VerifyFails, CommitFails, session, told
  <2> QED
    BY <1>1, <2>1
<1>3. CASE \/ Classify(r) \/ Feel(r) \/ ReadCustomer(r) \/ ReadCustomerMissing(r)
           \/ ReadOrders(r) \/ LookUp(r) \/ Confirm(r)
  <2>1. PICK where \in Undecided : Goto(r, where)
    BY <1>3 DEF Classify, Feel, ReadCustomer, ReadCustomerMissing, AskCustomer, ReadOrders,
                LookUp, Confirm, Undecided, Reading
  <2>2. r \in Early /\ round' = round /\ offers' = offers
    BY <1>3 DEF Classify, Feel, ReadCustomer, ReadCustomerMissing, AskCustomer, ReadOrders,
                LookUp, Confirm, At, Early, Undecided, Reading, session, told
  <2>3. Early' \subseteq Early /\ Writing' \subseteq Writing
    BY <2>1, <2>2, GotoSets DEF Pc, Undecided, Reading
  <2> QED
    BY <2>2, <2>3, QuietCounted
<1>4. CASE ToReview(r) \/ ToRefund(r)
  <2>1. PICK where \in {"review", "refund"} : Decide(r, where)
    BY <1>4 DEF ToReview, ToRefund
  <2>2. Early' \subseteq Early /\ Writing' \subseteq Writing
    BY <2>1, GotoSets DEF Decide, Pc, Undecided, Reading
  <2> QED
    BY <2>1, <2>2, QuietCounted DEF Decide, session, told
<1>5. ASSUME Propose(r), Early' = Early \ {r}
      PROVE  /\ round' = round + 1
             /\ round' + Cardinality(Early') < Config.maxRounds + Cardinality(Slot)
  <2>1. r \in Early /\ round' = round + 1
    BY <1>5 DEF Propose, MayRetain, At, Early, Undecided
  <2>2. Cardinality(Early') = Cardinality(Early) - 1
    BY <1>5, <2>1, Finite, FS_RemoveElement
  <2>3. Config.maxRounds \in Nat /\ round \in Nat
    BY NegotiationAssumption DEF TypeOK
  <2> QED
    BY <2>1, <2>2, <2>3, Finite DEF Counted
<1>6. Len(offers) \in Nat /\ round \in Nat /\ \A x : Len(Append(offers, x)) = Len(offers) + 1
  BY DEF TypeOK
<1>7. CASE AskModel(r)
  <2>1. Early' = Early \ {r} /\ Writing' = Writing \cup {r}
    BY <1>7, GotoSets DEF AskModel, Pc, Undecided, Reading
  <2>2. Cardinality(Writing') <= Cardinality(Writing) + 1
    <3>1. Cardinality(Writing \cup {r}) =
            IF r \in Writing THEN Cardinality(Writing) ELSE Cardinality(Writing) + 1
      BY Finite, FS_AddElement
    <3> QED
      BY <2>1, <3>1, Finite
  <2>3. offers' = offers /\ Propose(r)
    BY <1>7 DEF AskModel, told
  <2> QED
    BY <1>5, <1>6, <2>1, <2>2, <2>3, Finite, FinitePrimed DEF Counted
<1>8. CASE UseTemplate(r)
  <2>1. Propose(r) /\ Early' = Early \ {r} /\ Writing' = Writing \ {r}
    BY <1>8, AnsweredSets DEF UseTemplate
  <2>2. Writing' = Writing
    BY <2>1 DEF Propose, MayRetain, At, Writing
  <2>3. Len(offers') = Len(offers) + 1
    BY <1>6, <1>8 DEF UseTemplate
  <2>4. Cardinality(Writing') = Cardinality(Writing)
    BY <2>2
  <2>5. round' = round + 1
    BY <2>1 DEF Propose
  <2> QED
    BY <1>5, <1>6, <2>1, <2>3, <2>4, <2>5, Finite DEF Counted
<1>9. CASE MakeOffer(r)
  <2>1. Early' = Early \ {r} /\ Writing' = Writing \ {r} /\ r \in Writing
    BY <1>9, AnsweredSets DEF MakeOffer, At, Writing
  <2>2. Cardinality(Writing') = Cardinality(Writing) - 1
    BY <2>1, Finite, FS_RemoveElement
  <2>3. Cardinality(Early') <= Cardinality(Early)
    BY <2>1, Finite, FS_Subset
  <2>4. Len(offers') = Len(offers) + 1 /\ round' = round
    BY <1>6, <1>9 DEF MakeOffer, session
  <2>5. Config.maxRounds \in Nat
    BY NegotiationAssumption
  <2> QED
    BY <1>6, <2>2, <2>3, <2>4, <2>5, Finite, FinitePrimed DEF Counted
<1> QED
  BY <1>2, <1>3, <1>4, <1>7, <1>8, <1>9 DEF Step, Failure

LEMMA InitCounted == Init => Counted
<1> SUFFICES ASSUME Init PROVE Counted
  OBVIOUS
<1>1. Early = {} /\ Writing = {}
  BY DEF Init, Early, Undecided, Reading, Writing
<1>2. Cardinality(Early) = 0 /\ Cardinality(Writing) = 0
  BY <1>1, FS_EmptySet
<1>3. Len(offers) = 0 /\ round = 0
  BY DEF Init
<1>4. Config.maxRounds \in Nat \ {0}
  BY NegotiationAssumption
<1> QED
  BY <1>2, <1>3, <1>4, Finite DEF Counted

LEMMA NextCounted == Typed /\ Counted /\ [Next]_vars => Counted'
<1> SUFFICES ASSUME Typed, Counted, [Next]_vars PROVE Counted'
  OBVIOUS
<1>1. CASE Next
  BY <1>1, ArriveCounted, StepCounted DEF Next, Typed
<1>2. CASE UNCHANGED vars
  BY <1>2, QuietCounted DEF vars, local, session, told, Early, Writing, Typed
<1> QED
  BY <1>1, <1>2

(* However many turns of a conversation overlap, and however each of them  *)
(* goes, the offers made stay below the round limit plus the number of     *)
(* turns in service; with one turn at a time that is the round limit.      *)
THEOREM OffersAreBounded == Spec => []OffersBounded
<1>1. Typed /\ Counted => OffersBounded
  <2> SUFFICES ASSUME Typed, Counted PROVE OffersBounded
    OBVIOUS
  <2>1. Len(offers) \in Nat /\ round \in Nat /\ Config.maxRounds \in Nat
    BY NegotiationAssumption DEF Typed, TypeOK
  <2> QED
    BY <2>1, Finite DEF Counted, OffersBounded
<1> QED
  BY InitTyped, NextTyped, InitCounted, NextCounted, <1>1, PTL DEF Spec

-----------------------------------------------------------------------------
(* Whatever is offered, refunded or reviewed has been named.  A turn that  *)
(* has looked up its order carries such a one, and so do the session and   *)
(* every request.                                                          *)
Deciding == {"confirm", "decide", "generate", "review", "refund"}

Named ==
    /\ orderId # None => orderId \in confirmed
    /\ \A r \in Slot :
         /\ req[r].confirm # None => req[r].confirm \in confirmed
         /\ pc[r] \in Deciding => subject[r] \in confirmed
    /\ ConfirmedOnly

(* An element of a longer sequence is an old one or the new one.           *)
LEMMA AppendElements ==
    ASSUME NEW S, NEW seq \in Seq(S), NEW x \in S
    PROVE  /\ Append(seq, x) \in Seq(S)
           /\ DOMAIN Append(seq, x) = 1..(Len(seq) + 1)
           /\ DOMAIN seq = 1..Len(seq)
           /\ Len(seq) \in Nat
           /\ \A i \in DOMAIN seq : Append(seq, x)[i] = seq[i]
           /\ Append(seq, x)[Len(seq) + 1] = x
OBVIOUS

(* An answered turn leaves no request and no subject behind.               *)
LEMMA AnsweredNamed ==
    ASSUME Typed, Named, NEW r \in Slot, Answered(r), UNCHANGED <<orderId, confirmed>>
    PROVE  /\ orderId' # None => orderId' \in confirmed'
           /\ \A q \in Slot :
                /\ req'[q].confirm # None => req'[q].confirm \in confirmed'
                /\ pc'[q] \in Deciding => subject'[q] \in confirmed'
<1> USE DEF Typed, TypeOK, Named, Answered, Goto, NoRequest, Deciding
<1>1. ASSUME NEW q \in Slot
      PROVE  /\ req'[q].confirm # None => req'[q].confirm \in confirmed'
             /\ pc'[q] \in Deciding => subject'[q] \in confirmed'
  <2>1. CASE q = r
    BY <2>1
  <2>2. CASE q # r
    BY <2>2
  <2> QED
    BY <2>1, <2>2
<1> QED
  BY <1>1

LEMMA ArriveNamed ==
    ASSUME Typed, Named, NEW r \in Slot, NEW q \in Request, Arrive(r, q)
    PROVE  Named'
<1> USE DEF Typed, Named, ConfirmedOnly
<1>1. UNCHANGED <<orderId, offers, refunds, tickets, subject>>
  BY DEF Arrive, ArriveReleased, ArriveConfirming, ArriveSpeaking, Enter, told
<1>2. confirmed' = confirmed \cup ({q.confirm} \ {None})
  BY DEF Arrive, ArriveReleased, ArriveConfirming, ArriveSpeaking, Enter, Receive
<1>3. ASSUME NEW p \in Slot
      PROVE  /\ req'[p].confirm # None => req'[p].confirm \in confirmed'
             /\ pc'[p] \in Deciding => subject'[p] \in confirmed'
  <2>1. CASE UNCHANGED <<pc, req>>
    BY <1>1, <1>2, <2>1
  <2>2. ASSUME NEW where \in {"verify", "classify"}, Enter(r, q, where)
        PROVE  /\ req'[p].confirm # None => req'[p].confirm \in confirmed'
               /\ pc'[p] \in Deciding => subject'[p] \in confirmed'
    BY <1>1, <1>2, <2>2 DEF Enter, Goto, TypeOK, Deciding
  <2> QED
    BY <2>1, <2>2 DEF Arrive, ArriveReleased, ArriveConfirming, ArriveSpeaking
<1> QED
  BY <1>1, <1>2, <1>3

(* Steps on the way to the decision.                                       *)
LEMMA ApproachNamed ==
    ASSUME Typed, Named, NEW r \in Slot,
           \/ Classify(r) \/ Feel(r) \/ ReadCustomer(r) \/ ReadCustomerMissing(r)
           \/ ReadOrders(r) \/ LookUp(r) \/ Confirm(r)
    PROVE  Named'
<1> USE NegotiationAssumption DEF Typed, Named, ConfirmedOnly
<1>1. UNCHANGED <<req, offers, refunds, tickets, confirmed>>
  BY DEF Classify, Feel, ReadCustomer, ReadCustomerMissing, AskCustomer, ReadOrders, LookUp,
         Confirm, told
<1>2. CASE \/ Classify(r) \/ Feel(r) \/ ReadCustomer(r) \/ ReadCustomerMissing(r)
           \/ ReadOrders(r)
  <2>1. UNCHANGED <<subject, orderId>>
    BY <1>2 DEF Classify, Feel, ReadCustomer, ReadCustomerMissing, AskCustomer, ReadOrders,
                session
  <2>2. \A p \in Slot : pc'[p] \in Deciding => pc[p] \in Deciding
    BY <1>2 DEF Classify, Feel, ReadCustomer, ReadCustomerMissing, AskCustomer, ReadOrders,
                Goto, TypeOK, Deciding
  <2> QED
    BY <1>1, <2>1, <2>2
<1>3. CASE LookUp(r)
  <2>1. Chosen(r) \in confirmed
    BY <1>3 DEF LookUp, Chosen
  <2>2. \A p \in Slot : subject'[p] = IF p = r THEN Chosen(r) ELSE subject[p]
    BY <1>3 DEF LookUp, TypeOK
  <2>3. \A p \in Slot : p # r => pc'[p] = pc[p]
    BY <1>3 DEF LookUp, Goto, TypeOK
  <2>4. UNCHANGED orderId
    BY <1>3 DEF LookUp, session
  <2> QED
    BY <1>1, <2>1, <2>2, <2>3, <2>4
<1>4. CASE Confirm(r)
  <2>1. subject[r] \in confirmed /\ orderId' = subject[r] /\ UNCHANGED subject
    BY <1>4 DEF Confirm, At, Deciding
  <2>2. \A p \in Slot : p # r => pc'[p] = pc[p]
    BY <1>4 DEF Confirm, Goto, TypeOK
  <2> QED
    BY <1>1, <2>1, <2>2
<1> QED
  BY <1>2, <1>3, <1>4

(* Steps that tell the customer nothing about an order.                    *)
LEMMA SilentNamed ==
    ASSUME Typed, Named, NEW r \in Slot,
           \/ PassOn(r) \/ AskAgain(r) \/ VerifyFails(r) \/ HoldOut(r) \/ GiveUp(r)
           \/ Block(r) \/ CommitFails(r) \/ ToReview(r) \/ ToRefund(r) \/ AskModel(r)
    PROVE  Named'
<1> USE DEF Typed, Named, ConfirmedOnly
<1>1. UNCHANGED <<orderId, confirmed, offers, refunds, tickets>>
  BY DEF PassOn, AskAgain, VerifyFails, HoldOut, GiveUp, Block, CommitFails, ToReview,
         ToRefund, Decide, AskModel, session, told
<1>2. CASE Answered(r)
  BY <1>1, <1>2, AnsweredNamed
<1>3. ASSUME NEW where \in {"review", "refund", "generate"}, At(r, "decide"), Goto(r, where),
             UNCHANGED <<req, subject>>
      PROVE  Named'
  <2>1. \A p \in Slot : pc'[p] \in Deciding => pc[p] \in Deciding
    BY <1>3 DEF At, Goto, TypeOK, Deciding
  <2> QED
    BY <1>1, <1>3, <2>1
<1>4. CASE ToReview(r) \/ ToRefund(r)
  BY <1>3, <1>4 DEF ToReview, ToRefund, Decide
<1>5. CASE AskModel(r)
  BY <1>3, <1>5 DEF AskModel, Propose, MayRetain
<1> QED
  BY <1>2, <1>4, <1>5 DEF PassOn, AskAgain, VerifyFails, HoldOut, GiveUp, Block, CommitFails

(* Steps that do.                                                          *)
LEMMA TellingNamed ==
    ASSUME Typed, Named, NEW r \in Slot,
           UseTemplate(r) \/ MakeOffer(r) \/ Escalate(r) \/ IssueRefund(r)
    PROVE  Named'
<1> USE DEF Typed, Named
<1>1. subject[r] \in confirmed \cap Owned
  BY DEF UseTemplate, MakeOffer, Escalate, IssueRefund, Propose, MayRetain, At, Carries, Deciding
<1>2. Answered(r) /\ UNCHANGED <<orderId, confirmed>>
  BY DEF UseTemplate, MakeOffer, Escalate, IssueRefund, session
<1>3. CASE UseTemplate(r) \/ MakeOffer(r)
  <2>1. UNCHANGED <<refunds, tickets>>
    BY <1>3 DEF UseTemplate, MakeOffer
  <2>2. \E x : offers' = Append(offers, x) /\ x.order = subject[r]
    <3>1. ASSUME NEW scenario, NEW o, offers' = Append(offers, Made(r, scenario, o))
          PROVE  \E x : offers' = Append(offers, x) /\ x.order = subject[r]
      <4>1. Made(r, scenario, o).order = subject[r]
        BY DEF Made
      <4> QED
        BY <3>1, <4>1
    <3>2. CASE UseTemplate(r)
      BY <3>1, <3>2 DEF UseTemplate
    <3>3. CASE MakeOffer(r)
      BY <3>1, <3>3 DEF MakeOffer
    <3> QED
      BY <1>3, <3>2, <3>3
  <2>5. PICK x : offers' = Append(offers, x) /\ x.order = subject[r]
    BY <2>2
  <2>3. offers \in Seq(OfferMade) /\ offers' \in Seq(OfferMade)
    BY <1>3, OfferingTyped DEF TypeOK
  <2>4. ASSUME NEW i \in DOMAIN offers' PROVE offers'[i].order \in confirmed' \cap Owned
    <3>1. offers'[i] = IF i \in DOMAIN offers THEN offers[i] ELSE x
      BY <2>3, <2>5
    <3> QED
      BY <1>1, <1>2, <2>5, <3>1 DEF ConfirmedOnly
  <2> QED
    BY <1>2, <2>1, <2>4, AnsweredNamed DEF ConfirmedOnly
<1>4. CASE Escalate(r)
  BY <1>1, <1>2, <1>4, AnsweredNamed DEF Escalate, ConfirmedOnly
<1>5. CASE IssueRefund(r)
  <2>1. UNCHANGED <<offers, tickets>>
    BY <1>5 DEF IssueRefund
  <2>2. ASSUME NEW f \in refunds' PROVE f.order \in confirmed' \cap Owned
    <3>1. f \in refunds \/ f = Paid(r)
      BY <1>5 DEF IssueRefund
    <3>2. f.order \in {g.order : g \in refunds} \/ f.order = subject[r]
      BY <3>1 DEF Paid
    <3> QED
      BY <1>1, <1>2, <3>2 DEF ConfirmedOnly
  <2>3. {f.order : f \in refunds'} \subseteq confirmed' \cap Owned
    BY <2>2
  <2> QED
    BY <1>2, <2>1, <2>3, AnsweredNamed DEF ConfirmedOnly
<1> QED
  BY <1>3, <1>4, <1>5

(* Offers, refunds and tickets are only ever about an order of the         *)
(* customer that the customer has named, however many turns overlap,       *)
(* change their mind or fail half way (S3, app.py:344).                    *)
THEOREM OnlyConfirmed == Spec => []ConfirmedOnly
<1>1. Init => Named
  BY DEF Init, Named, ConfirmedOnly, NoRequest, Deciding
<1>2. Typed /\ Named /\ [Next]_vars => Named'
  <2> SUFFICES ASSUME Typed, Named, [Next]_vars PROVE Named'
    OBVIOUS
  <2>1. CASE Next
    BY <2>1, ArriveNamed, ApproachNamed, SilentNamed, TellingNamed DEF Next, Step, Failure
  <2>2. CASE UNCHANGED vars
    BY <2>2 DEF vars, local, session, told, Named, ConfirmedOnly
  <2> QED
    BY <2>1, <2>2
<1>3. Named => ConfirmedOnly
  BY DEF Named
<1> QED
  BY InitTyped, NextTyped, <1>1, <1>2, <1>3, PTL DEF Spec

-----------------------------------------------------------------------------
(* Refunds.  A turn that is reading has read the customer the session has, *)
(* and one that decides the customer whose order it is about, unless the   *)
(* session was given to another in between.  What qualified when the turn  *)
(* decided still does when the refund is committed: the attempts made only *)
(* become more.                                                            *)
ReadRight(r) ==
    /\ pc[r] \in Reading => customer[r].id = customerId
    /\ pc[r] = "decide" => customer[r].id = Owner[subject[r]]

Cleared ==
    /\ \A r \in Slot : customer[r].swapped \/ ReadRight(r)
    /\ \A r \in Slot : pc[r] = "refund" => Qualifies(Paid(r))
    /\ RefundsQualify

LEMMA QualifiesStays ==
    ASSUME TypeOK, round' \in Nat, round' >= round,
           NEW f, Qualifies(f)
    PROVE  Qualifies(f)'
<1> USE NegotiationAssumption
<1>1. CASE AutoRefund = NoAuto \/ "extras" \in f.missing
  BY <1>1 DEF Qualifies
<1>2. CASE ~(AutoRefund = NoAuto \/ "extras" \in f.missing)
  <2>1. AutoRefund.attempts \in Nat
    BY <1>2
  <2>2. round \in Nat /\ AutoRefund.attempts <= round
    BY <1>2 DEF Qualifies, TypeOK
  <2>3. AutoRefund.attempts <= round'
    BY <2>1, <2>2
  <2> QED
    BY <1>2, <2>3 DEF Qualifies
<1> QED
  BY <1>1, <1>2

(* The decision to refund is taken on what Qualifies says.                 *)
LEMMA TriageQualifies ==
    ASSUME Typed, NEW r \in Slot, ToRefund(r), customer[r].swapped \/ ReadRight(r)
    PROVE  Qualifies(Paid(r))
<1> USE NegotiationAssumption
<1> DEFINE f == Paid(r)
<1>9. f.order = subject[r] /\ f.missing = missing[r] /\ f.swapped = customer[r].swapped
  BY DEF Paid
<1>1. /\ Scenario(r) = "emotional_insist"
      /\ Resolved(r, round).action # "escalate_human"
  BY DEF ToRefund, NeedsReview
<1>2. Resolved(r, round).action =
          TriageRefund(Order(r), CustomerOf(r), Broken(r), round, Config, AutoOf(r))
  BY <1>1 DEF Resolved, BuildResolution, Resolution
<1>3. /\ AutoQualified(Order(r), Config, AutoOf(r), round)
      /\ Anomalies(Order(r), CustomerOf(r), Broken(r), Config) = {}
  BY <1>1, <1>2 DEF TriageRefund
<1>4. ~CustomerOf(r).risk /\ ~(Order(r).days > Config.window)
  BY <1>3 DEF Anomalies
<1>5. subject[r] \in OrderId
  BY DEF ToRefund, Decide, At, Typed, Carries, Owned
<1>6. OrderOf[subject[r]].days <= Config.window
  <2>1. OrderOf[subject[r]].days \in Nat /\ Config.window \in Nat
    BY <1>5
  <2> QED
    BY <1>4, <2>1 DEF Order
<1>7. ~Customer[Owner[subject[r]]].risk \/ "customer" \in missing[r] \/ customer[r].swapped
  <2>1. Owner[subject[r]] # None
    BY <1>5
  <2>2. customer[r].swapped \/ customer[r].id = Owner[subject[r]]
    BY DEF ReadRight, ToRefund, Decide, At
  <2> QED
    BY <1>4, <2>1, <2>2 DEF CustomerOf
<1>8. IF AutoRefund = NoAuto \/ "extras" \in missing[r]
      THEN OrderOf[subject[r]].total <= Config.refundCap
      ELSE /\ AutoRefund.enabled
           /\ AutoRefund.attempts <= round
           /\ OrderOf[subject[r]].total <= AutoRefund.max
  <2>1. CASE AutoRefund = NoAuto \/ "extras" \in missing[r]
    BY <1>3, <2>1 DEF AutoQualified, AutoOf, Order
  <2>2. CASE ~(AutoRefund = NoAuto \/ "extras" \in missing[r])
    BY <1>3, <2>2 DEF AutoQualified, AutoOf, Order, Typed, TypeOK
  <2> QED
    BY <2>1, <2>2
<1> QED
  BY <1>6, <1>7, <1>8, <1>9 DEF Qualifies

(* What a turn is about to refund only changes with its place.             *)
LEMMA RefundPending ==
    ASSUME Typed, NEW r \in Slot, NEW p \in Slot, pc'[p] = "refund",
           Step(r) \/ Failure(r)
    PROVE  /\ Paid(p)' = Paid(p)
           /\ pc[p] = "refund" \/ (p = r /\ ToRefund(r))
<1> USE DEF Typed, TypeOK, Paid
<1>1. ASSUME Answered(r)
      PROVE  p # r /\ pc[p] = "refund" /\ Paid(p)' = Paid(p)
  BY <1>1 DEF Answered, Goto
<1>2. ASSUME NEW where \in Pc \ {"refund"}, Goto(r, where)
      PROVE  p # r /\ pc[p] = "refund"
  BY <1>2 DEF Goto
<1>3. CASE Classify(r) \/ Feel(r) \/ AskModel(r) \/ ToReview(r) \/ ReadOrders(r) \/ Confirm(r)
  BY <1>2, <1>3 DEF Classify, Feel, AskModel, ToReview, Decide, ReadOrders, Confirm, Pc, Reading
<1>4. CASE ReadCustomer(r) \/ ReadCustomerMissing(r)
  BY <1>2, <1>4 DEF ReadCustomer, ReadCustomerMissing, AskCustomer, Pc, Reading
<1>5. CASE LookUp(r)
  BY <1>2, <1>5 DEF LookUp, Pc, Reading
<1>6. CASE ToRefund(r)
  BY <1>6 DEF ToRefund, Decide, Goto
<1> QED
  BY <1>1, <1>3, <1>4, <1>5, <1>6
     DEF Step, Failure, PassOn, AskAgain, HoldOut, GiveUp, UseTemplate, MakeOffer, Block,
         Escalate, IssueRefund, VerifyFails, CommitFails

(* A turn serves the customer it has read, as long as there is no other.   *)
LEMMA StepReadRight ==
    ASSUME Typed, Cleared, NEW r \in Slot, Step(r) \/ Failure(r), NEW p \in Slot
    PROVE  customer'[p].swapped \/ ReadRight(p)'
<1> USE DEF Typed, TypeOK
<1>1. customer[p].swapped \/ ReadRight(p)
  BY DEF Cleared
<1>2. CASE Answered(r) /\ UNCHANGED customerId
  BY <1>1, <1>2 DEF Answered, Goto, ReadRight, Reading
<1>3. ASSUME NEW where \in {"feel", "verify", "generate", "review", "refund"}, Goto(r, where),
             UNCHANGED <<customer, subject, customerId>>
      PROVE  customer'[p].swapped \/ ReadRight(p)'
  BY <1>1, <1>3 DEF Goto, ReadRight, Reading
<1>4. CASE Classify(r) \/ Feel(r) \/ AskModel(r) \/ ToReview(r) \/ ToRefund(r)
  BY <1>3, <1>4 DEF Classify, Feel, AskModel, ToReview, ToRefund, Decide, session
<1>5. CASE ReadCustomer(r) \/ ReadCustomerMissing(r)
  BY <1>1, <1>5 DEF ReadCustomer, ReadCustomerMissing, AskCustomer, Goto, ReadRight, Reading,
                    session
<1>6. CASE ReadOrders(r)
  BY <1>1, <1>6 DEF ReadOrders, At, Goto, ReadRight, Reading, session
<1>7. CASE LookUp(r)
  BY <1>1, <1>7 DEF LookUp, At, Goto, ReadRight, Reading, session
<1>8. CASE Confirm(r)
  BY <1>1, <1>8 DEF Confirm, At, Goto, ReadRight, Reading
<1> QED
  BY <1>2, <1>4, <1>5, <1>6, <1>7, <1>8
     DEF Step, Failure, PassOn, AskAgain, HoldOut, GiveUp, UseTemplate, MakeOffer, Block,
         Escalate, IssueRefund, VerifyFails, CommitFails, session

LEMMA StepCleared ==
    ASSUME Typed, Cleared, NEW r \in Slot, Step(r) \/ Failure(r)
    PROVE  Cleared'
<1>1. round \in Nat /\ round' \in Nat /\ round' >= round
  BY DEF Typed, TypeOK, Step, Failure, Classify, Feel, PassOn, AskAgain, ReadCustomer,
         ReadCustomerMissing, AskCustomer, ReadOrders, LookUp, Confirm, HoldOut, ToReview,
         ToRefund, GiveUp, AskModel, UseTemplate, MakeOffer, Block, Escalate, IssueRefund,
         VerifyFails, CommitFails, Decide, Propose, session
<1>2. ASSUME NEW p \in Slot, pc'[p] = "refund"
      PROVE  Qualifies(Paid(p))'
  <2>1. /\ Paid(p)' = Paid(p)
        /\ pc[p] = "refund" \/ (p = r /\ ToRefund(r))
    BY <1>2, RefundPending
  <2>2. Qualifies(Paid(p))
    BY <2>1, TriageQualifies DEF Cleared
  <2> DEFINE f == Paid(p)
  <2>3. Qualifies(f)
    BY <2>2
  <2> HIDE DEF f
  <2>4. \A g : g = f => Qualifies(g)'
    BY <1>1, <2>3, QualifiesStays DEF Typed
  <2> QED
    BY <2>1, <2>4 DEF f
<1>3. ASSUME NEW f \in refunds' PROVE Qualifies(f)'
  <2>1. CASE f \in refunds
    BY <1>1, <2>1, QualifiesStays DEF Typed, Cleared, RefundsQualify
  <2>2. CASE f \notin refunds
    <3>1. IssueRefund(r)
      BY <2>2 DEF Step, Failure, Classify, Feel, PassOn, AskAgain, ReadCustomer,
         ReadCustomerMissing, AskCustomer, ReadOrders, LookUp, Confirm, HoldOut, ToReview,
         ToRefund, GiveUp, AskModel, UseTemplate, MakeOffer, Block, Escalate,
         VerifyFails, CommitFails, Decide, told
    <3>2. pc[r] = "refund" /\ f = Paid(r)
      BY <2>2, <3>1 DEF IssueRefund, At
    <3> QED
      BY <1>1, <3>2, QualifiesStays DEF Typed, Cleared
  <2> QED
    BY <2>1, <2>2
<1> QED
  BY <1>2, <1>3, StepReadRight DEF Cleared, RefundsQualify

LEMMA ArriveCleared ==
    ASSUME Typed, Cleared, NEW r \in Slot, NEW q \in Request, Arrive(r, q)
    PROVE  Cleared'
<1>1. UNCHANGED <<round, refunds, subject, missing>>
  BY DEF Arrive, ArriveReleased, ArriveConfirming, ArriveSpeaking, Enter, told
<1>2. Receive(q)
  BY DEF Arrive, ArriveReleased, ArriveConfirming, ArriveSpeaking, Enter
<1>3. ASSUME NEW p \in Slot, pc'[p] \in Reading \cup {"decide", "refund"}
      PROVE  pc'[p] = pc[p]
  <2>1. ASSUME NEW where \in {"verify", "classify"}, Goto(r, where) PROVE pc'[p] = pc[p]
    BY <1>3, <2>1 DEF Goto, Typed, TypeOK, Reading
  <2> QED
    BY <1>3, <2>1 DEF Arrive, ArriveReleased, ArriveConfirming, ArriveSpeaking, Enter
<1>4. ASSUME NEW p \in Slot
      PROVE  /\ customer'[p].id = customer[p].id
             /\ customer'[p].swapped =
                    (customer[p].swapped \/ (customerId' # customerId /\ pc[p] \in Reading))
  <2>1. customer[p] \in [id : CustomerId \cup {None}, swapped : BOOLEAN]
    BY DEF Typed, TypeOK
  <2>2. CASE customerId' = customerId
    BY <1>2, <2>1, <2>2 DEF Receive
  <2>3. CASE customerId' # customerId
    <3>1. customer'[p] = [customer[p] EXCEPT !.swapped = @ \/ pc[p] \in Reading]
      BY <1>2, <2>3 DEF Receive
    <3> QED
      BY <2>1, <2>3, <3>1
  <2> QED
    BY <2>2, <2>3
<1>5. ASSUME NEW p \in Slot PROVE customer'[p].swapped \/ ReadRight(p)'
  <2>1. customer[p].swapped \/ ReadRight(p)
    BY DEF Cleared
  <2> QED
    BY <1>1, <1>3, <1>4, <2>1 DEF ReadRight
<1>6. ASSUME NEW p \in Slot, pc'[p] = "refund" PROVE Qualifies(Paid(p))'
  <2>1. pc[p] = "refund"
    BY <1>3, <1>6
  <2>2. customer'[p].swapped = customer[p].swapped
    <3>1. pc[p] \notin Reading
      BY <2>1 DEF Reading
    <3>2. customer[p].swapped \in BOOLEAN
      BY DEF Typed, TypeOK
    <3> QED
      BY <1>4, <3>1, <3>2
  <2>3. Paid(p)' = Paid(p)
    BY <1>1, <2>2 DEF Paid
  <2>4. Qualifies(Paid(p))
    BY <2>1 DEF Cleared
  <2> QED
    BY <1>1, <2>3, <2>4 DEF Qualifies
<1>7. RefundsQualify'
  BY <1>1 DEF Cleared, RefundsQualify, Qualifies
<1> QED
  BY <1>5, <1>6, <1>7 DEF Cleared

(* Every refund nobody looked at keeps to the window, the risk flag and    *)
(* the merchant's limits as far as they could be read, for any number of   *)
(* overlapping turns; to the flag unless the session changed hands between *)
(* the reading of the customer and that of the order                       *)
(* (app.py:327-360, policy.triage_refund, app._emotional).                 *)
THEOREM RefundsKeepLimits == Spec => []RefundsQualify
<1>1. Init => Cleared
  BY DEF Init, Cleared, ReadRight, Reading, RefundsQualify
<1>2. Typed /\ Cleared /\ [Next]_vars => Cleared'
  <2> SUFFICES ASSUME Typed, Cleared, [Next]_vars PROVE Cleared'
    OBVIOUS
  <2>1. CASE Next
    BY <2>1, ArriveCleared, StepCleared DEF Next
  <2>2. CASE UNCHANGED vars
    BY <2>2 DEF vars, local, session, told, Cleared, ReadRight, Paid, RefundsQualify, Qualifies
  <2> QED
    BY <2>1, <2>2
<1>3. Cleared => RefundsQualify
  BY DEF Cleared
<1> QED
  BY InitTyped, NextTyped, <1>1, <1>2, <1>3, PTL DEF Spec

-----------------------------------------------------------------------------
(* One turn at a time.  Overlapping turns write an emotion they read       *)
(* before, and make their offers in another order than they counted them;  *)
(* without overlap neither happens.                                        *)
OneTurn == \A r, q \in Slot : r = q

(* A turn that began with the anger on record still knows of it.           *)
Watched ==
    /\ \A r \in Slot :
         /\ pc[r] # "idle" /\ req[r].mood = "recorded" =>
              pc[r] # "generate" /\ emotion >= Config.hardStop
         /\ pc[r] = "feel" => heard[r].emotion >= emotion
    /\ CalmOffers

(* An angry customer is not one to retain.                                 *)
LEMMA AngryNotProposed ==
    ASSUME Typed, NEW r \in Slot, AskModel(r) \/ UseTemplate(r)
    PROVE  ~(emotion >= Config.hardStop)
BY DEF AskModel, UseTemplate, Propose, MayRetain, Scenario, ClassifyScenario

LEMMA OfferedMoods ==
    ASSUME Typed, Watched, NEW r \in Slot, UseTemplate(r) \/ MakeOffer(r)
    PROVE  CalmOffers'
<1>1. pc[r] # "idle" /\ req[r].mood # "recorded"
  <2>1. CASE UseTemplate(r)
    BY <2>1, AngryNotProposed DEF Watched, UseTemplate, Propose, MayRetain, At
  <2>2. CASE MakeOffer(r)
    BY <2>2 DEF Watched, MakeOffer, At
  <2> QED
    BY <2>1, <2>2
<1>2. \E x : offers' = Append(offers, x) /\ x.mood = req[r].mood
  <2>1. ASSUME NEW scenario, NEW o, offers' = Append(offers, Made(r, scenario, o))
        PROVE  \E x : offers' = Append(offers, x) /\ x.mood = req[r].mood
    <3>1. Made(r, scenario, o).mood = req[r].mood
      BY DEF Made
    <3> QED
      BY <2>1, <3>1
  <2>2. CASE UseTemplate(r)
    BY <2>1, <2>2 DEF UseTemplate
  <2>3. CASE MakeOffer(r)
    BY <2>1, <2>3 DEF MakeOffer
  <2> QED
    BY <2>2, <2>3
<1>3. PICK x : offers' = Append(offers, x) /\ x.mood = req[r].mood
  BY <1>2
<1>4. offers \in Seq(OfferMade) /\ offers' \in Seq(OfferMade)
  BY OfferingTyped DEF Typed, TypeOK
<1>5. ASSUME NEW i \in DOMAIN offers' PROVE offers'[i].mood # "recorded"
  <2>1. offers'[i] = IF i \in DOMAIN offers THEN offers[i] ELSE x
    BY <1>3, <1>4
  <2> QED
    BY <1>1, <1>3, <2>1 DEF Watched, CalmOffers
<1> QED
  BY <1>5 DEF CalmOffers

LEMMA AngerInt ==
    /\ \A a \in Answer : a.emotion \in Int
    /\ Config.hardStop \in Int
    /\ TypeOK => emotion \in Int
<1>1. \A a \in Answer : a.emotion \in Int
  BY DEF Answer
<1>2. Config.hardStop \in Int
  BY NegotiationAssumption
<1>3. TypeOK => emotion \in Int
  BY DEF TypeOK
<1> QED
  BY <1>1, <1>2, <1>3

LEMMA NextWatched ==
    ASSUME OneTurn, Typed, Watched, [Next]_vars
    PROVE  Watched'
<1> USE NegotiationAssumption DEF Typed, TypeOK
<1>1. ASSUME NEW r \in Slot, Answered(r), CalmOffers' PROVE Watched'
  <2>1. \A q \in Slot : pc'[q] = "idle"
    BY <1>1 DEF OneTurn, Answered, Goto
  <2> QED
    BY <1>1, <2>1 DEF Watched
<1>2. ASSUME NEW r \in Slot, NEW q \in Request, Arrive(r, q) PROVE Watched'
  <2>1. CASE ArriveReleased(r, q)
    BY <2>1 DEF ArriveReleased, Watched, CalmOffers
  <2>2. ASSUME NEW where \in {"verify", "classify"}, Enter(r, q, where) PROVE Watched'
    <3>1. UNCHANGED <<emotion, offers>>
      BY <2>2 DEF Enter, told
    <3>2. pc'[r] = where /\ req'[r].mood = Mood(q.message)
      BY <2>2 DEF Enter, Goto
    <3>3. req'[r].mood = "recorded" => emotion >= Config.hardStop
      BY <3>2 DEF Mood
    <3> QED
      BY <3>1, <3>2, <3>3 DEF Watched, CalmOffers, OneTurn
  <2> QED
    BY <1>2, <2>1, <2>2 DEF Arrive, ArriveConfirming, ArriveSpeaking
<1>3. ASSUME NEW r \in Slot, Classify(r) PROVE Watched'
  <2>1. heard[r] \in Answer
    BY <1>3 DEF Classify, Carries, At
  <2>2. heard'[r].emotion = IF heard[r].emotion >= emotion THEN heard[r].emotion ELSE emotion
    BY <1>3, <2>1 DEF Classify, Answer
  <2>3. heard[r].emotion \in Int /\ emotion \in Int
    BY <2>1, AngerInt
  <2>4. heard'[r].emotion >= emotion
    BY <2>2, <2>3
  <2>5. UNCHANGED <<req, emotion, offers>> /\ pc[r] = "classify" /\ pc'[r] = "feel"
    BY <1>3 DEF Classify, At, Goto, told
  <2>6. pc'[r] # "idle" /\ req'[r].mood = "recorded" => emotion' >= Config.hardStop
    BY <2>5 DEF Watched
  <2>7. \A q \in Slot : q = r
    BY DEF OneTurn
  <2>8. CalmOffers'
    BY <2>5 DEF Watched, CalmOffers
  <2> QED
    BY <2>4, <2>5, <2>6, <2>7, <2>8 DEF Watched
<1>4. ASSUME NEW r \in Slot, Feel(r) PROVE Watched'
  <2>1. pc[r] = "feel" /\ pc'[r] = "verify" /\ UNCHANGED <<req, offers>>
    BY <1>4 DEF Feel, At, Goto, told
  <2>2. heard[r] \in Answer /\ emotion' = heard[r].emotion
    BY <1>4, <2>1 DEF Feel, Carries
  <2>3. emotion' >= emotion
    BY <2>1, <2>2 DEF Watched
  <2>4. emotion \in Int /\ emotion' \in Int /\ Config.hardStop \in Int
    BY <2>2, AngerInt
  <2>5. emotion >= Config.hardStop => emotion' >= Config.hardStop
    BY <2>3, <2>4
  <2> QED
    BY <2>1, <2>5 DEF Watched, CalmOffers, OneTurn
<1>5. ASSUME NEW r \in Slot, AskModel(r) PROVE Watched'
  <2>1. pc[r] = "decide" /\ pc'[r] = "generate" /\ UNCHANGED <<req, emotion, offers>>
    BY <1>5 DEF AskModel, Propose, MayRetain, At, Goto, told
  <2>2. req[r].mood # "recorded"
    BY <1>5, <2>1, AngryNotProposed DEF Watched
  <2> QED
    BY <2>1, <2>2 DEF Watched, CalmOffers, OneTurn
<1>6. ASSUME NEW r \in Slot, UseTemplate(r) \/ MakeOffer(r) PROVE Watched'
  BY <1>1, <1>6, OfferedMoods DEF UseTemplate, MakeOffer
<1>7. ASSUME NEW r \in Slot,
             \/ ReadCustomer(r) \/ ReadCustomerMissing(r) \/ ReadOrders(r) \/ LookUp(r)
             \/ Confirm(r)
      PROVE  Watched'
  <2>1. /\ pc[r] \in Reading \cup {"verify"} /\ pc'[r] \in Reading \cup {"decide"}
        /\ UNCHANGED <<req, emotion, offers>>
    BY <1>7 DEF ReadCustomer, ReadCustomerMissing, AskCustomer, ReadOrders, LookUp, Confirm,
                At, Goto, Reading, session, told, Typed, TypeOK
  <2>2. pc[r] # "idle" /\ pc'[r] \notin {"idle", "generate", "feel"}
    BY <2>1 DEF Reading
  <2> QED
    BY <2>1, <2>2 DEF Watched, CalmOffers, OneTurn
<1>8. ASSUME NEW r \in Slot, ToReview(r) \/ ToRefund(r) PROVE Watched'
  <2>1. pc[r] = "decide" /\ pc'[r] \in {"review", "refund"} /\ UNCHANGED <<req, emotion, offers>>
    BY <1>8 DEF ToReview, ToRefund, Decide, At, Goto, session, told
  <2> QED
    BY <2>1 DEF Watched, CalmOffers, OneTurn
<1>9. ASSUME NEW r \in Slot,
             \/ PassOn(r) \/ AskAgain(r) \/ HoldOut(r) \/ GiveUp(r) \/ Block(r)
             \/ Escalate(r) \/ IssueRefund(r) \/ VerifyFails(r) \/ CommitFails(r)
      PROVE  Watched'
  <2>1. Answered(r) /\ UNCHANGED offers
    BY <1>9 DEF PassOn, AskAgain, HoldOut, GiveUp, Block, Escalate, IssueRefund, VerifyFails,
                CommitFails, told
  <2> QED
    BY <1>1, <2>1 DEF Watched, CalmOffers
<1>10. CASE UNCHANGED vars
  BY <1>10 DEF vars, local, session, told, Watched, CalmOffers
<1> QED
  BY <1>2, <1>3, <1>4, <1>5, <1>6, <1>7, <1>8, <1>9, <1>10 DEF Next, Step, Failure

(* When the turns of a conversation do not overlap, a customer whose anger *)
(* is on record gets no offer, whatever the later messages sound like and  *)
(* whatever fails (app.py:318, 412).                                       *)
THEOREM AngerIsKept ==
    ASSUME OneTurn
    PROVE  Spec => []CalmOffers
<1>1. Init => Watched
  BY DEF Init, Watched, CalmOffers
<1>2. Typed /\ Watched /\ [Next]_vars => Watched'
  BY OneTurn, NextWatched
<1>3. Watched => CalmOffers
  BY DEF Watched
<1> QED
  BY InitTyped, NextTyped, <1>1, <1>2, <1>3, PTL DEF Spec

(* The credit for an order after n rounds.                                 *)
Credit(order, n) ==
    Least(Percent(OrderOf[order].total, CreditStep(n)), ValueCap(OrderOf[order], Config))

(* No credit made is above the present step of the ladder, and the one     *)
(* being written is on it.                                                 *)
Ladder ==
    /\ \A i \in DOMAIN offers :
         offers[i].scenario = "value_gap" =>
             offers[i].value <= Credit(offers[i].order, round)
    /\ \A r \in Slot :
         pc[r] = "generate" /\ plan[r].scenario = "value_gap" =>
             \A o \in plan[r].offers : o.value \in {0, Credit(subject[r], round)}
    /\ StepUp

LEMMA PercentGrows ==
    ASSUME NEW a \in Nat, NEW p \in {15, 25}, NEW q \in {15, 25}, p <= q
    PROVE  Percent(a, p) <= Percent(a, q)
<1>1. ASSUME NEW x \in Nat, NEW y \in Nat, x <= y PROVE (x + 50) \div 100 <= (y + 50) \div 100
  BY <1>1, SMT
<1>2. a * p \in Nat /\ a * q \in Nat /\ a * p <= a * q
  BY SMT
<1> QED
  BY <1>1, <1>2 DEF Percent

LEMMA CreditGrows ==
    ASSUME NEW order \in OrderId, NEW m \in Nat, NEW n \in Nat, m <= n
    PROVE  /\ Credit(order, m) \in Nat /\ Credit(order, n) \in Nat
           /\ Credit(order, m) <= Credit(order, n)
<1> USE NegotiationAssumption
<1>1. OrderOf[order].total \in Nat /\ Config.discount \in Nat
  OBVIOUS
<1>2. ValueCap(OrderOf[order], Config) \in Nat
  BY <1>1, PercentNat DEF ValueCap
<1>3. /\ CreditStep(m) \in {15, 25} /\ CreditStep(n) \in {15, 25}
      /\ CreditStep(m) <= CreditStep(n)
  BY DEF CreditStep
<1>4. /\ Percent(OrderOf[order].total, CreditStep(m)) \in Nat
      /\ Percent(OrderOf[order].total, CreditStep(n)) \in Nat
      /\ Percent(OrderOf[order].total, CreditStep(m)) <= Percent(OrderOf[order].total, CreditStep(n))
  BY <1>1, <1>3, PercentNat, PercentGrows
<1> QED
  BY <1>2, <1>4 DEF Credit, Least

(* What is proposed in a value dispute costs nothing or is the credit.     *)
LEMMA CreditProposed ==
    ASSUME Typed, NEW r \in Slot, Scenario(r) = "value_gap", NEW n,
           NEW o \in Resolved(r, n).offers
    PROVE  o.value \in {0, Credit(subject[r], n)}
<1>1. o \in {} \cup CreditOffers(Order(r), n, Config)
  BY DEF Resolved, BuildResolution, Resolution
<1> QED
  BY <1>1 DEF CreditOffers, Offer, Credit, Order

(* An offer is added at the top of the ladder.                             *)
LEMMA OfferOnLadder ==
    ASSUME Typed, Ladder, offers' \in Seq(OfferMade), round' \in Nat, round <= round',
           NEW r \in Slot, subject[r] \in Owned,
           NEW x \in OfferMade, offers' = Append(offers, x), x.order = subject[r],
           x.scenario = "value_gap" => x.value \in {0, Credit(subject[r], round')}
    PROVE  /\ \A i \in DOMAIN offers' :
                 offers'[i].scenario = "value_gap" =>
                     offers'[i].value <= Credit(offers'[i].order, round')
           /\ StepUp'
<1>1. /\ offers \in Seq(OfferMade) /\ Len(offers) \in Nat
      /\ DOMAIN offers = 1..Len(offers) /\ DOMAIN offers' = 1..(Len(offers) + 1)
      /\ \A i \in DOMAIN offers : offers'[i] = offers[i]
      /\ offers'[Len(offers) + 1] = x
  BY DEF Typed, TypeOK
<1>2. round \in Nat
  BY DEF Typed, TypeOK
<1>3. \A i \in DOMAIN offers : offers[i].order \in OrderId /\ offers[i].value \in Nat
  <2>1. \A i \in DOMAIN offers : offers[i] \in OfferMade
    BY <1>1
  <2>2. \A m \in OfferMade : m.order \in Owned /\ m.value \in Nat
    BY DEF OfferMade
  <2> QED
    BY <2>1, <2>2, NegotiationAssumption DEF Owned
<1>4. x.value \in Nat /\ subject[r] \in OrderId
  BY NegotiationAssumption DEF OfferMade, Owned
<1>5. ASSUME NEW i \in DOMAIN offers, offers[i].scenario = "value_gap"
      PROVE  offers[i].value <= Credit(offers[i].order, round')
  <2>1. offers[i].value <= Credit(offers[i].order, round)
    BY <1>5 DEF Ladder
  <2>2. /\ Credit(offers[i].order, round) \in Nat /\ Credit(offers[i].order, round') \in Nat
        /\ Credit(offers[i].order, round) <= Credit(offers[i].order, round')
    BY <1>2, <1>3, CreditGrows
  <2> QED
    BY <1>3, <2>1, <2>2
<1>6. Credit(subject[r], round') \in Nat
  BY <1>2, <1>4, CreditGrows
<1>7. ASSUME NEW i \in DOMAIN offers', offers'[i].scenario = "value_gap"
      PROVE  offers'[i].value <= Credit(offers'[i].order, round')
  <2>1. CASE i \in DOMAIN offers
    BY <1>1, <1>5, <1>7, <2>1
  <2>2. CASE i = Len(offers) + 1
    BY <1>1, <1>4, <1>6, <1>7, <2>2
  <2> QED
    BY <1>1, <2>1, <2>2
<1>8. ASSUME NEW i \in DOMAIN offers', NEW j \in DOMAIN offers', i < j,
             offers'[i].order = offers'[j].order,
             offers'[i].scenario = "value_gap", offers'[j].scenario = "value_gap",
             offers'[j].value > 0
      PROVE  offers'[i].value <= offers'[j].value
  <2>1. i \in DOMAIN offers
    BY <1>1, <1>8
  <2>2. CASE j \in DOMAIN offers
    BY <1>1, <1>8, <2>1, <2>2 DEF Ladder, StepUp
  <2>3. CASE j = Len(offers) + 1
    <3>1. x.value = Credit(subject[r], round')
      BY <1>1, <1>4, <1>8, <2>3
    <3>2. offers[i].value <= Credit(offers[i].order, round')
      BY <1>1, <1>5, <1>8, <2>1
    <3> QED
      BY <1>1, <1>8, <2>1, <2>3, <3>1, <3>2
  <2> QED
    BY <1>1, <2>2, <2>3
<1> QED
  BY <1>7, <1>8 DEF StepUp

LEMMA NextLadder ==
    ASSUME OneTurn, Typed, Ladder, [Next]_vars
    PROVE  Ladder'
<1> USE NegotiationAssumption DEF Typed
<1>1. Typed'
  BY NextTyped
<1>2. ASSUME UNCHANGED <<offers, round>>, \A r \in Slot : pc'[r] # "generate" PROVE Ladder'
  BY <1>2 DEF Ladder, StepUp
<1>3. ASSUME NEW r \in Slot, Answered(r) PROVE \A q \in Slot : pc'[q] # "generate"
  BY <1>3 DEF Answered, Goto, OneTurn, TypeOK
<1>4. ASSUME NEW r \in Slot, NEW where \in Pc \ {"generate"}, Goto(r, where)
      PROVE  \A q \in Slot : pc'[q] # "generate"
  BY <1>4 DEF Goto, OneTurn, TypeOK
<1>5. ASSUME NEW r \in Slot, NEW q \in Request, Arrive(r, q) PROVE Ladder'
  <2>1. CASE ArriveReleased(r, q)
    BY <2>1 DEF ArriveReleased, Ladder, StepUp
  <2>2. ASSUME NEW where \in {"verify", "classify"}, Enter(r, q, where) PROVE Ladder'
    BY <1>2, <1>4, <2>2 DEF Enter, Pc, told
  <2> QED
    BY <1>5, <2>1, <2>2 DEF Arrive, ArriveConfirming, ArriveSpeaking
<1>6. ASSUME NEW r \in Slot, AskModel(r) PROVE Ladder'
  <2>1. /\ At(r, "decide") /\ round' = round + 1 /\ UNCHANGED <<offers, subject>>
        /\ plan' = [plan EXCEPT ![r] = [scenario |-> Scenario(r),
                                        offers |-> Resolved(r, round + 1).offers]]
    BY <1>6 DEF AskModel, Propose, MayRetain, told
  <2>2. round \in Nat /\ round' \in Nat /\ round <= round'
    BY <2>1 DEF TypeOK
  <2>3. ASSUME NEW i \in DOMAIN offers, offers[i].scenario = "value_gap"
        PROVE  offers[i].value <= Credit(offers[i].order, round')
    <3>1. offers[i].value <= Credit(offers[i].order, round)
      BY <2>3 DEF Ladder
    <3>2. offers[i] \in OfferMade
      BY DEF TypeOK
    <3>3. offers[i].order \in OrderId /\ offers[i].value \in Nat
      BY <3>2 DEF OfferMade, Owned
    <3>4. /\ Credit(offers[i].order, round) \in Nat /\ Credit(offers[i].order, round') \in Nat
          /\ Credit(offers[i].order, round) <= Credit(offers[i].order, round')
      BY <2>2, <3>3, CreditGrows
    <3> QED
      BY <3>1, <3>3, <3>4
  <2>4. ASSUME NEW q \in Slot, plan'[q].scenario = "value_gap", NEW o \in plan'[q].offers
        PROVE  o.value \in {0, Credit(subject'[q], round')}
    <3>1. q = r
      BY DEF OneTurn
    <3>2. /\ Scenario(r) = "value_gap"
          /\ o \in Resolved(r, round + 1).offers
      BY <2>1, <2>4, <3>1 DEF TypeOK
    <3>3. o.value \in {0, Credit(subject[r], round + 1)}
      BY <3>2, CreditProposed
    <3> QED
      BY <2>1, <3>1, <3>3
  <2>5. StepUp'
    BY <2>1 DEF Ladder, StepUp
  <2> QED
    BY <2>1, <2>3, <2>4, <2>5 DEF Ladder
<1>7. ASSUME NEW r \in Slot, UseTemplate(r) PROVE Ladder'
  <2>1. At(r, "decide") /\ round' = round + 1 /\ Answered(r)
    BY <1>7 DEF UseTemplate, Propose, MayRetain
  <2>2. PICK o \in Resolved(r, round + 1).offers :
            offers' = Append(offers, Made(r, Scenario(r), o))
    BY <1>7 DEF UseTemplate
  <2> DEFINE x == Made(r, Scenario(r), o)
  <2>3. round \in Nat /\ round' \in Nat /\ round <= round'
    BY <2>1 DEF TypeOK
  <2>4. subject[r] \in Owned
    BY <2>1 DEF Carries, At
  <2>5. o \in Proposal /\ Scenario(r) \in Scenarios
    BY <2>1, <2>3, ResolvedTyped
  <2>6. x \in OfferMade
    BY <2>4, <2>5 DEF Made, OfferMade, Proposal, TypeOK
  <2>7. x.order = subject[r]
    BY DEF Made
  <2>8. x.scenario = "value_gap" => x.value \in {0, Credit(subject[r], round')}
    BY <2>1, <2>2, CreditProposed DEF Made
  <2>9. offers' \in Seq(OfferMade)
    BY <1>1 DEF TypeOK
  <2> QED
    BY <1>3, <2>1, <2>2, <2>3, <2>4, <2>6, <2>7, <2>8, <2>9, OfferOnLadder DEF Ladder
<1>8. ASSUME NEW r \in Slot, MakeOffer(r) PROVE Ladder'
  <2>1. pc[r] = "generate" /\ round' = round /\ Answered(r)
    BY <1>8 DEF MakeOffer, At, session
  <2>2. PICK o \in plan[r].offers : offers' = Append(offers, Made(r, plan[r].scenario, o))
    BY <1>8 DEF MakeOffer
  <2> DEFINE x == Made(r, plan[r].scenario, o)
  <2>3. round \in Nat /\ round' \in Nat /\ round <= round'
    BY <2>1 DEF TypeOK
  <2>4. subject[r] \in Owned /\ plan[r].scenario \in Scenarios
    BY <2>1 DEF Carries
  <2>5. o \in Proposal
    BY DEF TypeOK
  <2>6. x \in OfferMade
    BY <2>4, <2>5 DEF Made, OfferMade, Proposal, TypeOK
  <2>7. x.order = subject[r]
    BY DEF Made
  <2>8. x.scenario = "value_gap" => x.value \in {0, Credit(subject[r], round')}
    BY <2>1, <2>2 DEF Made, Ladder
  <2>9. offers' \in Seq(OfferMade)
    BY <1>1 DEF TypeOK
  <2> QED
    BY <1>3, <2>1, <2>2, <2>3, <2>4, <2>6, <2>7, <2>8, <2>9, OfferOnLadder DEF Ladder
<1>9. ASSUME NEW r \in Slot,
             \/ Classify(r) \/ Feel(r) \/ ReadCustomer(r) \/ ReadCustomerMissing(r)
             \/ ReadOrders(r) \/ LookUp(r) \/ Confirm(r) \/ ToReview(r) \/ ToRefund(r)
      PROVE  Ladder'
  <2>1. UNCHANGED <<offers, round>>
    BY <1>9 DEF Classify, Feel, ReadCustomer, ReadCustomerMissing, AskCustomer, ReadOrders,
                LookUp, Confirm, ToReview, ToRefund, Decide, session, told
  <2>2. \E where \in Pc \ {"generate"} : Goto(r, where)
    BY <1>9 DEF Classify, Feel, ReadCustomer, ReadCustomerMissing, AskCustomer, ReadOrders,
                LookUp, Confirm, ToReview, ToRefund, Decide, Pc, Reading
  <2> QED
    BY <1>2, <1>4, <2>1, <2>2
<1>10. ASSUME NEW r \in Slot,
             \/ PassOn(r) \/ AskAgain(r) \/ HoldOut(r) \/ GiveUp(r) \/ Block(r)
             \/ Escalate(r) \/ IssueRefund(r) \/ VerifyFails(r) \/ CommitFails(r)
      PROVE  Ladder'
  <2>1. Answered(r) /\ UNCHANGED <<offers, round>>
    BY <1>10 DEF PassOn, AskAgain, HoldOut, GiveUp, Block, Escalate, IssueRefund, VerifyFails,
                 CommitFails, session, told
  <2> QED
    BY <1>2, <1>3, <2>1
<1>11. CASE UNCHANGED vars
  BY <1>11 DEF vars, local, session, told, Ladder, StepUp
<1> QED
  BY <1>5, <1>6, <1>7, <1>8, <1>9, <1>10, <1>11 DEF Next, Step, Failure

(* When the turns of a conversation do not overlap, haggling over one      *)
(* order never lowers the credit: for every price, cap and number of       *)
(* rounds (policy.build_resolution, policy.py:201).                        *)
THEOREM HagglingStepsUp ==
    ASSUME OneTurn
    PROVE  Spec => []StepUp
<1>1. Init => Ladder
  BY DEF Init, Ladder, StepUp
<1>2. Typed /\ Ladder /\ [Next]_vars => Ladder'
  BY OneTurn, NextLadder
<1>3. Ladder => StepUp
  BY DEF Ladder
<1> QED
  BY InitTyped, NextTyped, <1>1, <1>2, <1>3, PTL DEF Spec
=============================================================================
