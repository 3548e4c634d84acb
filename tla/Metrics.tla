------------------------------- MODULE Metrics -------------------------------
(***************************************************************************)
(* The counters of one process (metrics.py) under the turns that record a  *)
(* conversation in them (app._negotiate, _release, _emotional): a record   *)
(* withdraws what the conversation was counted as before and adds what it  *)
(* is now, so that a conversation counts once, as what it ended as.        *)
(*                                                                         *)
(* Handlers run in threads.  A record may be interrupted where it calls a  *)
(* function: after it has looked up the previous record, between the       *)
(* reading of the cost total and its writing, and between the reading and  *)
(* the writing of the counter of a scenario or action that has none yet    *)
(* (metrics._apply; Counter.__missing__ is a function).  A dashboard is    *)
(* read in other threads, its denominators before its numerators           *)
(* (metrics.snapshot).                                                     *)
(***************************************************************************)
EXTENDS Integers, FiniteSets

CONSTANTS
    Slot,         \* turns in service at the same time
    Session,      \* conversations
    Control,      \* those in the control group (app._holdout_bucket)
    Offers,       \* <<scenario, action>> of the offers that are made
    Reviewed,     \* scenarios of what is reviewed or blocked
    Prices,       \* what a turn may cost, in units
    MaxTurns,     \* bound on the turns
    MaxCost,      \* bound on the cost of a conversation, in units
    None

NonAddressable == {"product_damage", "not_eligible"}

Deflecting == {"send_guide", "offer_compensation", "offer_repair_exchange",
               "decline_with_rules"}

Scenarios == {o[1] : o \in Offers} \cup {"n/a", "holdout", "value_gap",
                                     "emotional_insist", "not_eligible"}

Committed == {"instant_refund", "escalate_human"}

Actions == {o[2] : o \in Offers} \cup {"standard_return"} \cup Committed

Snap == [scenario : Scenarios, action : Actions, cost : 0..MaxCost]

ASSUME MetricsAssumption ==
    /\ Offers \subseteq {"usage_issue", "value_gap", "product_damage"} \X Deflecting
    /\ Reviewed \subseteq Scenarios \ {"n/a", "holdout"}
    /\ Control \subseteq Session
    /\ IsFiniteSet(Session) /\ IsFiniteSet(Slot)
    /\ MaxTurns \in Nat /\ MaxCost \in Nat /\ Prices \subseteq Nat
    /\ None \notin Slot \cup Session \cup Snap

VARIABLES
    pc,            \* slot -> where its turn is
    job,           \* slot -> its conversation, record, previous record, total read
    conversations, \* _M["conversations"]
    holdouts,      \* _M["holdout_conversations"]
    counts,        \* the other counters of _M
    keys,          \* the scenarios and actions that have a counter
    total,         \* _M["llm_cost_usd"]
    seen,          \* _SEEN: session -> its last record, or None
    scenario,      \* session.scenario
    cost,          \* session.llm_cost_usd
    stale,         \* sessions recorded as something else than the last reply
    view,          \* the denominators of a dashboard being read, or None
    turns,         \* turns begun
    crossed,       \* sessions two of whose records overlapped
    torn,          \* scenarios and actions one of whose first counts overwrote another
    raced          \* whether any two records overlapped

board == <<conversations, holdouts, counts, keys, total, seen>>
session == <<scenario, cost, stale>>
history == <<turns, crossed, torn, raced>>
vars == <<pc, job, board, session, view, history>>

Kinds == Scenarios \cup Actions

Shares == {"addressable_total", "addressable_deflected", "deflected", "escalations",
           "instant_refunds"}

(* by_scenario and by_action have a counter for each scenario and action.  *)
KindsOf(snap) == {snap.scenario, snap.action}

(* Slip: the addressable part of the deflected is not told apart.          *)
SharesOfAll(snap) ==
    (IF snap.scenario \notin NonAddressable THEN {"addressable_total"} ELSE {})
    \cup (IF snap.action \in Deflecting THEN {"deflected", "addressable_deflected"} ELSE {})
    \cup (IF snap.action = "escalate_human" THEN {"escalations"} ELSE {})
    \cup (IF snap.action = "instant_refund" THEN {"instant_refunds"} ELSE {})

SharesOf(snap) ==
    {c \in Shares :
        \/ c = "addressable_total" /\ snap.scenario \notin NonAddressable
        \/ c = "addressable_deflected" /\ snap.scenario \notin NonAddressable
                                       /\ snap.action \in Deflecting
        \/ c = "deflected" /\ snap.action \in Deflecting
        \/ c = "escalations" /\ snap.action = "escalate_human"
        \/ c = "instant_refunds" /\ snap.action = "instant_refund"}

NoJob == [sid |-> None, snap |-> None, prev |-> None, holdout |-> FALSE, read |-> 0]

Init ==
    /\ pc = [r \in Slot |-> "idle"]
    /\ job = [r \in Slot |-> NoJob]
    /\ conversations = 0 /\ holdouts = 0 /\ total = 0
    /\ counts = [c \in Kinds \cup Shares |-> 0] /\ keys = {}
    /\ seen = [s \in Session |-> None]
    /\ scenario = [s \in Session |-> "n/a"]
    /\ cost = [s \in Session |-> 0]
    /\ stale = {} /\ view = None
    /\ turns = 0 /\ crossed = {} /\ torn = {} /\ raced = FALSE

At(r, where) == pc[r] = where
Goto(r, where) == pc' = [pc EXCEPT ![r] = where]

Recording == {"look", "withdraw", "withdrawing", "apply", "scenario", "action", "applying",
              "keep"}

Busy == {r \in Slot : pc[r] \in Recording}

-----------------------------------------------------------------------------
(* Turns.                                                                  *)

(* A turn has cost something; it records its conversation.                 *)
Record(r, s, sc, action, holdout) ==
    /\ At(r, "idle")
    /\ turns < MaxTurns
    /\ turns' = turns + 1
    /\ \E c \in {cost[s] + p : p \in Prices} :
         /\ c <= MaxCost
         /\ cost' = [cost EXCEPT ![s] = c]
         /\ job' = [job EXCEPT ![r] =
                     [NoJob EXCEPT !.sid = s, !.holdout = holdout,
                                   !.snap = [scenario |-> sc, action |-> action, cost |-> c]]]
    /\ scenario' = [scenario EXCEPT ![s] = sc]
    /\ crossed' = IF \E q \in Busy : job[q].sid = s THEN crossed \cup {s} ELSE crossed
    /\ raced' = (raced \/ Busy # {})
    /\ Goto(r, "look")
    /\ UNCHANGED <<board, stale, view, torn>>

(* The customer asks for it, or a limit is reached.                        *)
Release(r, s) == Record(r, s, scenario[s], "standard_return", FALSE)

HoldOut(r, s) == s \in Control /\ Record(r, s, "holdout", "standard_return", TRUE)

(* No offer for a customer who returns too much.                           *)
GiveUp(r, s) ==
    s \notin Control /\ Record(r, s, "value_gap", "standard_return", FALSE)

Offer(r, s) == s \notin Control /\ \E o \in Offers : Record(r, s, o[1], o[2], FALSE)

Emotional(r, s) ==
    /\ s \notin Control
    /\ \E action \in Committed :
         Record(r, s, "emotional_insist", action, FALSE)

(* What is not recorded: the review of an ineligible order or of a special *)
(* rule, and a generation that is blocked.                                 *)
Review(r, s) ==
    /\ At(r, "idle")
    /\ s \notin Control
    /\ turns < MaxTurns
    /\ turns' = turns + 1
    /\ stale' = stale \cup {s}
    /\ \E sc \in Reviewed : scenario' = [scenario EXCEPT ![s] = sc]
    /\ UNCHANGED <<pc, job, board, cost, view, crossed, torn, raced>>

-----------------------------------------------------------------------------
(* record_conversation.                                                    *)

Bump(set, by) == counts' = [c \in DOMAIN counts |-> IF c \in set THEN counts[c] + by
                                                    ELSE counts[c]]

(* Slip: every record counts a conversation.                               *)
LookAlways(r) ==
    LET prev == seen[job[r].sid] IN
    /\ At(r, "look")
    /\ job' = [job EXCEPT ![r].prev = prev]
    /\ conversations' = conversations + 1
    /\ holdouts' = IF job[r].holdout THEN holdouts + 1 ELSE holdouts
    /\ Goto(r, IF prev = None THEN "apply" ELSE "withdraw")
    /\ UNCHANGED <<counts, keys, total, seen, session, view, history>>

(* Slip: the previous record is withdrawn without a look whether there is. *)
LookBlindly(r) ==
    /\ At(r, "look")
    /\ job' = [job EXCEPT ![r].prev = seen[job[r].sid]]
    /\ Goto(r, "withdraw")
    /\ UNCHANGED <<board, session, view, history>>

Look(r) ==
    LET prev == seen[job[r].sid]
        first == IF prev = None THEN 1 ELSE 0
    IN
    /\ At(r, "look")
    /\ job' = [job EXCEPT ![r].prev = prev]
    /\ conversations' = conversations + first
    /\ holdouts' = IF job[r].holdout THEN holdouts + first ELSE holdouts
    /\ Goto(r, IF prev = None THEN "apply" ELSE "withdraw")
    /\ UNCHANGED <<counts, keys, total, seen, session, view, history>>

(* The cost total is read, and round is called.                            *)
ReadTotal(r, next) == job' = [job EXCEPT ![r].read = total] /\ Goto(r, next)

(* The rest of _apply.  The loop over the tiers and the look for the last  *)
(* two actions come in between, to no effect on what is counted.           *)
ApplyShares(r, snap, sign, next) ==
    /\ Bump(SharesOf(snap), sign)
    /\ total' = job[r].read + sign * snap.cost
    /\ Goto(r, next)
    /\ UNCHANGED <<job, conversations, holdouts, keys, seen, session, view, history>>

(* The kinds of a record that is withdrawn have their counters.            *)
Withdraw(r) ==
    /\ At(r, "withdraw")
    /\ Bump(KindsOf(job[r].prev), -1)
    /\ ReadTotal(r, "withdrawing")
    /\ UNCHANGED <<conversations, holdouts, keys, total, seen, session, view, history>>

(* Slip: the cost of the conversation so far stays in the total.           *)
WithdrawSharesOnly(r) ==
    /\ At(r, "withdrawing")
    /\ ApplyShares(r, [job[r].prev EXCEPT !.cost = 0], -1, "apply")

WithdrawShares(r) == At(r, "withdrawing") /\ ApplyShares(r, job[r].prev, -1, "apply")

(* The scenario and the action are counted.  Where the counter is missing, *)
(* the record is interrupted between the 0 it reads and the 1 it writes.   *)
Apply(r) ==
    LET snap == job[r].snap IN
    /\ At(r, "apply")
    /\ \/ /\ snap.scenario \notin keys
          /\ Goto(r, "scenario")
          /\ UNCHANGED <<job, counts>>
       \/ /\ snap.scenario \in keys /\ snap.action \notin keys
          /\ Bump({snap.scenario}, 1)
          /\ Goto(r, "action")
          /\ UNCHANGED job
       \/ /\ KindsOf(snap) \subseteq keys
          /\ Bump(KindsOf(snap), 1)
          /\ ReadTotal(r, "applying")
    /\ UNCHANGED <<conversations, holdouts, keys, total, seen, session, view, history>>

(* The first count of c: 0 + 1, whatever is there by now.                  *)
Start(c) ==
    /\ keys' = keys \cup {c}
    /\ torn' = IF c \in keys THEN torn \cup {c} ELSE torn

StartScenario(r) ==
    LET snap == job[r].snap IN
    /\ At(r, "scenario")
    /\ Start(snap.scenario)
    /\ \/ /\ snap.action \notin keys
          /\ counts' = [counts EXCEPT ![snap.scenario] = 1]
          /\ Goto(r, "action")
          /\ UNCHANGED job
       \/ /\ snap.action \in keys
          /\ counts' = [counts EXCEPT ![snap.scenario] = 1, ![snap.action] = @ + 1]
          /\ ReadTotal(r, "applying")
    /\ UNCHANGED <<conversations, holdouts, total, seen, session, view, turns, crossed, raced>>

StartAction(r) ==
    LET snap == job[r].snap IN
    /\ At(r, "action")
    /\ Start(snap.action)
    /\ counts' = [counts EXCEPT ![snap.action] = 1]
    /\ ReadTotal(r, "applying")
    /\ UNCHANGED <<conversations, holdouts, total, seen, session, view, turns, crossed, raced>>

FinishApply(r) == At(r, "applying") /\ ApplyShares(r, job[r].snap, 1, "keep")

Done(r) == Goto(r, "idle") /\ job' = [job EXCEPT ![r] = NoJob]

(* An angry customer is answered when the refund or the ticket has been    *)
(* committed; the others are answered.                                     *)
Keep(r) ==
    /\ At(r, "keep")
    /\ seen' = [seen EXCEPT ![job[r].sid] = job[r].snap]
    /\ \/ /\ job[r].snap.action \in Committed
          /\ Goto(r, "commit")
          /\ UNCHANGED <<job, stale>>
       \/ /\ job[r].snap.action \notin Committed
          /\ stale' = stale \ {job[r].sid}
          /\ Done(r)
    /\ UNCHANGED <<conversations, holdouts, counts, keys, total, scenario, cost, view,
                   history>>

Commit(r) ==
    /\ At(r, "commit")
    /\ stale' = stale \ {job[r].sid}
    /\ Done(r)
    /\ UNCHANGED <<board, scenario, cost, view, history>>

(* 503: neither a refund nor a ticket.                                     *)
CommitFails(r) ==
    /\ At(r, "commit")
    /\ stale' = stale \cup {job[r].sid}
    /\ Done(r)
    /\ UNCHANGED <<board, scenario, cost, view, history>>

(* The process dies, and starts again with its counters at zero; sessions  *)
(* are loaded from their rows, taken as saved.                             *)
Crash ==
    /\ pc' = [r \in Slot |-> "idle"]
    /\ job' = [r \in Slot |-> NoJob]
    /\ conversations' = 0 /\ holdouts' = 0 /\ total' = 0
    /\ counts' = [c \in Kinds \cup Shares |-> 0] /\ keys' = {}
    /\ seen' = [s \in Session |-> None]
    /\ view' = None
    /\ crossed' = {} /\ torn' = {} /\ raced' = FALSE
    /\ UNCHANGED <<session, turns>>

-----------------------------------------------------------------------------
(* The dashboard.                                                          *)
AtLeastOne(n) == IF n < 1 THEN 1 ELSE n

(* The denominators of the rates are read; functions are called before the *)
(* numerators are.  Each rate has a denominator of its own, so that it     *)
(* does not matter which of the two is read first.                         *)
Snapshot ==
    /\ view = None
    /\ turns < MaxTurns
    /\ view' = [conv |-> AtLeastOne(conversations),
                addr |-> AtLeastOne(counts["addressable_total"])]
    /\ UNCHANGED <<pc, job, board, session, history>>

(* The numerators are read, and the page is shown.                         *)
Show == view # None /\ view' = None /\ UNCHANGED <<pc, job, board, session, history>>

Next ==
    \/ \E r \in Slot, s \in Session :
         \/ Release(r, s) \/ HoldOut(r, s) \/ GiveUp(r, s) \/ Offer(r, s)
         \/ Emotional(r, s) \/ Review(r, s)
    \/ \E r \in Slot :
         \/ Look(r) \/ Withdraw(r) \/ WithdrawShares(r) \/ Apply(r) \/ StartScenario(r)
         \/ StartAction(r) \/ FinishApply(r) \/ Keep(r) \/ Commit(r) \/ CommitFails(r)
    \/ Crash \/ Snapshot \/ Show

Spec == Init /\ [][Next]_vars

-----------------------------------------------------------------------------
(* Every variable stays in the set of values the code can give it.         *)
TypeOK ==
    /\ pc \in [Slot -> Recording \cup {"idle", "commit"}]
    /\ job \in [Slot -> [sid : Session \cup {None}, snap : Snap \cup {None},
                         prev : Snap \cup {None}, holdout : BOOLEAN, read : Int]]
    /\ \A r \in Slot : pc[r] # "idle" => job[r].sid # None /\ job[r].snap # None
    /\ \A r \in Slot : pc[r] \in {"withdraw", "withdrawing"} =>
                         job[r].prev # None /\ KindsOf(job[r].prev) \subseteq keys
    /\ conversations \in Nat /\ holdouts \in Nat /\ total \in Int
    /\ counts \in [Kinds \cup Shares -> Int] /\ torn \subseteq keys /\ keys \subseteq Kinds
    /\ seen \in [Session -> Snap \cup {None}]
    /\ scenario \in [Session -> Scenarios]
    /\ cost \in [Session -> 0..MaxCost]
    /\ stale \subseteq Session
    /\ view \in [conv : Nat, addr : Nat] \cup {None}
    /\ turns \in 0..MaxTurns
    /\ crossed \subseteq Session
    /\ raced \in BOOLEAN

Seen == {s \in Session : seen[s] # None}

(* As long as no two records of one conversation overlap, every            *)
(* conversation counts once and as its last record, however many others    *)
(* are recorded at the same time, and a restart begins afresh              *)
(* (metrics.py:36).  A scenario or an action never counts more than that,  *)
(* and less only after two records have begun its counter at once.         *)
CountersAgree ==
    crossed = {} /\ Busy = {} =>
        /\ conversations = Cardinality(Seen)
        /\ \A c \in Shares : counts[c] = Cardinality({s \in Seen : c \in SharesOf(seen[s])})
        /\ \A c \in Kinds :
             LET right == Cardinality({s \in Seen : c \in KindsOf(seen[s])}) IN
             counts[c] <= right /\ (c \notin torn => counts[c] = right)

(* A dashboard shows no rate below zero, whatever is recorded while it is  *)
(* read, and none above one either as long as its denominators have not    *)
(* been overtaken: records of the conversations it counted may fall in     *)
(* between (metrics.py:92-93 against 107 and 110).                         *)
RatesInRange ==
    crossed = {} /\ view # None =>
        /\ 0 <= counts["deflected"] /\ 0 <= counts["addressable_deflected"]
        /\ conversations <= view.conv => counts["deflected"] <= view.conv
        /\ counts["addressable_total"] <= view.addr =>
             counts["addressable_deflected"] <= view.addr

(* The sum of the costs of the conversations counted: one element for each *)
(* unit of each cost.                                                      *)
Spent == {u \in Seen \X (1..MaxCost) : u[2] <= seen[u[1]].cost}

(* As long as no two records overlap at all, the cost shown is the cost of *)
(* the conversations counted (metrics.py:45).                              *)
CostAgrees == ~raced /\ Busy = {} => total = Cardinality(Spent)

-----------------------------------------------------------------------------
(* What the comments say and the code does not do (README, Disagreements). *)

(* metrics.py:37: a conversation counts as what it ended as.               *)
FinalOutcome ==
    (\A r \in Slot : pc[r] = "idle") /\ crossed = {} => stale \cap Seen = {}

(* metrics.py:63: recording a conversation again does not count it twice.  *)
CountedOnce == Busy = {} => conversations = Cardinality(Seen)

(* metrics.py:30: the conversations of the control group are counted.      *)
HoldoutsCounted ==
    crossed = {} /\ Busy = {} =>
        holdouts = Cardinality({s \in Seen : seen[s].scenario = "holdout"})

(* metrics.py:36: each scenario and action counts the conversations that   *)
(* ended as it; its first two records may count one.                       *)
KindsAgree ==
    crossed = {} /\ Busy = {} =>
        \A c \in Kinds : counts[c] = Cardinality({s \in Seen : c \in KindsOf(seen[s])})

(* A count goes below zero when both of those conversations end otherwise. *)
KindsNotNegative == crossed = {} => \A c \in Kinds : counts[c] >= 0

(* metrics.py:93: a rate is a share of what it is a rate of; conversations *)
(* that begin while the dashboard is read count in the numerator only.     *)
RatesBelowOne ==
    crossed = {} /\ view # None => counts["deflected"] <= view.conv

(* The cost is right whenever the counters are.                            *)
CostAlwaysAgrees == crossed = {} /\ Busy = {} => total = Cardinality(Spent)
=============================================================================
