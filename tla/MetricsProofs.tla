---------------------------- MODULE MetricsProofs ----------------------------
(***************************************************************************)
(* The counters of Metrics: whatever other conversations are recorded at   *)
(* the same time, every conversation counts once, as what its last record  *)
(* says; a dashboard shows no rate below zero, and none above one unless   *)
(* its denominator was overtaken; and the cost is that of what is counted. *)
(*                                                                         *)
(* Tally is what makes that inductive: it says what the counters are in    *)
(* the middle of records as well.  A conversation is counted under what    *)
(* its previous record says until that is withdrawn, under nothing then,   *)
(* and under what the new one says once that is applied - the kinds and    *)
(* the shares one after the other.  All of it holds until two records of   *)
(* one conversation overlap, but for a kind whose first count has          *)
(* overwritten another: it counts less.  Keyed says that the counters      *)
(* withdrawn from are there.  Billed says of the total cost what Tally     *)
(* says of the counters, and more is asked: that no two records overlap.   *)
(***************************************************************************)
EXTENDS Metrics, FiniteSetTheorems, TLAPS

Pc == Recording \cup {"idle", "commit"}

Job == [sid : Session \cup {None}, snap : Snap \cup {None}, prev : Snap \cup {None},
        holdout : BOOLEAN, read : Int]

View == [conv : Nat, addr : Nat] \cup {None}

SlotOK(r) ==
    /\ pc[r] = "idle" => job[r] = NoJob
    /\ pc[r] # "idle" => job[r].sid \in Session /\ job[r].snap \in Snap
    /\ pc[r] \in {"withdraw", "withdrawing"} => job[r].prev \in Snap

Typed ==
    /\ pc \in [Slot -> Pc]
    /\ job \in [Slot -> Job]
    /\ conversations \in Nat /\ holdouts \in Nat /\ total \in Int
    /\ counts \in [Kinds \cup Shares -> Int]
    /\ keys \subseteq Kinds /\ torn \subseteq keys
    /\ view \in View
    /\ seen \in [Session -> Snap \cup {None}]
    /\ scenario \in [Session -> Scenarios]
    /\ cost \in [Session -> 0..MaxCost]
    /\ stale \subseteq Session
    /\ turns \in 0..MaxTurns
    /\ crossed \subseteq Session
    /\ raced \in BOOLEAN
    /\ \A r \in Slot : SlotOK(r)

(* The counters of a record, the places where those of the previous one    *)
(* are withdrawn, and those where the new ones are applied.                *)
CountersOf(snap) == KindsOf(snap) \cup SharesOf(snap)

Gone(c) == {"apply", "scenario", "action", "applying", "keep"}
           \cup (IF c \in Kinds THEN {"withdrawing"} ELSE {})

Back(c) == {"keep"} \cup (IF c \in Kinds THEN {"applying"} ELSE {})
                    \cup (IF c \in Scenarios THEN {"action"} ELSE {})

Looked == {"withdraw", "withdrawing", "apply", "scenario", "action", "applying", "keep"}

(* The kinds counted by a record that is at a place on its way.            *)
KindsAt(place, snap) ==
    IF place = "applying" THEN KindsOf(snap)
    ELSE IF place = "action" THEN {snap.scenario} ELSE {}

(* What has been counted has a counter.                                    *)
SlotKeyed(r) ==
    /\ pc[r] \in {"withdraw", "withdrawing"} => KindsOf(job[r].prev) \subseteq keys
    /\ pc[r] \in {"action", "applying"} => KindsAt(pc[r], job[r].snap) \subseteq keys
    /\ pc[r] = "keep" => KindsOf(job[r].snap) \subseteq keys

Keyed ==
    /\ \A s \in Session : seen[s] # None => KindsOf(seen[s]) \subseteq keys
    /\ \A r \in Slot : SlotKeyed(r)
    /\ \A c \in Kinds \ keys : counts[c] = 0

On(r, s) == job[r].sid = s

(* Whether a conversation is counted, and under which counter.             *)
Counted(s) == seen[s] # None \/ \E r \in Slot : On(r, s) /\ pc[r] \in Looked

Counting(s, c) ==
    \/ /\ seen[s] # None /\ c \in CountersOf(seen[s])
       /\ \A r \in Slot : On(r, s) => pc[r] \notin Gone(c)
    \/ \E r \in Slot : On(r, s) /\ pc[r] \in Back(c) /\ c \in CountersOf(job[r].snap)

OneByOne ==
    /\ \A r, q \in Busy : job[r].sid = job[q].sid => r = q
    /\ \A r \in Slot : pc[r] \in {"withdraw", "withdrawing"} => job[r].prev = seen[job[r].sid]

Totals ==
    /\ \A c \in Kinds \cup Shares :
         /\ counts[c] <= Cardinality({s \in Session : Counting(s, c)})
         /\ c \notin torn => counts[c] = Cardinality({s \in Session : Counting(s, c)})
    /\ conversations = Cardinality({s \in Session : Counted(s)})

Tally == crossed = {} => OneByOne /\ Totals

-----------------------------------------------------------------------------
(* Kinds and shares.                                                       *)
LEMMA OffersAre == Scenarios \subseteq {"usage_issue", "value_gap", "product_damage", "n/a",
                                        "holdout", "emotional_insist", "not_eligible"}
                   /\ Actions \subseteq Deflecting \cup Committed \cup {"standard_return"}
BY MetricsAssumption DEF Scenarios, Actions

LEMMA Disjoint == \A c \in Shares : c \notin Kinds
BY OffersAre DEF Kinds, Shares, Deflecting, Committed

LEMMA ScenarioNoAction == Scenarios \cap Actions = {}
BY OffersAre DEF Deflecting, Committed

LEMMA Counters ==
    ASSUME NEW snap \in Snap
    PROVE  KindsOf(snap) \subseteq Kinds /\ SharesOf(snap) \subseteq Shares
BY DEF Snap, KindsOf, SharesOf, Kinds

LEMMA NoJobTyped == NoJob \in Job /\ NoJob.sid = None
BY DEF NoJob, Job

LEMMA BumpIs ==
    ASSUME Typed, NEW snaps, NEW by \in Int, Bump(snaps, by)
    PROVE  /\ counts' \in [Kinds \cup Shares -> Int]
           /\ \A c \in Kinds \cup Shares :
                counts'[c] = IF c \in snaps THEN counts[c] + by ELSE counts[c]
BY DEF Typed, Bump

-----------------------------------------------------------------------------
(* Types.                                                                  *)
LEMMA InitTyped == Init => Typed
<1> SUFFICES ASSUME Init PROVE Typed
  OBVIOUS
<1>1. pc \in [Slot -> Pc] /\ job \in [Slot -> Job] /\ scenario \in [Session -> Scenarios]
  BY NoJobTyped DEF Init, Pc, Scenarios
<1>2. counts \in [Kinds \cup Shares -> Int] /\ cost \in [Session -> 0..MaxCost]
  BY MetricsAssumption DEF Init
<1>3. \A r \in Slot : SlotOK(r)
  BY DEF Init, SlotOK
<1>4. keys \subseteq Kinds /\ torn \subseteq keys /\ view \in View
  BY DEF Init, View
<1> QED
  <2>1. seen \in [Session -> Snap \cup {None}] /\ stale \subseteq Session
    BY DEF Init
  <2>2. turns \in 0..MaxTurns /\ crossed \subseteq Session
    BY MetricsAssumption DEF Init
  <2>3. conversations \in Nat /\ holdouts \in Nat /\ total \in Int
    BY DEF Init
  <2>4. raced \in BOOLEAN
    BY Zenon DEF Init
  <2> QED
    BY <1>1, <1>2, <1>3, <1>4, <2>1, <2>2, <2>3, <2>4 DEF Typed

(* A step of one slot.                                                     *)
Moved(r, p, j) == pc' = [pc EXCEPT ![r] = p] /\ job' = [job EXCEPT ![r] = j]

LEMMA MovedOK ==
    ASSUME Typed, NEW r \in Slot, NEW p \in Pc, NEW j \in Job, Moved(r, p, j), SlotOK(r)'
    PROVE  /\ pc' \in [Slot -> Pc] /\ job' \in [Slot -> Job] /\ \A q \in Slot : SlotOK(q)'
<1>1. pc' \in [Slot -> Pc] /\ job' \in [Slot -> Job]
  BY DEF Moved, Typed
<1>2. ASSUME NEW q \in Slot, q # r PROVE SlotOK(q)'
  <2>1. pc'[q] = pc[q] /\ job'[q] = job[q] /\ SlotOK(q)
    BY <1>2 DEF Moved, Typed
  <2> QED
    BY <2>1 DEF SlotOK
<1> QED
  BY <1>1, <1>2

LEMMA MovedIs ==
    ASSUME Typed, NEW r \in Slot, NEW p, NEW j, Moved(r, p, j)
    PROVE  /\ pc'[r] = p /\ job'[r] = j
           /\ \A q \in Slot \ {r} : pc'[q] = pc[q] /\ job'[q] = job[q]
BY DEF Moved, Typed

LEMMA DoneIs == ASSUME NEW r \in Slot, Done(r) PROVE Moved(r, "idle", NoJob)
BY DEF Done, Goto, Moved

LEMMA RecordIs ==
    ASSUME Typed, NEW r \in Slot, NEW s \in Session, NEW sc \in Scenarios, NEW action \in Actions,
           NEW holdout \in BOOLEAN, Record(r, s, sc, action, holdout)
    PROVE  /\ pc[r] = "idle" /\ UNCHANGED <<board, stale, view, torn>>
           /\ turns' \in 0..MaxTurns /\ cost' \in [Session -> 0..MaxCost]
           /\ scenario' \in [Session -> Scenarios]
           /\ crossed' = IF \E q \in Busy : job[q].sid = s THEN crossed \cup {s} ELSE crossed
           /\ raced' \in BOOLEAN
           /\ \E j \in Job : Moved(r, "look", j) /\ j.sid = s /\ j.snap \in Snap
<1>1. PICK c \in {cost[s] + p : p \in Prices} :
         /\ c <= MaxCost
         /\ cost' = [cost EXCEPT ![s] = c]
         /\ job' = [job EXCEPT ![r] =
                     [NoJob EXCEPT !.sid = s, !.holdout = holdout,
                                   !.snap = [scenario |-> sc, action |-> action, cost |-> c]]]
  BY DEF Record
<1> DEFINE snap == [scenario |-> sc, action |-> action, cost |-> c]
<1>2. c \in 0..MaxCost
  BY <1>1, MetricsAssumption DEF Typed
<1>3. snap \in Snap
  BY <1>2 DEF Snap
<1>4. cost' \in [Session -> 0..MaxCost]
  BY <1>1, <1>2 DEF Typed
<1> HIDE DEF snap
<1> DEFINE j == [NoJob EXCEPT !.sid = s, !.holdout = holdout, !.snap = snap]
<1>5. j \in Job /\ j.sid = s /\ j.snap = snap
  BY <1>3, NoJobTyped DEF Job
<1>6. Moved(r, "look", j)
  BY <1>1 DEF Moved, Record, Goto, snap
<1>7. turns' \in 0..MaxTurns
  BY MetricsAssumption DEF Typed, Record
<1> QED
  BY <1>3, <1>4, <1>5, <1>6, <1>7 DEF Record, At, Typed

Recorded(r, s) ==
    \/ Release(r, s) \/ HoldOut(r, s) \/ GiveUp(r, s) \/ Offer(r, s) \/ Emotional(r, s)

LEMMA RecordedIs ==
    ASSUME Typed, NEW r \in Slot, NEW s \in Session, Recorded(r, s)
    PROVE  \E sc \in Scenarios, action \in Actions, holdout \in BOOLEAN :
              Record(r, s, sc, action, holdout)
<1>1. /\ "standard_return" \in Actions /\ Committed \subseteq Actions
      /\ "holdout" \in Scenarios /\ "value_gap" \in Scenarios /\ "emotional_insist" \in Scenarios
      /\ scenario[s] \in Scenarios
  BY DEF Actions, Scenarios, Typed
<1>2. \A o \in Offers : o[1] \in Scenarios /\ o[2] \in Actions
  BY DEF Actions, Scenarios
<1>3. CASE Release(r, s)
  <2>1. Record(r, s, scenario[s], "standard_return", FALSE)
    BY <1>3 DEF Release
  <2> QED
    BY <1>1, <2>1, Zenon
<1>4. CASE HoldOut(r, s)
  <2>1. Record(r, s, "holdout", "standard_return", TRUE)
    BY <1>4 DEF HoldOut
  <2> QED
    BY <1>1, <2>1, Zenon
<1>5. CASE GiveUp(r, s)
  <2>1. Record(r, s, "value_gap", "standard_return", FALSE)
    BY <1>5 DEF GiveUp
  <2> QED
    BY <1>1, <2>1, Zenon
<1>6. CASE Offer(r, s)
  <2>1. PICK o \in Offers : Record(r, s, o[1], o[2], FALSE)
    BY <1>6 DEF Offer
  <2> QED
    BY <1>2, <2>1, Zenon
<1>7. CASE Emotional(r, s)
  <2>1. PICK action \in Committed : Record(r, s, "emotional_insist", action, FALSE)
    BY <1>7 DEF Emotional
  <2> QED
    BY <1>1, <2>1, Zenon
<1> QED
  BY <1>3, <1>4, <1>5, <1>6, <1>7 DEF Recorded

(* What the record of a slot does to its slot, place by place.             *)
Counts(r) == Apply(r) \/ StartScenario(r) \/ StartAction(r)

Advance(r) ==
    \/ Look(r) \/ Withdraw(r) \/ WithdrawShares(r) \/ Counts(r) \/ FinishApply(r) \/ Keep(r)

Close(r) == Commit(r) \/ CommitFails(r)

Goes(r, p, j) ==
    /\ Moved(r, p, j)
    /\ \/ j = NoJob /\ p = "idle"
       \/ j.sid = job[r].sid /\ j.snap = job[r].snap /\ p # "idle"
    /\ Look(r) => j.prev = seen[job[r].sid] /\ p = IF j.prev = None THEN "apply" ELSE "withdraw"
    /\ Withdraw(r) => p = "withdrawing" /\ j.prev = job[r].prev /\ j.read = total
    /\ WithdrawShares(r) => p = "apply"
    /\ Counts(r) => /\ p \in {"scenario", "action", "applying"}
                    /\ p = "applying" => j.read = total
    /\ FinishApply(r) => p = "keep"
    /\ Keep(r) => p \in {"idle", "commit"}

(* Where a step of a record begins.                                        *)
LEMMA Places ==
    ASSUME NEW r \in Slot
    PROVE  /\ Look(r) => pc[r] = "look"
           /\ Withdraw(r) => pc[r] = "withdraw"
           /\ WithdrawShares(r) => pc[r] = "withdrawing"
           /\ Counts(r) => pc[r] \in {"apply", "scenario", "action"}
           /\ FinishApply(r) => pc[r] = "applying"
           /\ Keep(r) => pc[r] = "keep"
           /\ Advance(r) => pc[r] \in Recording
BY DEF Advance, Counts, Look, Withdraw, WithdrawShares, Apply, StartScenario, StartAction,
       FinishApply, Keep, At, Recording

(* What the steps of a record leave alone.                                 *)
LEMMA AdvanceLeaves ==
    ASSUME NEW r \in Slot, Advance(r)
    PROVE  /\ UNCHANGED <<scenario, cost, view, turns, crossed, raced>>
           /\ ~Look(r) => UNCHANGED <<conversations, holdouts>>
           /\ ~Keep(r) => UNCHANGED <<seen, stale>>
           /\ ~Counts(r) => UNCHANGED <<keys, torn>>
           /\ ~WithdrawShares(r) /\ ~FinishApply(r) => UNCHANGED total
           /\ Look(r) \/ Keep(r) => UNCHANGED counts
<1>1. CASE Look(r)
  BY <1>1, Places DEF Look, session, history
<1>2. CASE Withdraw(r)
  BY <1>2, Places DEF Withdraw, session, history
<1>3. CASE WithdrawShares(r) \/ FinishApply(r)
  BY <1>3, Places DEF WithdrawShares, FinishApply, ApplyShares, session, history
<1>4. CASE Counts(r)
  BY <1>4, Places DEF Counts, Apply, StartScenario, StartAction, session, history
<1>5. CASE Keep(r)
  BY <1>5, Places DEF Keep, history
<1> QED
  BY <1>1, <1>2, <1>3, <1>4, <1>5 DEF Advance

LEMMA AdvanceIs ==
    ASSUME Typed, NEW r \in Slot, Advance(r)
    PROVE  \E p \in Pc, j \in Job : Goes(r, p, j)
<1>1. job[r] \in Job /\ total \in Int
  BY DEF Typed
<1>2. CASE Look(r)
  <2> DEFINE j == [job[r] EXCEPT !.prev = seen[job[r].sid]]
             p == IF seen[job[r].sid] = None THEN "apply" ELSE "withdraw"
  <2>1. job[r].sid \in Session
    BY <1>2 DEF Look, At, Typed, SlotOK
  <2>2. /\ j \in Job /\ j.sid = job[r].sid /\ j.snap = job[r].snap /\ j.prev = seen[job[r].sid]
    BY <1>1, <2>1 DEF Job, Typed
  <2>3. p \in Pc /\ p # "idle"
    BY DEF Pc, Recording
  <2>4. Moved(r, p, j)
    BY <1>2 DEF Look, Goto, Moved, Typed
  <2> QED
    BY <1>2, <2>2, <2>3, <2>4, Places DEF Goes
<1>3. ASSUME NEW next \in Pc \ {"idle"}, ReadTotal(r, next)
      PROVE  \E j \in Job : /\ Moved(r, next, j) /\ j.read = total /\ j.prev = job[r].prev
                            /\ j.sid = job[r].sid /\ j.snap = job[r].snap
  <2> DEFINE j == [job[r] EXCEPT !.read = total]
  <2>1. /\ j \in Job /\ j.sid = job[r].sid /\ j.snap = job[r].snap /\ j.prev = job[r].prev
        /\ j.read = total
    BY <1>1 DEF Job
  <2>2. Moved(r, next, j)
    BY <1>3 DEF ReadTotal, Goto, Moved, Typed
  <2> QED
    BY <2>1, <2>2
<1>4. CASE Withdraw(r)
  <2>1. "withdrawing" \in Pc \ {"idle"} /\ ReadTotal(r, "withdrawing")
    BY <1>4 DEF Withdraw, Pc, Recording
  <2>2. PICK j \in Job : /\ Moved(r, "withdrawing", j) /\ j.read = total /\ j.prev = job[r].prev
                         /\ j.sid = job[r].sid /\ j.snap = job[r].snap
    BY <1>3, <2>1
  <2>3. Goes(r, "withdrawing", j)
    BY <1>4, <2>2, Places DEF Goes
  <2> QED
    BY <2>1, <2>3
<1>5. CASE WithdrawShares(r) \/ FinishApply(r)
  <2> DEFINE p == IF WithdrawShares(r) THEN "apply" ELSE "keep"
  <2>1. p \in Pc /\ p # "idle"
    BY DEF Pc, Recording
  <2>2. Moved(r, p, job[r])
    BY <1>5, Places DEF WithdrawShares, FinishApply, ApplyShares, Goto, Moved, Typed
  <2>3. (WithdrawShares(r) => p = "apply") /\ (FinishApply(r) => p = "keep")
    BY <1>5, Places
  <2> HIDE DEF p
  <2> QED
    BY <1>1, <1>5, <2>1, <2>2, <2>3, Places DEF Goes
<1>6. CASE Counts(r)
  <2>1. CASE ReadTotal(r, "applying")
    <3>1. "applying" \in Pc \ {"idle"}
      BY DEF Pc, Recording
    <3>2. PICK j \in Job : /\ Moved(r, "applying", j) /\ j.read = total /\ j.prev = job[r].prev
                           /\ j.sid = job[r].sid /\ j.snap = job[r].snap
      BY <1>3, <2>1, <3>1
    <3>3. Goes(r, "applying", j)
      BY <1>6, <3>2, Places DEF Goes
    <3> QED
      BY <3>1, <3>3
  <2>2. ASSUME NEW p \in {"scenario", "action"}, Goto(r, p), UNCHANGED job
        PROVE  \E q \in Pc, j \in Job : Goes(r, q, j)
    <3>1. Moved(r, p, job[r]) /\ p \in Pc
      BY <2>2 DEF Goto, Moved, Typed, Pc, Recording
    <3>2. Goes(r, p, job[r])
      BY <1>6, <2>2, <3>1, Places DEF Goes
    <3> QED
      BY <1>1, <3>1, <3>2
  <2>3. \/ ReadTotal(r, "applying")
        \/ \E p \in {"scenario", "action"} : Goto(r, p) /\ UNCHANGED job
    BY <1>6 DEF Counts, Apply, StartScenario, StartAction
  <2> QED
    BY <2>1, <2>2, <2>3
<1>7. CASE Keep(r)
  <2>1. CASE Goto(r, "commit") /\ UNCHANGED job
    <3>1. Moved(r, "commit", job[r]) /\ "commit" \in Pc
      BY <2>1 DEF Goto, Moved, Typed, Pc
    <3> QED
      BY <1>1, <1>7, <3>1, Places DEF Goes
  <2>2. CASE Done(r)
    <3>1. Moved(r, "idle", NoJob) /\ "idle" \in Pc
      BY <2>2, DoneIs DEF Pc
    <3> QED
      BY <1>7, <3>1, NoJobTyped, Places DEF Goes
  <2> QED
    BY <1>7, <2>1, <2>2 DEF Keep
<1> QED
  BY <1>2, <1>4, <1>5, <1>6, <1>7 DEF Advance

(* A conversation's kinds are counted one after the other.                 *)
LEMMA CountsAre ==
    ASSUME Typed, Keyed, NEW r \in Slot, Counts(r)
    PROVE  /\ job[r].snap \in Snap /\ pc'[r] \in {"scenario", "action", "applying"}
           /\ counts' \in [Kinds \cup Shares -> Int]
           /\ torn \subseteq torn' /\ torn' \subseteq keys' /\ keys \subseteq keys'
           /\ keys' \subseteq Kinds /\ KindsAt(pc'[r], job[r].snap) \subseteq keys'
           /\ KindsAt(pc[r], job[r].snap) \subseteq KindsAt(pc'[r], job[r].snap)
           /\ \A c \in Kinds \cup Shares :
                IF c \in KindsAt(pc'[r], job[r].snap) \ KindsAt(pc[r], job[r].snap)
                THEN \/ counts'[c] = counts[c] + 1
                     \/ counts'[c] = 1 /\ c \in torn'
                ELSE counts'[c] = counts[c]
<1> DEFINE snap == job[r].snap
<1>1. snap \in Snap
  BY Places DEF Typed, SlotOK
<1>2. /\ snap.scenario \in Scenarios /\ snap.action \in Actions /\ KindsOf(snap) \subseteq Kinds
      /\ snap.scenario \in Kinds /\ snap.action \in Kinds /\ snap.scenario # snap.action
      /\ KindsOf(snap) = {snap.scenario, snap.action}
  BY <1>1, Counters, ScenarioNoAction DEF Snap, Kinds, KindsOf
<1>3. counts \in [Kinds \cup Shares -> Int] /\ \A c \in Kinds \ keys : counts[c] = 0
  BY DEF Typed, Keyed
<1>4. pc \in [Slot -> Pc] /\ keys \subseteq Kinds /\ torn \subseteq keys
  BY DEF Typed
<1> HIDE DEF snap
<1>5. CASE Apply(r)
  <2>1. pc[r] = "apply" /\ KindsAt(pc[r], snap) = {} /\ UNCHANGED <<keys, torn>>
    BY <1>5 DEF Apply, At, KindsAt, history
  <2>2. CASE snap.scenario \notin keys /\ Goto(r, "scenario") /\ UNCHANGED counts
    <3>1. pc'[r] = "scenario" /\ KindsAt(pc'[r], snap) = {}
      BY <1>4, <2>2 DEF Goto, KindsAt
    <3> QED
      BY <1>1, <1>3, <1>4, <2>1, <2>2, <3>1 DEF snap
  <2>3. CASE snap.scenario \in keys /\ Bump({snap.scenario}, 1) /\ Goto(r, "action")
    <3>1. pc'[r] = "action" /\ KindsAt(pc'[r], snap) = {snap.scenario}
      BY <1>4, <2>3 DEF Goto, KindsAt
    <3>2. /\ counts' \in [Kinds \cup Shares -> Int]
          /\ \A c \in Kinds \cup Shares :
               counts'[c] = IF c \in {snap.scenario} THEN counts[c] + 1 ELSE counts[c]
      BY <1>3, <2>3 DEF Bump
    <3> QED
      BY <1>1, <1>4, <2>1, <2>3, <3>1, <3>2 DEF snap
  <2>4. CASE KindsOf(snap) \subseteq keys /\ Bump(KindsOf(snap), 1) /\ ReadTotal(r, "applying")
    <3>1. pc'[r] = "applying" /\ KindsAt(pc'[r], snap) = KindsOf(snap)
      BY <1>4, <2>4 DEF ReadTotal, Goto, KindsAt
    <3>2. /\ counts' \in [Kinds \cup Shares -> Int]
          /\ \A c \in Kinds \cup Shares :
               counts'[c] = IF c \in KindsOf(snap) THEN counts[c] + 1 ELSE counts[c]
      BY <1>3, <2>4 DEF Bump
    <3> QED
      BY <1>1, <1>4, <2>1, <2>4, <3>1, <3>2 DEF snap
  <2> QED
    BY <1>5, <2>2, <2>3, <2>4 DEF Apply, snap
<1>6. ASSUME NEW c \in Kinds, Start(c)
      PROVE  /\ keys' = keys \cup {c} /\ torn \subseteq torn' /\ torn' \subseteq keys'
             /\ 1 = counts[c] + 1 \/ c \in torn'
  BY <1>3, <1>4, <1>6 DEF Start
<1>7. CASE StartScenario(r)
  <2>1. pc[r] = "scenario" /\ KindsAt(pc[r], snap) = {} /\ Start(snap.scenario)
    BY <1>7 DEF StartScenario, At, KindsAt, snap
  <2>2. CASE counts' = [counts EXCEPT ![snap.scenario] = 1] /\ Goto(r, "action")
    <3>1. pc'[r] = "action" /\ KindsAt(pc'[r], snap) = {snap.scenario}
      BY <1>4, <2>2 DEF Goto, KindsAt
    <3>2. /\ counts' \in [Kinds \cup Shares -> Int]
          /\ \A c \in Kinds \cup Shares :
               counts'[c] = IF c = snap.scenario THEN 1 ELSE counts[c]
      BY <1>2, <1>3, <2>2
    <3> QED
      BY <1>1, <1>2, <1>4, <1>6, <2>1, <3>1, <3>2 DEF snap
  <2>3. CASE /\ snap.action \in keys /\ ReadTotal(r, "applying")
             /\ counts' = [counts EXCEPT ![snap.scenario] = 1, ![snap.action] = @ + 1]
    <3>1. pc'[r] = "applying" /\ KindsAt(pc'[r], snap) = KindsOf(snap)
      BY <1>4, <2>3 DEF ReadTotal, Goto, KindsAt
    <3>2. /\ counts' \in [Kinds \cup Shares -> Int]
          /\ \A c \in Kinds \cup Shares :
               counts'[c] = IF c = snap.scenario THEN 1
                            ELSE IF c = snap.action THEN counts[c] + 1 ELSE counts[c]
      BY <1>2, <1>3, <2>3
    <3> QED
      BY <1>1, <1>2, <1>4, <1>6, <2>1, <2>3, <3>1, <3>2 DEF snap
  <2> QED
    BY <1>7, <2>2, <2>3 DEF StartScenario, snap
<1>8. CASE StartAction(r)
  <2>1. /\ pc[r] = "action" /\ KindsAt(pc[r], snap) = {snap.scenario} /\ Start(snap.action)
        /\ counts' = [counts EXCEPT ![snap.action] = 1] /\ ReadTotal(r, "applying")
    BY <1>8 DEF StartAction, At, KindsAt, snap
  <2>2. pc'[r] = "applying" /\ KindsAt(pc'[r], snap) = KindsOf(snap)
    BY <1>4, <2>1 DEF ReadTotal, Goto, KindsAt
  <2>3. snap.scenario \in keys
    BY <2>1 DEF Keyed, SlotKeyed, snap
  <2>4. /\ counts' \in [Kinds \cup Shares -> Int]
        /\ \A c \in Kinds \cup Shares : counts'[c] = IF c = snap.action THEN 1 ELSE counts[c]
    BY <1>2, <1>3, <2>1
  <2> QED
    BY <1>1, <1>2, <1>4, <1>6, <2>1, <2>2, <2>3, <2>4 DEF snap
<1> QED
  BY <1>5, <1>7, <1>8 DEF Counts

LEMMA AdvanceTyped ==
    ASSUME Typed, Keyed, NEW r \in Slot, Advance(r)
    PROVE  Typed'
<1>1. PICK p \in Pc, j \in Job : Goes(r, p, j)
  BY AdvanceIs
<1>2. pc[r] # "idle" /\ SlotOK(r)
  BY Places DEF Recording, Typed
<1>3. SlotOK(r)'
  <2>1. pc'[r] = p /\ job'[r] = j
    BY <1>1, MovedIs DEF Goes
  <2>2. p \in {"withdraw", "withdrawing"} => j.prev \in Snap
    <3>1. CASE Look(r)
      BY <1>1, <1>2, <3>1, Places DEF Goes, SlotOK, Typed
    <3>2. CASE Withdraw(r)
      BY <1>1, <1>2, <3>2, Places DEF Goes, SlotOK
    <3> QED
      BY <1>1, <3>1, <3>2 DEF Advance, Goes
  <2> QED
    BY <1>1, <1>2, <2>1, <2>2 DEF SlotOK, Goes
<1>4. /\ pc' \in [Slot -> Pc] /\ job' \in [Slot -> Job] /\ \A q \in Slot : SlotOK(q)'
  BY <1>1, <1>3, MovedOK DEF Goes
<1>5. /\ conversations' \in Nat /\ holdouts' \in Nat
      /\ seen' \in [Session -> Snap \cup {None}] /\ stale' \subseteq Session
  <2>1. CASE Look(r)
    <3>1. /\ conversations' \in {conversations, conversations + 1}
          /\ holdouts' \in {holdouts, holdouts + 1} /\ UNCHANGED <<seen, stale>>
      BY <2>1 DEF Look, Typed, session
    <3> QED
      BY <3>1 DEF Typed
  <2>2. CASE Withdraw(r) \/ WithdrawShares(r) \/ Counts(r) \/ FinishApply(r)
    <3>1. ~Look(r) /\ ~Keep(r)
      BY <2>2, Places
    <3> QED
      BY <3>1, AdvanceLeaves DEF Typed
  <2>3. CASE Keep(r)
    <3>1. job[r].snap \in Snap
      BY <1>2 DEF SlotOK
    <3> QED
      BY <2>3, <3>1 DEF Keep, Typed
  <2> QED
    BY <2>1, <2>2, <2>3 DEF Advance
<1>6. /\ counts' \in [Kinds \cup Shares -> Int] /\ keys' \subseteq Kinds /\ torn' \subseteq keys'
  <2>1. CASE Counts(r)
    BY <2>1, CountsAre
  <2>2. CASE ~Counts(r)
    <3>1. UNCHANGED counts \/ \E by \in {-1, 1} : \E snaps : Bump(snaps, by)
      BY <2>2 DEF Advance, Look, Withdraw, WithdrawShares, FinishApply, Keep, ApplyShares
    <3>2. ASSUME NEW by \in {-1, 1}, NEW snaps, Bump(snaps, by)
          PROVE  counts' \in [Kinds \cup Shares -> Int]
      <4>1. by \in Int
        BY <3>2
      <4> QED
        BY <3>2, <4>1 DEF Bump, Typed
    <3> QED
      BY <2>2, <3>1, <3>2, AdvanceLeaves DEF Typed
  <2> QED
    BY <2>1, <2>2
<1>7. total' \in Int
  <2>1. CASE ~WithdrawShares(r) /\ ~FinishApply(r)
    BY <2>1, AdvanceLeaves DEF Typed
  <2>2. CASE WithdrawShares(r)
    <3>1. job[r].prev.cost \in Int /\ job[r].read \in Int
      BY <1>2, <2>2, MetricsAssumption DEF WithdrawShares, At, SlotOK, Snap, Typed, Job
    <3> QED
      BY <2>2, <3>1 DEF WithdrawShares, ApplyShares
  <2>3. CASE FinishApply(r)
    <3>1. job[r].snap.cost \in Int /\ job[r].read \in Int
      BY <1>2, <2>3, MetricsAssumption DEF FinishApply, At, SlotOK, Snap, Typed, Job
    <3> QED
      BY <2>3, <3>1 DEF FinishApply, ApplyShares
  <2> QED
    BY <2>1, <2>2, <2>3
<1> QED
  BY <1>4, <1>5, <1>6, <1>7, AdvanceLeaves DEF Typed

LEMMA CloseTyped ==
    ASSUME Typed, NEW r \in Slot, Close(r)
    PROVE  Typed'
<1>1. /\ Moved(r, "idle", NoJob) /\ UNCHANGED <<board, scenario, cost, view, history>>
      /\ stale' \subseteq Session
  <2>1. job[r].sid \in Session
    BY DEF Close, Commit, CommitFails, At, Typed, SlotOK
  <2> QED
    BY <2>1, DoneIs DEF Close, Commit, CommitFails, Typed
<1>2. SlotOK(r)' /\ "idle" \in Pc
  <2>1. pc'[r] = "idle" /\ job'[r] = NoJob
    BY <1>1, MovedIs
  <2> QED
    BY <2>1 DEF SlotOK, Pc
<1>3. /\ pc' \in [Slot -> Pc] /\ job' \in [Slot -> Job] /\ \A q \in Slot : SlotOK(q)'
  BY <1>1, <1>2, MovedOK, NoJobTyped
<1> QED
  BY <1>1, <1>3 DEF Typed, board, history

LEMMA RecordTyped ==
    ASSUME Typed, NEW r \in Slot, NEW s \in Session, Recorded(r, s)
    PROVE  Typed'
<1>1. PICK sc \in Scenarios, action \in Actions, holdout \in BOOLEAN :
         Record(r, s, sc, action, holdout)
  BY RecordedIs
<1>2. /\ UNCHANGED <<board, stale, view, torn>>
      /\ turns' \in 0..MaxTurns /\ cost' \in [Session -> 0..MaxCost]
      /\ scenario' \in [Session -> Scenarios]
      /\ crossed' = IF \E q \in Busy : job[q].sid = s THEN crossed \cup {s} ELSE crossed
      /\ raced' \in BOOLEAN
      /\ \E j \in Job : Moved(r, "look", j) /\ j.sid = s /\ j.snap \in Snap
  BY <1>1, RecordIs
<1>3. PICK j \in Job : Moved(r, "look", j) /\ j.sid = s /\ j.snap \in Snap
  BY <1>2
<1>4. SlotOK(r)' /\ "look" \in Pc
  <2>1. pc'[r] = "look" /\ job'[r] = j
    BY <1>3, MovedIs
  <2> QED
    BY <1>3, <2>1 DEF SlotOK, Pc, Recording
<1>5. /\ pc' \in [Slot -> Pc] /\ job' \in [Slot -> Job] /\ \A q \in Slot : SlotOK(q)'
  BY <1>3, <1>4, MovedOK
<1>6. crossed' \subseteq Session
  BY <1>2 DEF Typed
<1> QED
  BY <1>2, <1>5, <1>6 DEF Typed, board

LEMMA ReviewTyped ==
    ASSUME Typed, NEW r \in Slot, NEW s \in Session, Review(r, s)
    PROVE  Typed'
<1>1. turns' \in 0..MaxTurns /\ scenario' \in [Session -> Scenarios] /\ stale' \subseteq Session
  BY MetricsAssumption DEF Review, Typed
<1> QED
  BY <1>1 DEF Review, Typed, board, SlotOK

LEMMA DashboardTyped == ASSUME Typed, Snapshot \/ Show PROVE Typed'
<1>1. UNCHANGED <<pc, job, board, session, history>>
  BY DEF Snapshot, Show
<1>2. view' \in View
  <2>1. CASE Snapshot
    <3>1. conversations \in Nat /\ counts["addressable_total"] \in Int
      BY DEF Typed, Shares
    <3>2. AtLeastOne(conversations) \in Nat /\ AtLeastOne(counts["addressable_total"]) \in Nat
      BY <3>1 DEF AtLeastOne
    <3> QED
      BY <2>1, <3>2 DEF Snapshot, View
  <2>2. CASE Show
    BY <2>2 DEF Show, View
  <2> QED
    BY <2>1, <2>2
<1> QED
  BY <1>1, <1>2 DEF Typed, board, session, history, SlotOK

LEMMA CrashTyped == ASSUME Typed, Crash PROVE Typed'
<1>1. pc' \in [Slot -> Pc] /\ job' \in [Slot -> Job]
  BY NoJobTyped DEF Crash, Pc
<1>2. \A q \in Slot : SlotOK(q)'
  BY DEF Crash, SlotOK
<1>3. /\ counts' \in [Kinds \cup Shares -> Int] /\ seen' \in [Session -> Snap \cup {None}]
      /\ conversations' \in Nat /\ holdouts' \in Nat /\ total' \in Int /\ crossed' \subseteq Session
      /\ keys' \subseteq Kinds /\ torn' \subseteq keys' /\ view' \in View
  BY DEF Crash, View
<1>4. raced' \in BOOLEAN
  BY Zenon DEF Crash
<1> QED
  BY <1>1, <1>2, <1>3, <1>4 DEF Crash, Typed, session

LEMMA NextCases ==
    ASSUME [Next]_vars
    PROVE  \/ \E r \in Slot, s \in Session : Recorded(r, s)
           \/ \E r \in Slot, s \in Session : Review(r, s)
           \/ \E r \in Slot : Advance(r)
           \/ \E r \in Slot : Close(r)
           \/ Crash
           \/ Snapshot \/ Show
           \/ UNCHANGED vars
BY DEF Next, Recorded, Advance, Counts, Close

LEMMA NextTyped == Typed /\ Keyed /\ [Next]_vars => Typed'
<1> SUFFICES ASSUME Typed, Keyed, [Next]_vars PROVE Typed'
  OBVIOUS
<1>1. CASE UNCHANGED vars
  BY <1>1 DEF vars, board, session, history, Typed, SlotOK
<1> QED
  BY <1>1, NextCases, RecordTyped, ReviewTyped, AdvanceTyped, CloseTyped, CrashTyped,
     DashboardTyped

-----------------------------------------------------------------------------
(* Counters that are there.                                                *)
LEMMA KeyedMoves ==
    ASSUME Typed, Keyed, NEW r \in Slot, UNCHANGED <<counts, keys, seen>>,
           NEW p, NEW j, Moved(r, p, j),
           p \notin {"withdraw", "withdrawing", "action", "applying", "keep"}
    PROVE  Keyed'
<1>1. pc'[r] = p /\ job'[r] = j /\ \A q \in Slot \ {r} : pc'[q] = pc[q] /\ job'[q] = job[q]
  BY MovedIs
<1> QED
  BY <1>1 DEF Keyed, SlotKeyed

LEMMA AdvanceKeyed ==
    ASSUME Typed, Keyed, NEW r \in Slot, Advance(r)
    PROVE  Keyed'
<1>1. PICK p \in Pc, j \in Job : Goes(r, p, j)
  BY AdvanceIs
<1>2. pc'[r] = p /\ job'[r] = j /\ \A q \in Slot \ {r} : pc'[q] = pc[q] /\ job'[q] = job[q]
  BY <1>1, MovedIs DEF Goes
<1>3. keys \subseteq keys' /\ keys' \subseteq Kinds
  BY CountsAre, AdvanceLeaves DEF Typed
<1>4. job[r].sid \in Session /\ job[r].snap \in Snap
  BY Places DEF Typed, SlotOK, Recording
<1>5. \A s \in Session : seen'[s] # None => KindsOf(seen'[s]) \subseteq keys'
  <2>1. CASE Keep(r)
    <3>1. pc[r] = "keep" /\ seen' = [seen EXCEPT ![job[r].sid] = job[r].snap]
      BY <2>1 DEF Keep, At
    <3>2. KindsOf(job[r].snap) \subseteq keys'
      BY <1>3, <3>1 DEF Keyed, SlotKeyed
    <3> QED
      BY <1>3, <3>1, <3>2 DEF Keyed, Typed
  <2>2. CASE ~Keep(r)
    BY <1>3, <2>2, AdvanceLeaves DEF Keyed
  <2> QED
    BY <2>1, <2>2
<1>6. ASSUME NEW q \in Slot, q # r PROVE SlotKeyed(q)'
  BY <1>2, <1>3, <1>6 DEF Keyed, SlotKeyed
<1>7. SlotKeyed(r)'
  <2>1. CASE Look(r)
    <3>1. p = "withdraw" => j.prev = seen[job[r].sid] /\ seen[job[r].sid] # None
      BY <1>1, <2>1 DEF Goes
    <3>2. p \in {"apply", "withdraw"}
      BY <1>1, <2>1 DEF Goes
    <3> QED
      BY <1>2, <1>3, <1>4, <3>1, <3>2 DEF Keyed, SlotKeyed
  <2>2. CASE Withdraw(r)
    BY <1>1, <1>2, <1>3, <2>2, Places DEF Goes, Keyed, SlotKeyed
  <2>3. CASE WithdrawShares(r) \/ Keep(r)
    BY <1>1, <1>2, <2>3 DEF Goes, SlotKeyed
  <2>4. CASE Counts(r)
    <3>1. j.snap = job[r].snap /\ p \notin {"withdraw", "withdrawing", "keep"}
      BY <1>1, <2>4, MetricsAssumption DEF Goes
    <3> QED
      BY <1>2, <2>4, <3>1, CountsAre DEF SlotKeyed
  <2>5. CASE FinishApply(r)
    <3>1. p = "keep" /\ j.snap = job[r].snap /\ pc[r] = "applying"
      BY <1>1, <2>5, Places DEF Goes
    <3> QED
      BY <1>2, <1>3, <3>1 DEF Keyed, SlotKeyed, KindsAt
  <2> QED
    BY <2>1, <2>2, <2>3, <2>4, <2>5 DEF Advance
<1>8. \A c \in Kinds \ keys' : counts'[c] = 0
  <2>1. CASE Look(r) \/ Keep(r)
    BY <1>3, <2>1, AdvanceLeaves DEF Keyed
  <2>2. CASE Withdraw(r)
    <3>1. Bump(KindsOf(job[r].prev), -1) /\ KindsOf(job[r].prev) \subseteq keys
      BY <2>2, Places DEF Withdraw, Keyed, SlotKeyed
    <3>2. \A c \in Kinds \ keys : counts'[c] = counts[c]
      BY <3>1, BumpIs
    <3> QED
      BY <1>3, <3>2 DEF Keyed
  <2>3. CASE WithdrawShares(r) \/ FinishApply(r)
    <3>1. \E snap \in Snap, by \in {-1, 1} : Bump(SharesOf(snap), by)
      BY <1>4, <2>3, Places DEF WithdrawShares, FinishApply, ApplyShares, Typed, SlotOK
    <3>2. PICK snap \in Snap, by \in {-1, 1} : Bump(SharesOf(snap), by)
      BY <3>1
    <3>3. \A c \in Kinds : c \notin SharesOf(snap)
      BY Counters, Disjoint
    <3>4. by \in Int
      BY <3>2
    <3>5. \A c \in Kinds : counts'[c] = counts[c]
      BY <3>2, <3>3, <3>4, BumpIs
    <3> QED
      BY <1>3, <3>5 DEF Keyed
  <2>4. CASE Counts(r)
    <3>1. \A c \in Kinds \ keys' : counts'[c] = counts[c]
      BY <2>4, CountsAre
    <3> QED
      BY <1>3, <3>1 DEF Keyed
  <2> QED
    BY <2>1, <2>2, <2>3, <2>4 DEF Advance
<1> QED
  BY <1>5, <1>6, <1>7, <1>8 DEF Keyed

LEMMA NextKeyed == Typed /\ Keyed /\ [Next]_vars => Keyed'
<1> SUFFICES ASSUME Typed, Keyed, [Next]_vars PROVE Keyed'
  OBVIOUS
<1>1. CASE UNCHANGED <<pc, job, board>>
  BY <1>1 DEF board, Keyed, SlotKeyed
<1>2. ASSUME NEW r \in Slot, NEW s \in Session, Recorded(r, s) PROVE Keyed'
  <2>1. UNCHANGED board /\ \E j \in Job : Moved(r, "look", j)
    BY <1>2, RecordedIs, RecordIs
  <2> QED
    BY <2>1, KeyedMoves DEF board
<1>3. ASSUME NEW r \in Slot, Close(r) PROVE Keyed'
  <2>1. UNCHANGED board /\ Moved(r, "idle", NoJob)
    BY <1>3, DoneIs DEF Close, Commit, CommitFails
  <2> QED
    BY <2>1, KeyedMoves DEF board
<1>4. CASE Crash
  BY <1>4 DEF Crash, Keyed, SlotKeyed
<1>5. ASSUME NEW r \in Slot, NEW s \in Session, Review(r, s) PROVE Keyed'
  BY <1>1, <1>5 DEF Review
<1> QED
  BY <1>1, <1>2, <1>3, <1>4, <1>5, NextCases, AdvanceKeyed DEF Snapshot, Show, vars

-----------------------------------------------------------------------------
(* Counting.                                                               *)
One(b) == IF b THEN 1 ELSE 0

LEMMA OneChanges ==
    ASSUME NEW A \in SUBSET Session, NEW B \in SUBSET Session, NEW s \in Session,
           \A u \in Session \ {s} : u \in A <=> u \in B
    PROVE  /\ Cardinality(A) \in Nat /\ Cardinality(B) \in Nat
           /\ Cardinality(B) = Cardinality(A) + One(s \in B) - One(s \in A)
<1> DEFINE D == A \ {s}
<1>1. IsFiniteSet(A) /\ IsFiniteSet(B) /\ IsFiniteSet(D)
  BY MetricsAssumption, FS_Subset
<1>2. Cardinality(A) \in Nat /\ Cardinality(B) \in Nat /\ Cardinality(D) \in Nat
  BY <1>1, FS_CardinalityType
<1>3. B \ {s} = D
  OBVIOUS
<1>4. Cardinality(A) = Cardinality(D) + One(s \in A)
  <2>1. CASE s \in A
    BY <1>1, <1>2, <2>1, FS_RemoveElement DEF One
  <2>2. CASE s \notin A
    <3>1. D = A
      BY <2>2
    <3> QED
      BY <1>2, <2>2, <3>1 DEF One
  <2> QED
    BY <2>1, <2>2
<1>5. Cardinality(B) = Cardinality(D) + One(s \in B)
  <2>1. CASE s \in B
    BY <1>1, <1>2, <1>3, <2>1, FS_RemoveElement DEF One
  <2>2. CASE s \notin B
    <3>1. D = B
      BY <1>3, <2>2
    <3> QED
      BY <1>2, <2>2, <3>1 DEF One
  <2> QED
    BY <2>1, <2>2
<1> QED
  BY <1>2, <1>4, <1>5 DEF One

(* A step of the record of one conversation.                               *)
Local(r, s) ==
    /\ \A q \in Slot \ {r} : pc'[q] = pc[q] /\ job'[q] = job[q]
    /\ job[r].sid \in {s, None} /\ job'[r].sid \in {s, None}
    /\ \A u \in Session \ {s} : seen'[u] = seen[u]

LEMMA Elsewhere ==
    ASSUME NEW r \in Slot, NEW s \in Session, Local(r, s), NEW u \in Session \ {s}
    PROVE  /\ Counted(u)' <=> Counted(u)
           /\ \A c \in Kinds \cup Shares : Counting(u, c)' <=> Counting(u, c)
<1>1. u # None /\ ~On(r, u) /\ ~On(r, u)' /\ seen'[u] = seen[u]
  BY MetricsAssumption DEF Local, On
<1>2. \A q \in Slot : On(q, u) \/ On(q, u)' =>
          On(q, u) /\ On(q, u)' /\ pc'[q] = pc[q] /\ job'[q] = job[q]
  BY <1>1 DEF Local, On
<1>3. Counted(u)' <=> Counted(u)
  BY <1>1, <1>2 DEF Counted
<1>4. ASSUME NEW c \in Kinds \cup Shares PROVE Counting(u, c)' <=> Counting(u, c)
  <2>1. (\A q \in Slot : On(q, u) => pc[q] \notin Gone(c))
          <=> (\A q \in Slot : On(q, u)' => pc'[q] \notin Gone(c))
    BY <1>2
  <2>2. (\E q \in Slot : On(q, u) /\ pc[q] \in Back(c) /\ c \in CountersOf(job[q].snap))
          <=> (\E q \in Slot : On(q, u)' /\ pc'[q] \in Back(c) /\ c \in CountersOf(job'[q].snap))
    BY <1>2
  <2> QED
    BY <1>1, <2>1, <2>2 DEF Counting
<1> QED
  BY <1>3, <1>4

(* The totals follow if the counters of that conversation do, or one of    *)
(* them starts at one.                                                     *)
FollowsIn(s, c) ==
    \/ counts'[c] = counts[c] + One(Counting(s, c)') - One(Counting(s, c))
    \/ counts'[c] = 1 /\ c \in torn' /\ Counting(s, c)'

Follows(s) ==
    /\ torn \subseteq torn'
    /\ \A c \in Kinds \cup Shares : FollowsIn(s, c)
    /\ conversations' = conversations + One(Counted(s)') - One(Counted(s))

LEMMA Recount ==
    ASSUME Typed, Totals, NEW r \in Slot, NEW s \in Session, Local(r, s), Follows(s)
    PROVE  Totals'
<1>1. ASSUME NEW c \in Kinds \cup Shares
      PROVE  /\ counts'[c] <= Cardinality({u \in Session : Counting(u, c)'})
             /\ c \notin torn' => counts'[c] = Cardinality({u \in Session : Counting(u, c)'})
  <2> DEFINE A == {u \in Session : Counting(u, c)}
             B == {u \in Session : Counting(u, c)'}
  <2>1. \A u \in Session \ {s} : u \in A <=> u \in B
    BY Elsewhere
  <2>2. (s \in A <=> Counting(s, c)) /\ (s \in B <=> Counting(s, c)')
    OBVIOUS
  <2>3. counts[c] <= Cardinality(A) /\ (c \notin torn => counts[c] = Cardinality(A))
    BY DEF Totals
  <2>4. \/ counts'[c] = counts[c] + One(s \in B) - One(s \in A)
        \/ counts'[c] = 1 /\ c \in torn' /\ s \in B
    BY <2>2 DEF Follows, FollowsIn, One
  <2>5. A \in SUBSET Session /\ B \in SUBSET Session /\ counts[c] \in Int /\ torn \subseteq torn'
    BY DEF Typed, Follows
  <2> HIDE DEF A, B
  <2>6. /\ Cardinality(B) = Cardinality(A) + One(s \in B) - One(s \in A)
        /\ Cardinality(A) \in Nat /\ Cardinality(B) \in Nat
        /\ One(s \in A) \in Int /\ One(s \in B) \in Int
    BY <2>1, <2>5, OneChanges DEF One
  <2>7. s \in B => 1 <= Cardinality(B)
    <3>1. IsFiniteSet(B) /\ (s \in B => Cardinality(B) # 0)
      BY <2>5, MetricsAssumption, FS_Subset, FS_EmptySet
    <3> QED
      BY <2>6, <3>1
  <2>8. /\ counts'[c] <= Cardinality(B)
        /\ c \notin torn' => counts'[c] = Cardinality(B)
    <3>1. CASE counts'[c] = counts[c] + One(s \in B) - One(s \in A)
      BY <2>3, <2>5, <2>6, <3>1
    <3>2. CASE counts'[c] = 1 /\ c \in torn' /\ s \in B
      BY <2>7, <3>2
    <3> QED
      BY <2>4, <3>1, <3>2
  <2> QED
    BY <2>8 DEF B
<1>2. conversations' = Cardinality({u \in Session : Counted(u)'})
  <2> DEFINE A == {u \in Session : Counted(u)}
             B == {u \in Session : Counted(u)'}
  <2>1. \A u \in Session \ {s} : u \in A <=> u \in B
    BY Elsewhere
  <2>2. (s \in A <=> Counted(s)) /\ (s \in B <=> Counted(s)')
    OBVIOUS
  <2>3. conversations = Cardinality(A)
    BY DEF Totals
  <2>4. conversations' = conversations + One(s \in B) - One(s \in A)
    BY <2>2 DEF Follows, One
  <2>5. A \in SUBSET Session /\ B \in SUBSET Session
    OBVIOUS
  <2> HIDE DEF A, B
  <2>6. Cardinality(B) = Cardinality(A) + One(s \in B) - One(s \in A)
    BY <2>1, <2>5, OneChanges
  <2> QED
    BY <2>3, <2>4, <2>6 DEF B
<1> QED
  BY <1>1, <1>2 DEF Totals

(* Where one record of a conversation is under way, it alone decides.      *)
Single(r, s) == \A q \in Slot \ {r} : job[q].sid = s => pc[q] = "commit"

LEMMA SingleCounts ==
    ASSUME NEW r \in Slot, NEW s \in Session, Single(r, s), Local(r, s)
    PROVE  /\ Counted(s) <=> seen[s] # None \/ (On(r, s) /\ pc[r] \in Looked)
           /\ Counted(s)' <=> seen'[s] # None \/ (job'[r].sid = s /\ pc'[r] \in Looked)
           /\ \A c \in Kinds \cup Shares :
                /\ Counting(s, c) <=>
                     \/ /\ seen[s] # None /\ c \in CountersOf(seen[s])
                        /\ On(r, s) => pc[r] \notin Gone(c)
                     \/ On(r, s) /\ pc[r] \in Back(c) /\ c \in CountersOf(job[r].snap)
                /\ Counting(s, c)' <=>
                     \/ /\ seen'[s] # None /\ c \in CountersOf(seen'[s])
                        /\ job'[r].sid = s => pc'[r] \notin Gone(c)
                     \/ job'[r].sid = s /\ pc'[r] \in Back(c) /\ c \in CountersOf(job'[r].snap)
<1>1. ASSUME NEW q \in Slot \ {r}
      PROVE  /\ On(q, s) => pc[q] \notin Looked
             /\ On(q, s)' => pc'[q] \notin Looked
  BY DEF Single, Local, On, Looked
<1>2. \A c \in Kinds \cup Shares : Gone(c) \subseteq Looked /\ Back(c) \subseteq Looked
  BY DEF Gone, Back, Looked
<1>3. /\ Counted(s) <=> seen[s] # None \/ (On(r, s) /\ pc[r] \in Looked)
      /\ Counted(s)' <=> seen'[s] # None \/ (job'[r].sid = s /\ pc'[r] \in Looked)
  BY <1>1 DEF Counted, On
<1>4. ASSUME NEW c \in Kinds \cup Shares
      PROVE  Counting(s, c) <=>
                     \/ /\ seen[s] # None /\ c \in CountersOf(seen[s])
                        /\ On(r, s) => pc[r] \notin Gone(c)
                     \/ On(r, s) /\ pc[r] \in Back(c) /\ c \in CountersOf(job[r].snap)
  BY <1>1, <1>2 DEF Counting
<1>5. ASSUME NEW c \in Kinds \cup Shares
      PROVE  Counting(s, c)' <=>
                     \/ /\ seen'[s] # None /\ c \in CountersOf(seen'[s])
                        /\ job'[r].sid = s => pc'[r] \notin Gone(c)
                     \/ job'[r].sid = s /\ pc'[r] \in Back(c) /\ c \in CountersOf(job'[r].snap)
  BY <1>1, <1>2 DEF Counting, On
<1> QED
  BY <1>3, <1>4, <1>5

LEMMA KindOrShare ==
    ASSUME NEW snap \in Snap
    PROVE  /\ \A c \in Kinds : (c \in CountersOf(snap) <=> c \in KindsOf(snap))
                               /\ c \notin SharesOf(snap)
           /\ \A c \in Shares : /\ c \notin Kinds /\ c \notin KindsOf(snap)
                                /\ c \in CountersOf(snap) <=> c \in SharesOf(snap)
<1>1. KindsOf(snap) \subseteq Kinds /\ SharesOf(snap) \subseteq Shares
  BY Counters
<1> QED
  BY <1>1, Disjoint DEF CountersOf

(* What a record counts at a place.                                        *)
LEMMA CountingAt ==
    ASSUME NEW place \in {"apply", "scenario", "action", "applying"}, NEW snap \in Snap,
           NEW c \in Kinds \cup Shares
    PROVE  /\ place \in Gone(c)
           /\ place \in Back(c) /\ c \in CountersOf(snap) <=> c \in KindsAt(place, snap)
<1>1. /\ snap.scenario \in Scenarios /\ snap.action \in Actions /\ snap.action \notin Scenarios
      /\ KindsOf(snap) = {snap.scenario, snap.action}
      /\ Scenarios \subseteq Kinds
  BY ScenarioNoAction DEF Snap, KindsOf, Kinds
<1>2. c \in Kinds => (c \in CountersOf(snap) <=> c \in KindsOf(snap))
  BY KindOrShare
<1>3. c \in Shares => c \notin Kinds /\ c \notin KindsOf(snap)
  BY KindOrShare
<1>4. place \in Gone(c)
  BY DEF Gone
<1>5. CASE place = "applying"
  BY <1>1, <1>2, <1>3, <1>4, <1>5 DEF Back, KindsAt
<1>6. CASE place = "action"
  BY <1>1, <1>2, <1>3, <1>4, <1>6 DEF Back, KindsAt
<1>7. CASE place \in {"apply", "scenario"}
  BY <1>4, <1>7 DEF Back, KindsAt
<1> QED
  BY <1>5, <1>6, <1>7

(* Adding by to the counters of a set is counting it, or no longer.        *)
LEMMA BumpFollows ==
    ASSUME Typed, NEW s \in Session, NEW snaps, NEW by \in {1, -1}, Bump(snaps, by),
           NEW c \in Kinds \cup Shares,
           IF c \in snaps THEN /\ Counting(s, c) <=> by = -1
                               /\ Counting(s, c)' <=> by = 1
           ELSE Counting(s, c)' <=> Counting(s, c)
    PROVE  FollowsIn(s, c)
<1>1. counts[c] \in Int
  BY DEF Typed
<1>2. counts'[c] = IF c \in snaps THEN counts[c] + by ELSE counts[c]
  BY DEF Bump, Typed
<1>3. CASE c \in snaps /\ by = 1
  <2>1. One(Counting(s, c)') = 1 /\ One(Counting(s, c)) = 0
    BY <1>3 DEF One
  <2> QED
    BY <1>1, <1>2, <1>3, <2>1 DEF FollowsIn
<1>4. CASE c \in snaps /\ by = -1
  <2>1. One(Counting(s, c)') = 0 /\ One(Counting(s, c)) = 1
    BY <1>4 DEF One
  <2> QED
    BY <1>1, <1>2, <1>4, <2>1 DEF FollowsIn
<1>5. CASE c \notin snaps
  <2>1. One(Counting(s, c)') = One(Counting(s, c)) /\ One(Counting(s, c)) \in Int
    BY <1>5 DEF One
  <2> QED
    BY <1>1, <1>2, <1>5, <2>1 DEF FollowsIn
<1> QED
  BY <1>3, <1>4, <1>5

LEMMA StillFollows ==
    ASSUME Typed, NEW s \in Session, UNCHANGED counts,
           NEW c \in Kinds \cup Shares, Counting(s, c)' <=> Counting(s, c)
    PROVE  FollowsIn(s, c)
<1>1. counts[c] \in Int /\ counts'[c] = counts[c]
  BY DEF Typed
<1>2. One(Counting(s, c)') = One(Counting(s, c)) /\ One(Counting(s, c)) \in Int
  BY DEF One
<1> QED
  BY <1>1, <1>2 DEF FollowsIn

LEMMA CountedFollows ==
    ASSUME Typed, NEW s \in Session, UNCHANGED conversations, Counted(s)' <=> Counted(s)
    PROVE  conversations' = conversations + One(Counted(s)') - One(Counted(s))
<1>1. One(Counted(s)') = One(Counted(s)) /\ One(Counted(s)) \in Int
  BY DEF One
<1> QED
  BY <1>1 DEF Typed

LEMMA AdvanceLocal ==
    ASSUME Typed, OneByOne, NEW r \in Slot, Advance(r), NEW s \in Session, s = job[r].sid
    PROVE  Local(r, s) /\ Single(r, s) /\ r \in Busy
<1>1. r \in Busy
  BY Places DEF Busy
<1>2. PICK p \in Pc, j \in Job : Moved(r, p, j) /\ (j = NoJob \/ j.sid = s)
  BY AdvanceIs DEF Goes
<1>3. \A u \in Session \ {s} : seen'[u] = seen[u]
  <2>1. CASE Keep(r)
    BY <2>1 DEF Keep, Typed
  <2> QED
    BY <2>1, AdvanceLeaves
<1>4. Local(r, s)
  BY <1>2, <1>3, MovedIs, NoJobTyped DEF Local
<1>5. ASSUME NEW q \in Slot \ {r}, job[q].sid = s PROVE pc[q] = "commit"
  <2>1. pc[q] # "idle"
    BY <1>5, NoJobTyped, MetricsAssumption DEF Typed, SlotOK
  <2>2. q \notin Busy
    BY <1>1, <1>5 DEF OneByOne
  <2> QED
    BY <2>1, <2>2 DEF Busy, Typed, Pc
<1> QED
  BY <1>1, <1>4, <1>5 DEF Single

LEMMA AdvanceFollows ==
    ASSUME Typed, Keyed, OneByOne, NEW r \in Slot, Advance(r), NEW s \in Session, s = job[r].sid
    PROVE  Follows(s)
<1> DEFINE old == seen[s]
           new == job[r].snap
<1>1. Local(r, s) /\ Single(r, s)
  BY AdvanceLocal
<1>2. /\ Counted(s) <=> old # None \/ pc[r] \in Looked
      /\ Counted(s)' <=> seen'[s] # None \/ (job'[r].sid = s /\ pc'[r] \in Looked)
      /\ \A c \in Kinds \cup Shares :
           /\ Counting(s, c) <=> \/ old # None /\ c \in CountersOf(old) /\ pc[r] \notin Gone(c)
                                 \/ pc[r] \in Back(c) /\ c \in CountersOf(new)
           /\ Counting(s, c)' <=>
                \/ /\ seen'[s] # None /\ c \in CountersOf(seen'[s])
                   /\ job'[r].sid = s => pc'[r] \notin Gone(c)
                \/ job'[r].sid = s /\ pc'[r] \in Back(c) /\ c \in CountersOf(job'[r].snap)
  BY <1>1, SingleCounts DEF On
<1>3. PICK p \in Pc, j \in Job : Goes(r, p, j)
  BY AdvanceIs
<1>4. /\ pc'[r] = p /\ job'[r] = j
      /\ new \in Snap /\ (old # None => old \in Snap)
      /\ p # "idle" => j.sid = s /\ j.snap = new
  <2>1. pc'[r] = p /\ job'[r] = j
    BY <1>3, MovedIs DEF Goes
  <2>2. new \in Snap
    BY Places DEF Recording, Typed, SlotOK
  <2> QED
    BY <1>3, <2>1, <2>2 DEF Typed, Goes
<1>5. \A c : c \in Kinds \cup Shares => c \in Kinds \/ (c \in Shares /\ c \notin Kinds)
  OBVIOUS
<1>6. torn \subseteq torn'
  BY CountsAre, AdvanceLeaves
<1> HIDE DEF old, new
<1>7. CASE Look(r)
  <2>1. /\ pc[r] = "look" /\ UNCHANGED <<counts, seen>>
        /\ conversations' = conversations + One(old = None)
    BY <1>7 DEF Look, At, One, old
  <2>2. p = IF old = None THEN "apply" ELSE "withdraw"
    BY <1>3, <1>7 DEF Goes, old
  <2>3. seen'[s] = old
    BY <2>1 DEF old
  <2>4. ASSUME NEW c \in Kinds \cup Shares PROVE FollowsIn(s, c)
    <3>1. Counting(s, c)' <=> Counting(s, c)
      BY <1>2, <1>4, <2>1, <2>2, <2>3 DEF Gone, Back
    <3> QED
      BY <2>1, <3>1, StillFollows
  <2>5. Counted(s)' /\ (Counted(s) <=> old # None)
    BY <1>2, <1>4, <2>1, <2>2 DEF Looked
  <2>6. conversations' = conversations + One(Counted(s)') - One(Counted(s))
    <3>1. One(Counted(s)') = 1 /\ One(Counted(s)) = 1 - One(old = None)
          /\ One(old = None) \in Int
      BY <2>5 DEF One
    <3> QED
      BY <2>1, <3>1 DEF Typed
  <2> QED
    BY <1>6, <2>4, <2>6 DEF Follows
<1>8. CASE Withdraw(r) \/ WithdrawShares(r) \/ Counts(r) \/ FinishApply(r)
  <2>1. UNCHANGED <<conversations, seen>>
    BY <1>8, Places, AdvanceLeaves
  <2>2. seen'[s] = old
    BY <2>1 DEF old
  <2>3. /\ pc[r] \in Looked /\ p \in Looked /\ p # "idle"
    BY <1>3, <1>8, Places DEF Looked, Goes
  <2>4. Counted(s)' <=> Counted(s)
    BY <1>2, <1>4, <2>3
  <2>5. conversations' = conversations + One(Counted(s)') - One(Counted(s))
    BY <2>1, <2>4, CountedFollows
  <2>6. /\ Withdraw(r) \/ WithdrawShares(r) => job[r].prev = old /\ old # None /\ old \in Snap
    <3>1. pc[r] \in {"withdraw", "withdrawing"} => job[r].prev = old /\ job[r].prev \in Snap
      BY DEF OneByOne, Typed, SlotOK, old
    <3> QED
      BY <3>1, Places, MetricsAssumption
  <2>7. ASSUME NEW c \in Kinds \cup Shares PROVE FollowsIn(s, c)
    <3>1. CASE Withdraw(r)
      <4>1. pc[r] = "withdraw" /\ Bump(KindsOf(old), -1) /\ p = "withdrawing"
        BY <1>3, <2>6, <3>1 DEF Withdraw, Goes, At
      <4>2. IF c \in KindsOf(old) THEN Counting(s, c) /\ ~Counting(s, c)'
            ELSE Counting(s, c)' <=> Counting(s, c)
        BY <1>2, <1>4, <1>5, <2>2, <2>6, <3>1, <4>1, KindOrShare DEF Gone, Back
      <4> QED
        BY <4>1, <4>2, BumpFollows
    <3>2. CASE WithdrawShares(r)
      <4>1. pc[r] = "withdrawing" /\ Bump(SharesOf(old), -1) /\ p = "apply"
        BY <1>3, <2>6, <3>2 DEF WithdrawShares, ApplyShares, Goes, At
      <4>2. IF c \in SharesOf(old) THEN Counting(s, c) /\ ~Counting(s, c)'
            ELSE Counting(s, c)' <=> Counting(s, c)
        BY <1>2, <1>4, <1>5, <2>2, <2>6, <3>2, <4>1, KindOrShare DEF Gone, Back
      <4> QED
        BY <4>1, <4>2, BumpFollows
    <3>3. CASE Counts(r)
      <4>1. /\ pc[r] \in {"apply", "scenario", "action"} /\ p \in {"scenario", "action", "applying"}
        BY <1>3, <3>3, Places DEF Goes
      <4>2. Counting(s, c) <=> c \in KindsAt(pc[r], new)
        BY <1>2, <1>4, <4>1, CountingAt
      <4>3. Counting(s, c)' <=> c \in KindsAt(p, new)
        BY <1>2, <1>4, <4>1, CountingAt
      <4>4. /\ KindsAt(pc[r], new) \subseteq KindsAt(p, new)
            /\ IF c \in KindsAt(p, new) \ KindsAt(pc[r], new)
               THEN counts'[c] = counts[c] + 1 \/ (counts'[c] = 1 /\ c \in torn')
               ELSE counts'[c] = counts[c]
        BY <1>4, <3>3, CountsAre DEF new
      <4>5. counts[c] \in Int
        BY DEF Typed
      <4>6. CASE c \in KindsAt(p, new) \ KindsAt(pc[r], new)
        <5>1. Counting(s, c)' /\ One(Counting(s, c)') = 1 /\ One(Counting(s, c)) = 0
          BY <4>2, <4>3, <4>6 DEF One
        <5>2. counts'[c] = counts[c] + 1 \/ (counts'[c] = 1 /\ c \in torn')
          BY <4>4, <4>6
        <5>3. counts[c] + 1 = counts[c] + 1 - 0
          BY <4>5
        <5>4. counts[c] + 1 = counts[c] + One(Counting(s, c)') - One(Counting(s, c))
          BY <5>1, <5>3, Zenon
        <5> QED
          BY <5>1, <5>2, <5>4 DEF FollowsIn
      <4>7. CASE c \notin KindsAt(p, new) \ KindsAt(pc[r], new)
        <5>1. One(Counting(s, c)') = One(Counting(s, c)) /\ One(Counting(s, c)) \in Int
          BY <4>2, <4>3, <4>4, <4>7 DEF One
        <5> QED
          BY <4>4, <4>5, <4>7, <5>1 DEF FollowsIn
      <4> QED
        BY <4>6, <4>7
    <3>4. CASE FinishApply(r)
      <4>1. pc[r] = "applying" /\ Bump(SharesOf(new), 1) /\ p = "keep"
        BY <1>3, <3>4 DEF FinishApply, ApplyShares, Goes, At, new
      <4>2. IF c \in SharesOf(new) THEN ~Counting(s, c) /\ Counting(s, c)'
            ELSE Counting(s, c)' <=> Counting(s, c)
        <5>1. Counting(s, c) <=> c \in KindsOf(new)
          BY <1>2, <1>4, <4>1, CountingAt DEF KindsAt
        <5>2. Counting(s, c)' <=> c \in CountersOf(new)
          BY <1>2, <1>4, <4>1 DEF Gone, Back
        <5> QED
          BY <1>4, <5>1, <5>2, KindOrShare
      <4> QED
        BY <4>1, <4>2, BumpFollows
    <3> QED
      BY <1>8, <3>1, <3>2, <3>3, <3>4
  <2> QED
    BY <1>6, <2>5, <2>7 DEF Follows
<1>9. CASE Keep(r)
  <2>1. pc[r] = "keep" /\ UNCHANGED <<counts, conversations>> /\ p \in {"idle", "commit"}
        /\ seen'[s] = new
    BY <1>3, <1>9 DEF Keep, At, Typed, new, Goes
  <2>2. new # None
    BY <1>4, MetricsAssumption
  <2>3. Counted(s)' <=> Counted(s)
    BY <1>2, <1>4, <2>1, <2>2 DEF Looked
  <2>4. ASSUME NEW c \in Kinds \cup Shares PROVE FollowsIn(s, c)
    <3>1. Counting(s, c)' <=> Counting(s, c)
      BY <1>2, <1>4, <2>1, <2>2 DEF Gone, Back
    <3> QED
      BY <2>1, <3>1, StillFollows
  <2> QED
    BY <1>6, <2>1, <2>3, <2>4, CountedFollows DEF Follows
<1> QED
  BY <1>7, <1>8, <1>9 DEF Advance

LEMMA AdvanceTally ==
    ASSUME Typed, Keyed, Tally, NEW r \in Slot, Advance(r)
    PROVE  Tally'
<1> SUFFICES ASSUME crossed' = {} PROVE OneByOne' /\ Totals'
  BY DEF Tally
<1>1. OneByOne /\ Totals
  BY AdvanceLeaves DEF Tally
<1>2. job[r].sid \in Session
  BY Places DEF Recording, Typed, SlotOK
<1>3. PICK s \in Session : s = job[r].sid
  BY <1>2
<1>4. Local(r, s) /\ Single(r, s) /\ r \in Busy
  BY <1>1, <1>3, AdvanceLocal
<1>5. Totals'
  BY <1>1, <1>3, <1>4, AdvanceFollows, Recount
<1>6. \A q, u \in Busy' : job'[q].sid = job'[u].sid => q = u
  <2>1. ASSUME NEW q \in Busy' PROVE q \in Busy /\ job'[q].sid = job[q].sid
    <3>1. q \in Slot /\ pc'[q] \in Recording
      BY <2>1 DEF Busy
    <3>2. CASE q # r
      BY <1>4, <3>1, <3>2 DEF Local, Busy
    <3>3. CASE q = r
      <4>1. PICK p \in Pc, j \in Job :
               Moved(r, p, j) /\ (p = "idle" \/ j.sid = job[r].sid)
        BY AdvanceIs DEF Goes
      <4>2. p # "idle"
        BY <3>1, <3>3, <4>1, MovedIs DEF Recording
      <4> QED
        BY <1>4, <3>3, <4>1, <4>2, MovedIs
    <3> QED
      BY <3>2, <3>3
  <2> QED
    BY <1>1, <2>1 DEF OneByOne
<1>7. ASSUME NEW q \in Slot, pc'[q] \in {"withdraw", "withdrawing"}
      PROVE  job'[q].prev = seen'[job'[q].sid]
  <2>1. CASE q # r
    <3>1. pc'[q] = pc[q] /\ job'[q] = job[q]
      BY <1>4, <2>1 DEF Local
    <3>2. job[q].sid # s
      BY <1>4, <1>7, <2>1, <3>1 DEF Single
    <3>3. job[q].sid \in Session
      BY <1>7, <3>1 DEF Typed, SlotOK
    <3>4. seen'[job[q].sid] = seen[job[q].sid]
      BY <1>4, <3>2, <3>3 DEF Local
    <3> QED
      BY <1>1, <1>7, <3>1, <3>4 DEF OneByOne
  <2>2. CASE q = r
    <3>1. PICK p \in Pc, j \in Job : Goes(r, p, j)
      BY AdvanceIs
    <3>2. pc'[r] = p /\ job'[r] = j
      BY <3>1, MovedIs DEF Goes
    <3>3. Look(r) \/ Withdraw(r)
      BY <1>7, <2>2, <3>1, <3>2 DEF Advance, Goes
    <3>4. UNCHANGED seen /\ (Withdraw(r) => pc[r] = "withdraw")
      BY <3>3, Places, AdvanceLeaves
    <3>5. j.sid = job[r].sid /\ j.prev = seen[job[r].sid]
      BY <1>1, <1>7, <2>2, <3>1, <3>2, <3>3, <3>4 DEF OneByOne, Goes
    <3> QED
      BY <2>2, <3>2, <3>4, <3>5
  <2> QED
    BY <2>1, <2>2
<1>8. OneByOne'
  BY <1>6, <1>7 DEF OneByOne
<1> QED
  BY <1>5, <1>8

(* Steps that leave every record where it is.                              *)
LEMMA SteadyTally ==
    ASSUME Typed, Tally, UNCHANGED <<conversations, counts, seen, crossed, torn>>,
           NEW r \in Slot, \A q \in Slot \ {r} : pc'[q] = pc[q] /\ job'[q] = job[q],
           \/ pc[r] = "commit" /\ pc'[r] = "idle" /\ job'[r].sid = None
           \/ pc'[r] = pc[r] /\ job'[r] = job[r]
    PROVE  Tally'
<1> SUFFICES ASSUME crossed' = {} PROVE OneByOne' /\ Totals'
  BY DEF Tally
<1>1. OneByOne /\ Totals
  BY DEF Tally
<1>2. \A q \in Slot : pc'[q] \in Recording \/ pc[q] \in Recording =>
          pc'[q] = pc[q] /\ job'[q] = job[q]
  BY DEF Recording
<1>3. Looked \subseteq Recording /\ \A c : Gone(c) \subseteq Looked /\ Back(c) \subseteq Looked
  BY DEF Looked, Recording, Gone, Back
<1>4. ASSUME NEW s \in Session PROVE Counted(s)' <=> Counted(s)
  BY <1>2, <1>3 DEF Counted, On
<1>5. ASSUME NEW s \in Session, NEW c \in Kinds \cup Shares
      PROVE  Counting(s, c)' <=> Counting(s, c)
  <2>1. (\A q \in Slot : On(q, s) => pc[q] \notin Gone(c))
          <=> (\A q \in Slot : On(q, s)' => pc'[q] \notin Gone(c))
    BY <1>2, <1>3 DEF On
  <2>2. (\E q \in Slot : On(q, s) /\ pc[q] \in Back(c) /\ c \in CountersOf(job[q].snap))
          <=> (\E q \in Slot : On(q, s)' /\ pc'[q] \in Back(c) /\ c \in CountersOf(job'[q].snap))
    BY <1>2, <1>3 DEF On
  <2> QED
    BY <2>1, <2>2 DEF Counting
<1>6. Totals'
  <2>1. ASSUME NEW c \in Kinds \cup Shares
        PROVE  /\ counts'[c] <= Cardinality({s \in Session : Counting(s, c)'})
               /\ c \notin torn' => counts'[c] = Cardinality({s \in Session : Counting(s, c)'})
    <3>1. {s \in Session : Counting(s, c)'} = {s \in Session : Counting(s, c)}
      BY <1>5
    <3> QED
      BY <1>1, <3>1 DEF Totals
  <2>2. {s \in Session : Counted(s)'} = {s \in Session : Counted(s)}
    BY <1>4
  <2> QED
    BY <1>1, <2>1, <2>2 DEF Totals
<1>7. OneByOne'
  <2>1. Busy' = Busy
    BY <1>2 DEF Busy
  <2>2. \A q \in Busy : job'[q] = job[q]
    BY <1>2 DEF Busy
  <2>3. {"withdraw", "withdrawing"} \subseteq Recording
    BY DEF Recording
  <2> QED
    BY <1>1, <1>2, <2>1, <2>2, <2>3 DEF OneByOne
<1> QED
  BY <1>6, <1>7

LEMMA CloseTally ==
    ASSUME Typed, Tally, NEW r \in Slot, Close(r)
    PROVE  Tally'
<1>1. /\ pc[r] = "commit" /\ Moved(r, "idle", NoJob)
      /\ UNCHANGED <<conversations, counts, seen, crossed, torn>>
  BY DoneIs DEF Close, Commit, CommitFails, At, board, history
<1>2. /\ pc'[r] = "idle" /\ job'[r] = NoJob
      /\ \A q \in Slot \ {r} : pc'[q] = pc[q] /\ job'[q] = job[q]
  BY <1>1, MovedIs
<1> QED
  BY <1>1, <1>2, NoJobTyped, SteadyTally

(* A record begins; nobody else records its conversation.                  *)
LEMMA RecordTally ==
    ASSUME Typed, Tally, NEW r \in Slot, NEW s \in Session, Recorded(r, s)
    PROVE  Tally'
<1> SUFFICES ASSUME crossed' = {} PROVE OneByOne' /\ Totals'
  BY DEF Tally
<1>1. PICK sc \in Scenarios, action \in Actions, holdout \in BOOLEAN :
         Record(r, s, sc, action, holdout)
  BY RecordedIs
<1>2. /\ pc[r] = "idle" /\ UNCHANGED <<board, stale, view, torn>>
      /\ crossed' = IF \E q \in Busy : job[q].sid = s THEN crossed \cup {s} ELSE crossed
      /\ \E j \in Job : Moved(r, "look", j) /\ j.sid = s /\ j.snap \in Snap
  BY <1>1, RecordIs
<1>3. PICK j \in Job : Moved(r, "look", j) /\ j.sid = s /\ j.snap \in Snap
  BY <1>2
<1>4. (\A q \in Busy : job[q].sid # s) /\ OneByOne /\ Totals
  <2>1. \A q \in Busy : job[q].sid # s
    BY <1>2
  <2>2. crossed = {}
    BY <1>2, <2>1
  <2> QED
    BY <2>1, <2>2 DEF Tally
<1>5. /\ pc'[r] = "look" /\ job'[r] = j
      /\ \A q \in Slot \ {r} : pc'[q] = pc[q] /\ job'[q] = job[q]
      /\ job[r] = NoJob
  BY <1>2, <1>3, MovedIs DEF Typed, SlotOK
<1>6. UNCHANGED <<conversations, counts, seen, torn>>
  BY <1>2 DEF board
<1>7. Local(r, s)
  BY <1>3, <1>5, <1>6, NoJobTyped DEF Local
<1>8. Single(r, s)
  <2>1. ASSUME NEW q \in Slot \ {r}, job[q].sid = s PROVE pc[q] = "commit"
    <3>1. pc[q] # "idle"
      BY <2>1, NoJobTyped, MetricsAssumption DEF Typed, SlotOK
    <3>2. q \notin Busy
      BY <1>4, <2>1
    <3> QED
      BY <3>1, <3>2 DEF Busy, Typed, Pc
  <2> QED
    BY <2>1 DEF Single
<1>9. ~On(r, s)
  BY <1>5, NoJobTyped, MetricsAssumption DEF On
<1>10. Counted(s)' <=> Counted(s)
  BY <1>5, <1>6, <1>7, <1>8, <1>9, SingleCounts DEF Looked
<1>11. ASSUME NEW c \in Kinds \cup Shares PROVE Counting(s, c)' <=> Counting(s, c)
  <2>1. pc'[r] \notin Gone(c) /\ pc'[r] \notin Back(c)
    BY <1>5 DEF Gone, Back
  <2> QED
    BY <1>6, <1>7, <1>8, <1>9, <2>1, SingleCounts
<1>12. Follows(s)
  BY <1>6, <1>10, <1>11, StillFollows, CountedFollows DEF Follows
<1>13. Totals'
  BY <1>4, <1>7, <1>12, Recount
<1>14. OneByOne'
  <2>1. ASSUME NEW q \in Busy', q # r PROVE q \in Busy /\ job'[q] = job[q] /\ job[q].sid # s
    BY <1>4, <1>5, <2>1 DEF Busy
  <2>2. job'[r].sid = s
    BY <1>3, <1>5
  <2>3. \A q, u \in Busy' : job'[q].sid = job'[u].sid => q = u
    BY <1>4, <2>1, <2>2 DEF OneByOne
  <2>4. \A q \in Slot : pc'[q] \in {"withdraw", "withdrawing"} => job'[q].prev = seen'[job'[q].sid]
    BY <1>4, <1>5, <1>6 DEF OneByOne
  <2> QED
    BY <2>3, <2>4 DEF OneByOne
<1> QED
  BY <1>13, <1>14

LEMMA FreshTally ==
    ASSUME pc = [r \in Slot |-> "idle"], conversations = 0,
           counts = [c \in Kinds \cup Shares |-> 0], seen = [s \in Session |-> None]
    PROVE  Tally
<1>1. ASSUME NEW s \in Session PROVE ~Counted(s) /\ \A c : ~Counting(s, c)
  BY DEF Counted, Counting, Looked, Back
<1>2. ASSUME NEW c \in Kinds \cup Shares PROVE counts[c] = Cardinality({s \in Session : Counting(s, c)})
  <2>1. {s \in Session : Counting(s, c)} = {}
    BY <1>1
  <2>2. counts[c] = 0
    OBVIOUS
  <2> QED
    BY <2>1, <2>2, FS_EmptySet
<1>3. conversations = Cardinality({s \in Session : Counted(s)})
  <2>1. {s \in Session : Counted(s)} = {}
    BY <1>1
  <2> QED
    BY <2>1, FS_EmptySet
<1>4. OneByOne
  BY DEF OneByOne, Busy, Recording
<1>5. \A c \in Kinds \cup Shares : counts[c] <= Cardinality({s \in Session : Counting(s, c)})
  BY <1>2
<1> QED
  BY <1>2, <1>3, <1>4, <1>5 DEF Tally, Totals

LEMMA CrashTally == ASSUME Crash PROVE Tally'
<1>1. ASSUME NEW s \in Session PROVE ~Counted(s)' /\ \A c : ~Counting(s, c)'
  BY DEF Crash, Counted, Counting, Looked, Back
<1>2. ASSUME NEW c \in Kinds \cup Shares
      PROVE  counts'[c] = Cardinality({s \in Session : Counting(s, c)'})
  <2>1. {s \in Session : Counting(s, c)'} = {}
    BY <1>1
  <2>2. counts'[c] = 0
    BY DEF Crash
  <2> QED
    BY <2>1, <2>2, FS_EmptySet
<1>3. conversations' = Cardinality({s \in Session : Counted(s)'})
  <2>1. {s \in Session : Counted(s)'} = {}
    BY <1>1
  <2> QED
    BY <2>1, FS_EmptySet DEF Crash
<1>4. OneByOne'
  BY DEF OneByOne, Busy, Recording, Crash
<1>5. ASSUME NEW c \in Kinds \cup Shares
      PROVE  counts'[c] <= Cardinality({s \in Session : Counting(s, c)'})
  <2>1. counts'[c] = 0
    BY DEF Crash
  <2> QED
    BY <1>2, <2>1
<1> QED
  BY <1>2, <1>3, <1>4, <1>5 DEF Tally, Totals

LEMMA NextTally == Typed /\ Keyed /\ Tally /\ [Next]_vars => Tally'
<1> SUFFICES ASSUME Typed, Keyed, Tally, [Next]_vars PROVE Tally'
  OBVIOUS
<1>1. CASE UNCHANGED <<pc, job, board, history>>
  <2>1. UNCHANGED <<pc, job, conversations, counts, seen, crossed, torn>>
    BY <1>1 DEF board, history
  <2>2. /\ OneByOne' <=> OneByOne
        /\ Totals' <=> Totals
    BY <2>1 DEF OneByOne, Busy, Totals, Counted, Counting, On
  <2> QED
    BY <2>1, <2>2 DEF Tally
<1>2. ASSUME NEW r \in Slot, NEW s \in Session, Review(r, s) PROVE Tally'
  BY <1>2, SteadyTally DEF Review, board, history
<1> QED
  BY <1>1, <1>2, NextCases, RecordTally, AdvanceTally, CloseTally, CrashTally
     DEF Snapshot, Show, vars

LEMMA TallyAlways == Spec => [](Typed /\ Keyed /\ Tally)
<1>1. Init => Typed /\ Tally
  BY InitTyped, FreshTally DEF Init
<1>2. Init => Keyed
  BY DEF Init, Keyed, SlotKeyed
<1> QED
  BY <1>1, <1>2, NextTyped, NextKeyed, NextTally, PTL DEF Spec

-----------------------------------------------------------------------------
(* The cost.  While no two records have overlapped at all, at most one is  *)
(* in the making, and the total differs from the cost of the conversations *)
(* counted by what that one has withdrawn and added so far.                *)
WorthIn(f, s) == IF f[s] = None THEN 0 ELSE f[s].cost

SpentIn(f) ==
    {u \in Session \X (1..MaxCost) : f[u[1]] # None /\ u[2] <= f[u[1]].cost}

Worth(s) == WorthIn(seen, s)

Due(r) ==
    IF pc[r] \in {"apply", "scenario", "action", "applying"} THEN -Worth(job[r].sid)
    ELSE IF pc[r] = "keep" THEN job[r].snap.cost - Worth(job[r].sid) ELSE 0

DueOf(r) ==
    /\ total = Cardinality(Spent) + Due(r)
    /\ pc[r] \in {"withdraw", "withdrawing"} => job[r].prev = seen[job[r].sid]
    /\ pc[r] \in {"withdrawing", "applying"} => job[r].read = total

Billed ==
    ~raced => /\ \A r, q \in Busy : r = q
              /\ \A r \in Busy : DueOf(r)
              /\ CostAgrees

LEMMA SpentIs == Spent = SpentIn(seen)
BY DEF Spent, SpentIn, Seen

Records == [Session -> Snap \cup {None}]

LEMMA SpentFinite ==
    ASSUME NEW f
    PROVE  IsFiniteSet(SpentIn(f)) /\ Cardinality(SpentIn(f)) \in Nat
<1>1. IsFiniteSet(1..MaxCost)
  BY MetricsAssumption, FS_Interval
<1>2. IsFiniteSet(Session \X (1..MaxCost))
  BY <1>1, MetricsAssumption, FS_Product
<1> QED
  BY <1>2, FS_Subset, FS_CardinalityType DEF SpentIn

(* What a conversation contributes is its cost.                            *)
LEMMA Contribution ==
    ASSUME NEW s, NEW c \in 0..MaxCost
    PROVE  /\ IsFiniteSet({s} \X (1..c))
           /\ Cardinality({s} \X (1..c)) = c
<1>1. IsFiniteSet({s}) /\ Cardinality({s}) = 1
  BY FS_Singleton
<1>2. c \in Int /\ c >= 0
  BY MetricsAssumption
<1>3. IsFiniteSet(1..c) /\ Cardinality(1..c) = c
  BY <1>2, FS_Interval
<1>4. /\ IsFiniteSet({s} \X (1..c))
      /\ Cardinality({s} \X (1..c)) = Cardinality({s}) * Cardinality(1..c)
  BY <1>1, <1>3, FS_Product
<1> QED
  BY <1>1, <1>2, <1>3, <1>4

LEMMA WorthIs ==
    ASSUME NEW f \in Records, NEW s \in Session
    PROVE  /\ WorthIn(f, s) \in 0..MaxCost
           /\ \A u \in {s} \X (1..MaxCost) : u \in SpentIn(f) <=> u[2] <= WorthIn(f, s)
<1>1. CASE f[s] = None
  <2>1. WorthIn(f, s) = 0
    BY <1>1 DEF WorthIn
  <2> QED
    BY <1>1, <2>1, MetricsAssumption DEF SpentIn
<1>2. CASE f[s] # None
  <2>1. f[s] \in Snap
    BY <1>2 DEF Records
  <2>2. WorthIn(f, s) = f[s].cost /\ f[s].cost \in 0..MaxCost
    BY <1>2, <2>1 DEF WorthIn, Snap
  <2> QED
    BY <1>2, <2>2 DEF SpentIn
<1> QED
  BY <1>1, <1>2

LEMMA SpentParts ==
    ASSUME NEW f \in Records, NEW s \in Session
    PROVE  Cardinality(SpentIn(f)) = Cardinality({u \in SpentIn(f) : u[1] # s}) + WorthIn(f, s)
<1> DEFINE rest == {u \in SpentIn(f) : u[1] # s}
           own == {s} \X (1..WorthIn(f, s))
<1>1. WorthIn(f, s) \in 0..MaxCost
  BY WorthIs
<1>2. IsFiniteSet(own) /\ Cardinality(own) = WorthIn(f, s)
  BY <1>1, Contribution
<1>3. IsFiniteSet(rest) /\ Cardinality(rest) \in Nat
  BY SpentFinite, FS_Subset, FS_CardinalityType
<1>4. SpentIn(f) = rest \cup own
  <2>1. ASSUME NEW u \in own PROVE u \in SpentIn(f)
    <3>1. u \in {s} \X (1..MaxCost) /\ u[2] <= WorthIn(f, s)
      BY <1>1, <2>1, MetricsAssumption
    <3> QED
      BY <3>1, WorthIs
  <2>2. ASSUME NEW u \in SpentIn(f), u[1] = s PROVE u \in own
    <3>1. u = <<u[1], u[2]>> /\ u[2] \in 1..MaxCost
      BY <2>2 DEF SpentIn
    <3>2. u \in {s} \X (1..MaxCost)
      BY <2>2, <3>1
    <3>3. u[2] <= WorthIn(f, s)
      BY <3>2, <2>2, WorthIs
    <3> QED
      BY <1>1, <2>2, <3>1, <3>3
  <2> QED
    BY <2>1, <2>2
<1>5. rest \cap own = {}
  OBVIOUS
<1> HIDE DEF rest, own
<1>6. Cardinality(rest \cup own) = Cardinality(rest) + Cardinality(own) - Cardinality({})
  BY <1>2, <1>3, <1>5, FS_Union
<1>7. Cardinality({}) = 0
  BY FS_EmptySet
<1>8. Cardinality(SpentIn(f)) = Cardinality(rest) + WorthIn(f, s)
  BY <1>1, <1>2, <1>3, <1>4, <1>6, <1>7
<1> QED
  BY <1>8 DEF rest

(* A record that is kept replaces the contribution of its conversation.    *)
LEMMA SpentChanges ==
    ASSUME NEW f \in Records, NEW s \in Session, NEW snap \in Snap,
           NEW g, g = [f EXCEPT ![s] = snap]
    PROVE  Cardinality(SpentIn(g)) = Cardinality(SpentIn(f)) - WorthIn(f, s) + snap.cost
<1>1. /\ g \in Records /\ g[s] = snap
      /\ \A u \in Session \ {s} : g[u] = f[u]
  BY DEF Records
<1>2. WorthIn(g, s) = snap.cost
  BY <1>1, MetricsAssumption DEF WorthIn
<1> DEFINE rest == {u \in SpentIn(f) : u[1] # s}
<1>3. {u \in SpentIn(g) : u[1] # s} = rest
  BY <1>1 DEF SpentIn
<1>4. Cardinality(SpentIn(f)) = Cardinality(rest) + WorthIn(f, s)
  BY SpentParts
<1>5. Cardinality(SpentIn(g)) = Cardinality(rest) + WorthIn(g, s)
  BY <1>1, <1>3, SpentParts
<1>6. /\ Cardinality(rest) \in Nat /\ WorthIn(f, s) \in Int /\ WorthIn(g, s) \in Int
  BY <1>1, SpentFinite, FS_Subset, FS_CardinalityType, WorthIs
<1> HIDE DEF rest
<1> QED
  BY <1>2, <1>4, <1>5, <1>6

LEMMA SpentStays == ASSUME UNCHANGED seen PROVE Spent' = Spent /\ \A s : Worth(s)' = Worth(s)
BY DEF Spent, Seen, Worth, WorthIn

(* Steps outside the records.                                              *)
LEMMA SteadyBilled ==
    ASSUME Billed, UNCHANGED <<seen, total, raced>>, Busy' = Busy,
           \A q \in Busy : pc'[q] = pc[q] /\ job'[q] = job[q]
    PROVE  Billed'
<1> SUFFICES ASSUME ~raced' PROVE /\ \A q, u \in Busy' : q = u
                                  /\ \A q \in Busy' : DueOf(q)'
                                  /\ CostAgrees'
  BY DEF Billed
<1>1. (\A q, u \in Busy : q = u) /\ (\A q \in Busy : DueOf(q)) /\ CostAgrees
  BY DEF Billed
<1>2. Spent' = Spent /\ \A s : Worth(s)' = Worth(s)
  BY SpentStays
<1>3. ASSUME NEW q \in Busy PROVE DueOf(q)'
  <2>1. pc'[q] = pc[q] /\ job'[q] = job[q] /\ DueOf(q)
    BY <1>1
  <2>2. Due(q)' = Due(q)
    BY <2>1 DEF Due, Worth, WorthIn
  <2> QED
    BY <1>2, <2>1, <2>2 DEF DueOf
<1> QED
  BY <1>1, <1>2, <1>3 DEF CostAgrees

(* The step of the only record there is, which goes on.                    *)
LEMMA OnlyBilled ==
    ASSUME NEW r \in Busy, Busy' = {r}, ~raced' => DueOf(r)'
    PROVE  Billed'
BY DEF Billed, CostAgrees

LEMMA AdvanceBilled ==
    ASSUME Typed, Billed, NEW r \in Slot, Advance(r)
    PROVE  Billed'
<1> SUFFICES ASSUME ~raced' PROVE Billed'
  BY DEF Billed
<1>1. raced' = raced /\ r \in Busy
  BY AdvanceLeaves, Places DEF Busy
<1>2. Busy = {r} /\ DueOf(r)
  BY <1>1 DEF Billed
<1>3. PICK s \in Session : s = job[r].sid
  BY Places DEF Recording, Typed, SlotOK
<1>4. job[r] \in Job /\ job[r].snap \in Snap /\ total \in Int /\ seen \in Records
  BY <1>1 DEF Busy, Recording, Typed, SlotOK, Records
<1>5. Worth(s) \in 0..MaxCost /\ (seen[s] = None => Worth(s) = 0)
      /\ (seen[s] # None => Worth(s) = seen[s].cost)
  BY <1>4, WorthIs DEF Worth, WorthIn
<1>6. Worth(s) \in Int /\ Cardinality(Spent) \in Int /\ job[r].snap.cost \in Int
  BY <1>4, <1>5, SpentIs, SpentFinite DEF Snap
<1>7. PICK p \in Pc, j \in Job : Goes(r, p, j)
  BY AdvanceIs
<1>8. pc'[r] = p /\ job'[r] = j /\ \A q \in Slot \ {r} : pc'[q] = pc[q] /\ job'[q] = job[q]
  BY <1>7, MovedIs DEF Goes
<1>9. Busy' = IF p \in Recording THEN {r} ELSE {}
  BY <1>2, <1>8 DEF Busy
<1>10. CASE Look(r) \/ Withdraw(r) \/ WithdrawShares(r) \/ Counts(r) \/ FinishApply(r)
  <2>1. /\ p # "idle" /\ p \in Recording /\ j.sid = s /\ j.snap = job[r].snap /\ UNCHANGED seen
    <3>1. ~Keep(r)
      BY <1>10, Places
    <3> QED
      BY <1>3, <1>7, <1>10, <3>1, AdvanceLeaves DEF Goes, Recording
  <2>2. Spent' = Spent /\ \A u : Worth(u)' = Worth(u)
    BY <2>1, SpentStays
  <2>3. Due(r)' = IF p \in {"apply", "scenario", "action", "applying"} THEN -Worth(s)
                  ELSE IF p = "keep" THEN job[r].snap.cost - Worth(s) ELSE 0
    BY <1>8, <2>1 DEF Due, Worth, WorthIn
  <2>4. Due(r) = IF pc[r] \in {"apply", "scenario", "action", "applying"} THEN -Worth(s)
                 ELSE IF pc[r] = "keep" THEN job[r].snap.cost - Worth(s) ELSE 0
    BY <1>3 DEF Due
  <2>5. total = Cardinality(Spent) + Due(r)
    BY <1>2 DEF DueOf
  <2>6. CASE Look(r)
    <3>1. total' = total /\ pc[r] = "look" /\ j.prev = seen[s]
          /\ p = IF seen[s] = None THEN "apply" ELSE "withdraw"
      BY <1>3, <1>7, <2>6 DEF Look, At, Goes
    <3>2. total' = Cardinality(Spent) + Due(r)'
      BY <1>5, <1>6, <2>3, <2>4, <2>5, <3>1
    <3>3. DueOf(r)'
      BY <1>8, <2>1, <2>2, <3>1, <3>2 DEF DueOf
    <3> QED
      BY <1>1, <1>9, <2>1, <3>3, OnlyBilled
  <2>7. CASE Withdraw(r)
    <3>1. /\ total' = total /\ pc[r] = "withdraw" /\ p = "withdrawing" /\ j.prev = seen[s]
          /\ j.read = total
      BY <1>2, <1>3, <1>7, <2>7 DEF Withdraw, At, DueOf, Goes
    <3>2. total' = Cardinality(Spent) + Due(r)'
      BY <2>3, <2>4, <2>5, <3>1
    <3>3. DueOf(r)'
      BY <1>8, <2>1, <2>2, <3>1, <3>2 DEF DueOf
    <3> QED
      BY <1>1, <1>9, <2>1, <3>3, OnlyBilled
  <2>8. CASE WithdrawShares(r)
    <3>1. /\ pc[r] = "withdrawing" /\ p = "apply"
          /\ total' = job[r].read + (-1) * job[r].prev.cost
      BY <1>7, <2>8 DEF WithdrawShares, ApplyShares, At, Goes
    <3>2. job[r].read = total /\ job[r].prev = seen[s] /\ job[r].prev \in Snap
      BY <1>2, <1>3, <3>1 DEF DueOf, Typed, SlotOK
    <3>3. Worth(s) = job[r].prev.cost
      BY <1>5, <3>2, MetricsAssumption
    <3>4. total' = total - Worth(s)
      BY <1>4, <1>6, <3>1, <3>2, <3>3
    <3>5. total' = Cardinality(Spent) + Due(r)'
      BY <1>6, <2>3, <2>4, <2>5, <3>1, <3>4
    <3>6. DueOf(r)'
      BY <1>8, <2>2, <3>1, <3>5 DEF DueOf
    <3> QED
      BY <1>1, <1>9, <2>1, <3>6, OnlyBilled
  <2>9. CASE Counts(r)
    <3>1. /\ total' = total /\ pc[r] \in {"apply", "scenario", "action"}
          /\ p \in {"scenario", "action", "applying"} /\ (p = "applying" => j.read = total)
      BY <1>7, <2>9, Places, AdvanceLeaves DEF Goes
    <3>2. total' = Cardinality(Spent) + Due(r)'
      BY <2>3, <2>4, <2>5, <3>1
    <3>3. DueOf(r)'
      BY <1>8, <2>2, <3>1, <3>2 DEF DueOf
    <3> QED
      BY <1>1, <1>9, <2>1, <3>3, OnlyBilled
  <2>10. CASE FinishApply(r)
    <3>1. /\ pc[r] = "applying" /\ p = "keep"
          /\ total' = job[r].read + 1 * job[r].snap.cost
      BY <1>7, <2>10 DEF FinishApply, ApplyShares, At, Goes
    <3>2. job[r].read = total
      BY <1>2, <3>1 DEF DueOf
    <3>3. total' = total + job[r].snap.cost
      BY <1>4, <1>6, <3>1, <3>2
    <3>4. total' = Cardinality(Spent) + Due(r)'
      BY <1>6, <2>3, <2>4, <2>5, <3>1, <3>3
    <3>5. DueOf(r)'
      BY <1>8, <2>2, <3>1, <3>4 DEF DueOf
    <3> QED
      BY <1>1, <1>9, <2>1, <3>5, OnlyBilled
  <2> QED
    BY <1>10, <2>6, <2>7, <2>8, <2>9, <2>10
<1>11. CASE Keep(r)
  <2>1. /\ pc[r] = "keep" /\ UNCHANGED total /\ p \in {"idle", "commit"}
        /\ seen' = [seen EXCEPT ![s] = job[r].snap]
    BY <1>3, <1>7, <1>11 DEF Keep, At, Goes
  <2>2. Busy' = {}
    BY <1>9, <2>1 DEF Recording
  <2>3. total = Cardinality(Spent) + (job[r].snap.cost - Worth(s))
    BY <1>2, <1>3, <2>1 DEF DueOf, Due
  <2>4. Cardinality(SpentIn(seen')) = Cardinality(SpentIn(seen)) - WorthIn(seen, s) + job[r].snap.cost
    BY <1>4, <2>1, SpentChanges
  <2>5. SpentIn(seen') = Spent'
    BY DEF SpentIn, Spent, Seen
  <2>6. total' = Cardinality(Spent)'
    BY <1>6, <2>1, <2>3, <2>4, <2>5, SpentIs DEF Worth
  <2> QED
    BY <2>2, <2>6 DEF Billed, CostAgrees
<1> QED
  BY <1>10, <1>11 DEF Advance

LEMMA RecordBilled ==
    ASSUME Typed, Billed, NEW r \in Slot, NEW s \in Session, Recorded(r, s)
    PROVE  Billed'
<1> SUFFICES ASSUME ~raced' PROVE Billed'
  BY DEF Billed
<1>1. PICK sc \in Scenarios, action \in Actions, holdout \in BOOLEAN :
         Record(r, s, sc, action, holdout)
  BY RecordedIs
<1>2. /\ pc[r] = "idle" /\ UNCHANGED <<seen, total>>
      /\ \E j \in Job : Moved(r, "look", j) /\ j.sid = s /\ j.snap \in Snap
  BY <1>1, RecordIs DEF board
<1>3. PICK j \in Job : Moved(r, "look", j)
  BY <1>2
<1>4. ~raced /\ Busy = {}
  BY <1>1 DEF Record
<1>5. pc'[r] = "look" /\ \A q \in Slot \ {r} : pc'[q] = pc[q]
  BY <1>3, MovedIs
<1>6. Busy' = {r}
  BY <1>4, <1>5 DEF Busy, Recording
<1>7. total = Cardinality(Spent) /\ Spent' = Spent /\ total' = total
  BY <1>2, <1>4, SpentStays DEF Billed, CostAgrees
<1>8. Cardinality(Spent) \in Int
  BY SpentIs, SpentFinite
<1>9. DueOf(r)'
  BY <1>5, <1>7, <1>8 DEF DueOf, Due
<1> QED
  BY <1>6, <1>9 DEF Billed, CostAgrees

LEMMA NothingSpent == ASSUME seen = [s \in Session |-> None] PROVE Cardinality(Spent) = 0
<1>1. Spent = {}
  BY DEF Spent, Seen
<1> QED
  BY <1>1, FS_EmptySet

LEMMA NextBilled == Typed /\ Billed /\ [Next]_vars => Billed'
<1> SUFFICES ASSUME Typed, Billed, [Next]_vars PROVE Billed'
  OBVIOUS
<1>1. CASE UNCHANGED <<pc, job, board, history>>
  BY <1>1, SteadyBilled DEF board, history, Busy
<1>2. ASSUME NEW r \in Slot, NEW s \in Session, Review(r, s) PROVE Billed'
  BY <1>2, SteadyBilled DEF Review, board, history, Busy
<1>3. ASSUME NEW r \in Slot, Close(r) PROVE Billed'
  <2>1. /\ pc[r] = "commit" /\ Moved(r, "idle", NoJob) /\ UNCHANGED <<seen, total, raced>>
    BY <1>3, DoneIs DEF Close, Commit, CommitFails, At, board, history
  <2>2. /\ pc'[r] = "idle" /\ \A q \in Slot \ {r} : pc'[q] = pc[q] /\ job'[q] = job[q]
    BY <2>1, MovedIs
  <2>3. r \notin Busy /\ Busy' = Busy
    BY <2>1, <2>2 DEF Busy, Recording
  <2>4. \A q \in Busy : pc'[q] = pc[q] /\ job'[q] = job[q]
    BY <2>2, <2>3 DEF Busy
  <2> QED
    BY <2>1, <2>3, <2>4, SteadyBilled
<1>4. CASE Crash
  <2>1. Busy' = {}
    BY <1>4 DEF Crash, Busy, Recording
  <2>2. Cardinality(Spent)' = 0
    <3>1. Spent' = {}
      BY <1>4 DEF Crash, Spent, Seen
    <3> QED
      BY <3>1, FS_EmptySet
  <2> QED
    BY <1>4, <2>1, <2>2 DEF Crash, Billed, CostAgrees
<1> QED
  BY <1>1, <1>2, <1>3, <1>4, NextCases, RecordBilled, AdvanceBilled DEF Snapshot, Show, vars

-----------------------------------------------------------------------------
(* Every reachable state is well typed: a record is withdrawn only where   *)
(* there is one, and from counters that are there                          *)
(* (metrics.record_conversation).                                          *)
THEOREM TypeCorrect == Spec => []TypeOK
<1>1. Typed /\ Keyed => TypeOK
  <2> SUFFICES ASSUME Typed, Keyed PROVE TypeOK
    OBVIOUS
  <2>1. ASSUME NEW r \in Slot
        PROVE  /\ pc[r] # "idle" => job[r].sid # None /\ job[r].snap # None
               /\ pc[r] \in {"withdraw", "withdrawing"} =>
                    job[r].prev # None /\ KindsOf(job[r].prev) \subseteq keys
    BY MetricsAssumption DEF Typed, SlotOK, Keyed, SlotKeyed
  <2> QED
    BY <2>1 DEF Typed, TypeOK, Pc, Job, View
<1> QED
  BY <1>1, TallyAlways, PTL

(* While no two records of one conversation overlap, it counts once and as *)
(* its last record, for any number of turns that record others at the same *)
(* time and any order of their steps, those between the reading and the    *)
(* writing of a first count included: only a scenario or an action where   *)
(* one such count has overwritten another may count less (metrics.py:36).  *)
THEOREM CountersAreTrue == Spec => []CountersAgree
<1>1. Typed /\ Tally => CountersAgree
  <2> SUFFICES ASSUME Typed, OneByOne, Totals, Busy = {} PROVE
               /\ conversations = Cardinality(Seen)
               /\ \A c \in Shares : counts[c] = Cardinality({s \in Seen : c \in SharesOf(seen[s])})
               /\ \A c \in Kinds :
                    /\ counts[c] <= Cardinality({s \in Seen : c \in KindsOf(seen[s])})
                    /\ c \notin torn =>
                         counts[c] = Cardinality({s \in Seen : c \in KindsOf(seen[s])})
    BY DEF CountersAgree, Tally
  <2>1. \A r \in Slot : pc[r] \notin Recording
    BY DEF Busy
  <2>2. Looked \subseteq Recording /\ \A c : Gone(c) \subseteq Looked /\ Back(c) \subseteq Looked
    BY DEF Looked, Recording, Gone, Back
  <2>3. {s \in Session : Counted(s)} = Seen
    BY <2>1, <2>2 DEF Counted, Seen
  <2>4. ASSUME NEW c \in Kinds \cup Shares
        PROVE  {s \in Session : Counting(s, c)} = {s \in Seen : c \in CountersOf(seen[s])}
    BY <2>1, <2>2 DEF Counting, Seen
  <2>5. \A s \in Seen : seen[s] \in Snap
    BY DEF Seen, Typed
  <2>6. ASSUME NEW c \in Kinds
        PROVE  /\ counts[c] <= Cardinality({s \in Seen : c \in KindsOf(seen[s])})
               /\ c \notin torn => counts[c] = Cardinality({s \in Seen : c \in KindsOf(seen[s])})
    <3>1. {s \in Seen : c \in CountersOf(seen[s])} = {s \in Seen : c \in KindsOf(seen[s])}
      BY <2>5, KindOrShare
    <3> QED
      BY <2>4, <3>1 DEF Totals
  <2>7. ASSUME NEW c \in Shares
        PROVE  counts[c] = Cardinality({s \in Seen : c \in SharesOf(seen[s])})
    <3>1. {s \in Seen : c \in CountersOf(seen[s])} = {s \in Seen : c \in SharesOf(seen[s])}
      BY <2>5, KindOrShare
    <3>2. c \notin torn
      BY Disjoint DEF Typed
    <3> QED
      BY <2>4, <3>1, <3>2 DEF Totals
  <2> QED
    BY <2>3, <2>6, <2>7 DEF Totals
<1> QED
  BY <1>1, TallyAlways, PTL

(* While no two records of one conversation overlap, a dashboard shows no  *)
(* rate below zero, however many records fall between the reading of its   *)
(* denominators and that of its numerators, and none above one as long as  *)
(* these have not made the denominators grow (metrics.snapshot).           *)
THEOREM RatesAreInRange == Spec => []RatesInRange
<1>1. Typed /\ Tally => RatesInRange
  <2> SUFFICES ASSUME Typed, OneByOne, Totals, view # None
               PROVE  /\ 0 <= counts["deflected"] /\ 0 <= counts["addressable_deflected"]
                      /\ conversations <= view.conv => counts["deflected"] <= view.conv
                      /\ counts["addressable_total"] <= view.addr =>
                           counts["addressable_deflected"] <= view.addr
    BY DEF RatesInRange, Tally
  <2> DEFINE N(c) == {s \in Session : Counting(s, c)}
             all == {s \in Session : Counted(s)}
             D == N("deflected")
             AD == N("addressable_deflected")
             AT == N("addressable_total")
  <2>1. {"deflected", "addressable_deflected", "addressable_total"} \subseteq Shares
    BY DEF Shares
  <2>2. /\ counts["deflected"] = Cardinality(D) /\ conversations = Cardinality(all)
        /\ counts["addressable_deflected"] = Cardinality(AD)
        /\ counts["addressable_total"] = Cardinality(AT)
    <3>1. \A c \in Shares : c \notin torn
      BY Disjoint DEF Typed
    <3> QED
      BY <2>1, <3>1 DEF Totals
  <2>3. ASSUME NEW snap, "addressable_deflected" \in SharesOf(snap)
        PROVE  "addressable_total" \in SharesOf(snap)
    BY <2>1, <2>3 DEF SharesOf
  <2>4. ASSUME NEW s \in Session, NEW c \in Shares, Counting(s, c) PROVE Counted(s)
    BY <2>4 DEF Counting, Counted, Back, Looked
  <2>5. D \subseteq all
    BY <2>1, <2>4
  <2>6. ASSUME NEW s \in Session, Counting(s, "addressable_deflected")
        PROVE  Counting(s, "addressable_total")
    <3>1. \A c \in {"addressable_deflected", "addressable_total"} :
             c \notin Kinds /\ c \notin Scenarios
      BY <2>1, Disjoint DEF Kinds
    <3>2. \A c \in {"addressable_deflected", "addressable_total"} :
             Gone(c) = {"apply", "scenario", "action", "applying", "keep"} /\ Back(c) = {"keep"}
      BY <3>1 DEF Gone, Back
    <3>3. ASSUME NEW snap \in Snap, "addressable_deflected" \in CountersOf(snap)
          PROVE  "addressable_total" \in CountersOf(snap)
      BY <2>1, <2>3, <3>3, KindOrShare
    <3>4. seen[s] # None => seen[s] \in Snap
      BY DEF Typed
    <3>5. \A r \in Slot : pc[r] = "keep" => job[r].snap \in Snap
      BY DEF Typed, SlotOK
    <3> QED
      BY <2>6, <3>2, <3>3, <3>4, <3>5 DEF Counting
  <2>7. AD \subseteq AT
    BY <2>6
  <2>8. IsFiniteSet(D) /\ IsFiniteSet(all) /\ IsFiniteSet(AT) /\ IsFiniteSet(AD)
    BY MetricsAssumption, FS_Subset
  <2>9. view.conv \in Nat /\ view.addr \in Nat
    BY DEF Typed, View
  <2> HIDE DEF D, AD, AT, all
  <2>10. /\ Cardinality(D) <= Cardinality(all) /\ Cardinality(AD) <= Cardinality(AT)
         /\ Cardinality(D) \in Nat /\ Cardinality(AD) \in Nat
         /\ Cardinality(all) \in Nat /\ Cardinality(AT) \in Nat
    BY <2>5, <2>7, <2>8, FS_Subset, FS_CardinalityType
  <2> QED
    BY <2>2, <2>9, <2>10
<1> QED
  BY <1>1, TallyAlways, PTL

(* While no two records overlap at all, the cost shown is that of the      *)
(* conversations counted, for any number of conversations and whatever     *)
(* each of them costs (metrics.py:45).                                     *)
THEOREM CostsAddUp == Spec => []CostAgrees
<1>1. Init => Billed
  <2> SUFFICES ASSUME Init PROVE Billed
    OBVIOUS
  <2>1. Busy = {} /\ total = Cardinality(Spent)
    BY NothingSpent DEF Init, Busy, Recording
  <2> QED
    BY <2>1 DEF Billed, CostAgrees
<1>2. Billed => CostAgrees
  BY DEF Billed, CostAgrees
<1> QED
  BY <1>1, <1>2, TallyAlways, NextBilled, PTL DEF Spec
=============================================================================
