---------------------------- MODULE PromiseProofs ----------------------------
(***************************************************************************)
(* Under Postgres the execution layer is a single ledger: for any number   *)
(* of workers, requests, keys, tokens, sessions, retries and faults a call *)
(* is answered "executed" at most once, and, if no key is used for two     *)
(* tokens, Execution implements Redemption.  Without Postgres EXECUTED     *)
(* does as much for one request at a time, and what a replay says has a    *)
(* cause however many requests there are.                                  *)
(***************************************************************************)
EXTENDS ExecutionProofs

(* The two UNIQUE constraints of table executions.                         *)
RowsUnique == \A x, y \in rows : x.key = y.key \/ x.token = y.token => x = y

(* A request that inserted a row and has not answered yet: it alone may    *)
(* give the first answer to its call.                                      *)
Holds(r) == ~IsTurn(r) /\ pc[r] \in {"created", "snapshot", "write"}

CallOf(r) == <<job[r].key, job[r].token>>

OneAnswer ==
    /\ \A c \in Call : firsts[c] <= 1
    /\ \A r \in Slot : Holds(r) => firsts[CallOf(r)] = 0
    /\ \A r, q \in Slot : Holds(r) /\ Holds(q) /\ CallOf(r) = CallOf(q) => r = q

Ledger == RowsUnique /\ OneAnswer

LEMMA LedgerInit == Init => Ledger
  BY ExecutionAssumption DEF Init, Ledger, RowsUnique, OneAnswer, Holds, IsTurn

(* A holder's row is there, so its call is one of Call.                    *)
LEMMA HolderRow ==
    ASSUME TypeOK, Shape, Backed, NEW r \in Slot, Holds(r)
    PROVE  CallOf(r) \in Call /\ [key |-> job[r].key, token |-> job[r].token] \in rows
  BY Served DEF Holds, CallOf, Backed, SlotBacked

(* A step that answers nobody and makes nobody a holder.                   *)
LEMMA QuietStep ==
    ASSUME OneAnswer, firsts' = firsts,
           \A q \in Slot : Holds(q)' => Holds(q) /\ job'[q] = job[q]
    PROVE  OneAnswer'
  BY DEF OneAnswer, CallOf

(* So is a step that ends request r or moves it where it holds nothing.    *)
LEMMA Lost ==
    ASSUME OneAnswer, firsts' = firsts, NEW r \in Slot, OthersSame(r), ~Holds(r)'
    PROVE  OneAnswer'
<1>1. ASSUME NEW q \in Slot, Holds(q)' PROVE Holds(q) /\ job'[q] = job[q]
  BY <1>1 DEF OthersSame, Holds, IsTurn
<1> QED BY <1>1, QuietStep

LEMMA Kept ==
    ASSUME OneAnswer, firsts' = firsts, NEW r \in Slot, OthersSame(r),
           Holds(r), job'[r] = job[r]
    PROVE  OneAnswer'
<1>1. ASSUME NEW q \in Slot, Holds(q)' PROVE Holds(q) /\ job'[q] = job[q]
  BY <1>1 DEF OthersSame, Holds, IsTurn
<1> QED BY <1>1, QuietStep

LEMMA DoneHoldsNothing ==
    ASSUME TypeOK, NEW r \in Slot, Done(r)
    PROVE  OthersSame(r) /\ ~Holds(r)'
  BY DEF TypeOK, Done, Goto, OthersSame, Holds

(* What the unique constraints see to under Postgres, and EXECUTED, while  *)
(* nothing runs at the same time, without it.                              *)
Uncontested ==
    ~UsePostgres => \A r \in Slot : pc[r] = "commit" => Conflicts(r) = {}

(* An insertion that found no conflict keeps the rows unique, and the new  *)
(* row's call has neither an answer nor another holder.                    *)
LEMMA InsertFresh ==
    ASSUME TypeOK, Shape, Backed, Ledger, Uncontested,
           NEW r \in Slot, pc[r] = "commit", Insert(r)
    PROVE  /\ RowsUnique'
           /\ ~IsTurn(r) => firsts[CallOf(r)] = 0
           /\ \A q \in Slot : Holds(q) => CallOf(q) # CallOf(r)
<1>1. \A x \in rows : x.key # job[r].key /\ x.token # job[r].token
  BY DEF Insert, Uncontested, Conflicts, RowsOfKey, RowsOfToken
<1>2. RowsUnique'
  BY <1>1 DEF Insert, Ledger, RowsUnique
<1>3. ~IsTurn(r) => firsts[CallOf(r)] = 0
  <2> SUFFICES ASSUME ~IsTurn(r) PROVE firsts[CallOf(r)] = 0
    OBVIOUS
  <2>1. CallOf(r) \in Call BY Served DEF CallOf
  <2>2. firsts[CallOf(r)] \in Nat BY <2>1 DEF TypeOK
  <2>3. ~(firsts[CallOf(r)] > 0)
    <3> DEFINE row == [key |-> CallOf(r)[1], token |-> CallOf(r)[2]]
    <3>1. row.key = job[r].key BY DEF CallOf
    <3>2. firsts[CallOf(r)] > 0 => row \in rows BY <2>1 DEF Backed, ToldBacked
    <3> HIDE DEF row
    <3> QED BY <1>1, <3>1, <3>2
  <2> QED BY <2>2, <2>3
<1>4. ASSUME NEW q \in Slot, Holds(q) PROVE CallOf(q) # CallOf(r)
  <2> DEFINE row == [key |-> job[q].key, token |-> job[q].token]
  <2>1. row \in rows /\ row.key = job[q].key BY <1>4, HolderRow
  <2> HIDE DEF row
  <2> QED BY <1>1, <2>1 DEF CallOf
<1> QED BY <1>2, <1>3, <1>4

LEMMA LedgerStep ==
    ASSUME TypeOK, Shape, Backed, Ledger, Uncontested, [Next]_vars
    PROVE  Ledger'
<1> USE DEF At, Goto, Move, Begin, Returned, served, memory, database, told, Ledger
<1>1. ASSUME NEW c \in Call, NEW r \in Slot, NEW w \in Worker, AcceptReplay(r, w, c)
      PROVE  Ledger'
  BY <1>1, QuietStep DEF AcceptReplay, RowsUnique, Holds, IsTurn
<1>2. ASSUME NEW c \in Call, NEW r \in Slot, NEW w \in Worker, AcceptArrive(r, w, c)
      PROVE  Ledger'
  <2>1. OthersSame(r) /\ ~Holds(r)' BY <1>2 DEF AcceptArrive, TypeOK, OthersSame, Holds
  <2> QED BY <1>2, <2>1, Lost DEF AcceptArrive, RowsUnique
<1>3. ASSUME NEW r \in Slot,
             \/ LookupHit(r) \/ Rejected(r) \/ RejectedByFault(r) \/ TokenReplay(r)
             \/ CommitFails(r) \/ PublishReplay(r) \/ WriteFails(r)
      PROVE  Ledger'
  <2>1. Done(r) /\ rows' = rows /\ firsts' = firsts
    BY <1>3 DEF LookupHit, Rejected, RejectedByFault, TokenReplay, CommitFails,
       PublishReplay, WriteFails
  <2> QED BY <2>1, DoneHoldsNothing, Lost DEF RowsUnique
<1>4. ASSUME NEW r \in Slot,
             LookupMiss(r) \/ LookupFails(r) \/ Verified(r) \/ TokenNew(r) \/ TurnRefund(r)
      PROVE  Ledger'
  <2>1. /\ rows' = rows /\ firsts' = firsts
        /\ pc' = [pc EXCEPT ![r] = pc'[r]] /\ pc'[r] \in {"verify", "jti", "commit"}
        /\ UNCHANGED <<job, got, snap>>
    BY <1>4 DEF LookupMiss, LookupFails, Verified, TokenNew, TurnRefund, TypeOK
  <2>2. OthersSame(r) /\ ~Holds(r)' BY <2>1 DEF OthersSame, Holds, TypeOK
  <2> QED BY <2>1, <2>2, Lost DEF RowsUnique
<1>5. ASSUME NEW r \in Slot, CommitInsert(r) PROVE Ledger'
  <2>1. pc[r] = "commit" /\ Insert(r) BY <1>5 DEF CommitInsert
  <2>2. /\ RowsUnique'
        /\ ~IsTurn(r) => firsts[CallOf(r)] = 0
        /\ \A q \in Slot : Holds(q) => CallOf(q) # CallOf(r)
    BY <2>1, InsertFresh
  <2>3. firsts' = firsts /\ job' = job BY <1>5 DEF CommitInsert
  <2>4. ASSUME NEW q \in Slot, q # r PROVE Holds(q)' <=> Holds(q)
    BY <1>5, <2>4 DEF CommitInsert, TypeOK, Holds, IsTurn
  <2>5. Holds(r)' => ~IsTurn(r) BY <2>3 DEF Holds, IsTurn
  <2>6. \A q \in Slot : CallOf(q)' = CallOf(q) BY <2>3 DEF CallOf
  <2>7. OneAnswer' BY <2>2, <2>3, <2>4, <2>5, <2>6 DEF OneAnswer
  <2> QED BY <2>2, <2>7
<1>6. ASSUME NEW r \in Slot, CommitConflict(r) PROVE Ledger'
  <2>1. rows' = rows /\ firsts' = firsts BY <1>6 DEF CommitConflict
  <2>2. OthersSame(r) /\ ~Holds(r)'
    BY <1>6 DEF CommitConflict, TypeOK, OthersSame, Holds
  <2> QED BY <2>1, <2>2, Lost DEF RowsUnique
<1>7. ASSUME NEW r \in Slot, CommitUnacknowledged(r) PROVE Ledger'
  <2>1. pc[r] = "commit" /\ Insert(r) /\ Done(r) /\ firsts' = firsts
    BY <1>7 DEF CommitUnacknowledged
  <2> QED BY <2>1, InsertFresh, DoneHoldsNothing, Lost
<1>8. ASSUME NEW r \in Slot, PublishNew(r) \/ Snapshot(r) PROVE Ledger'
  <2>1. /\ rows' = rows /\ firsts' = firsts /\ job' = job
        /\ pc[r] \in {"created", "snapshot"}
    BY <1>8 DEF PublishNew, Snapshot
  <2>2. ASSUME NEW q \in Slot, Holds(q)' PROVE Holds(q) /\ job'[q] = job[q]
    BY <1>8, <2>1, <2>2 DEF PublishNew, Snapshot, TypeOK, Holds, IsTurn
  <2> QED BY <2>1, <2>2, QuietStep DEF RowsUnique
<1>9. ASSUME NEW r \in Slot,
             PublishRefund(r) \/ TurnContinue(r) \/ TurnConclude(r) \/ TurnRefundAgain(r)
      PROVE  Ledger'
  <2>1. rows' = rows /\ firsts' = firsts /\ job' = job
    BY <1>9 DEF PublishRefund, TurnContinue, TurnConclude, TurnRefundAgain
  <2>2. IsTurn(r)
    BY <1>9 DEF PublishRefund, TurnContinue, TurnConclude, TurnRefundAgain, Shape, ShapeOf, IsTurn
  <2>3. ASSUME NEW q \in Slot, Holds(q)' PROVE Holds(q) /\ job'[q] = job[q]
    BY <1>9, <2>1, <2>2, <2>3
       DEF PublishRefund, TurnContinue, TurnConclude, TurnRefundAgain, TypeOK, Holds, IsTurn
  <2> QED BY <2>1, <2>3, QuietStep DEF RowsUnique
<1>10. ASSUME NEW r \in Slot, Write(r) \/ NoWrite(r) PROVE Ledger'
  <2>1. /\ rows' = rows /\ Done(r) /\ pc[r] \in {"snapshot", "write"}
        /\ firsts' = IF IsTurn(r) THEN firsts ELSE [firsts EXCEPT ![CallOf(r)] = @ + 1]
    BY <1>10 DEF Write, NoWrite, Respond, CallOf
  <2>2. OthersSame(r) /\ ~Holds(r)' BY <2>1, DoneHoldsNothing
  <2>3. CASE IsTurn(r) BY <2>1, <2>2, <2>3, Lost DEF RowsUnique
  <2>4. CASE ~IsTurn(r)
    <3>1. Holds(r) /\ CallOf(r) \in Call /\ firsts[CallOf(r)] = 0
      BY <2>1, <2>4, Served DEF Holds, CallOf, OneAnswer
    <3>2. /\ firsts'[CallOf(r)] = 1
          /\ \A c \in Call \ {CallOf(r)} : firsts'[c] = firsts[c]
      BY <2>1, <2>4, <3>1 DEF TypeOK
    <3>3. ASSUME NEW q \in Slot, Holds(q)'
          PROVE  q # r /\ Holds(q) /\ CallOf(q)' = CallOf(q) /\ CallOf(q) \in Call
      <4>1. q # r BY <2>2, <3>3
      <4>2. Holds(q) /\ CallOf(q)' = CallOf(q)
        BY <2>2, <3>3, <4>1 DEF OthersSame, Holds, IsTurn, CallOf
      <4> QED BY <4>1, <4>2, HolderRow
    <3>4. OneAnswer' BY <3>1, <3>2, <3>3 DEF OneAnswer
    <3> QED BY <2>1, <3>4 DEF RowsUnique
  <2> QED BY <2>3, <2>4
<1>11. ASSUME NEW r \in Slot, NEW w \in Worker, NEW f \in Refund, TurnArrive(r, w, f)
       PROVE  Ledger'
  <2>1. OthersSame(r) /\ ~Holds(r)' BY <1>11 DEF TurnArrive, TypeOK, OthersSame, Holds
  <2> QED BY <1>11, <2>1, Lost DEF TurnArrive, RowsUnique
<1>12. ASSUME NEW t \in Token, Expire(t) PROVE Ledger'
  BY <1>12, QuietStep DEF Expire, RowsUnique, Holds, IsTurn
<1>13. ASSUME NEW w \in Worker, Crash(w) PROVE Ledger'
  <2>1. rows' = rows /\ firsts' = firsts BY <1>13 DEF Crash
  <2>2. ASSUME NEW q \in Slot, Holds(q)' PROVE Holds(q) /\ job'[q] = job[q]
    BY <1>13, <2>2 DEF Crash, Reset, Holds, IsTurn
  <2> QED BY <2>1, <2>2, QuietStep DEF RowsUnique
<1>14. CASE UNCHANGED vars
  BY <1>14, QuietStep DEF vars, RowsUnique, Holds, IsTurn
<1> QED
  BY <1>1, <1>2, <1>3, <1>4, <1>5, <1>6, <1>7, <1>8, <1>9, <1>10, <1>11, <1>12, <1>13,
     <1>14, ExecutionAssumption DEF Next, Arrive, Step, Failure

LEMMA LedgerInvariance ==
    ASSUME UsePostgres PROVE Spec => [](TypeOK /\ Shape /\ Backed /\ Ledger)
<1>1. Init => TypeOK /\ Shape /\ Backed /\ Ledger
  BY TypeShapeInit, BackedInit, LedgerInit
<1>2. Uncontested BY DEF Uncontested
<1>3. TypeOK /\ Shape /\ Backed /\ Ledger /\ [Next]_vars
        => (TypeOK /\ Shape /\ Backed /\ Ledger)'
  BY <1>2, TypeShapeStep, BackedStep, LedgerStep
<1> QED BY <1>1, <1>3, PTL DEF Spec

LEMMA LedgerExecutesOnce == ASSUME TypeOK, Backed, Ledger PROVE ExecutedOnce
<1>1. \A c \in Call : firsts[c] <= 1 BY DEF Ledger, OneAnswer
<1>2. ASSUME NEW c \in Call, NEW d \in Call, firsts[c] > 0, firsts[d] > 0,
             c[1] = d[1] \/ c[2] = d[2]
      PROVE  c = d
  <2> DEFINE x == [key |-> c[1], token |-> c[2]]
             y == [key |-> d[1], token |-> d[2]]
  <2>1. x \in rows /\ y \in rows BY <1>2 DEF Backed, ToldBacked
  <2>2. x = y BY <1>2, <2>1 DEF Ledger, RowsUnique
  <2> QED BY <2>2, CallParts
<1> QED BY <1>1, <1>2 DEF ExecutedOnce

(* Under Postgres one key, and one token, is answered "executed" at most   *)
(* once: the unique constraints, not EXECUTED, make app.accept idempotent. *)
THEOREM ExecutesOnce == ASSUME UsePostgres PROVE Spec => []ExecutedOnce
<1>1. TypeOK /\ Backed /\ Ledger => ExecutedOnce BY LedgerExecutesOnce
<1> QED BY <1>1, LedgerInvariance, PTL

-----------------------------------------------------------------------------
(* Without Postgres EXECUTED stands in for the constraints, as long as one *)
(* process handles one request at a time.                                  *)

Alone ==
    /\ ~UsePostgres
    /\ \A r, q \in Slot : r = q
    /\ \A v, w \in Worker : v = w

(* A row's key and token are in EXECUTED, unless the request that inserted *)
(* it has yet to enter them, or a crash took EXECUTED away: then it took   *)
(* the sessions away too, and no request gets past verification any more.  *)
Mirror(x) ==
    \/ \A w \in Worker : known[w][x.key] # None /\ known[w][x.token] # None
    \/ \E r \in Slot : pc[r] = "created" /\ job[r].key = x.key /\ job[r].token = x.token
    \/ \A w \in Worker, s \in Session : outcome[w][s] = "absent"

Unused(r) ==
    /\ pc[r] \in {"lookup", "verify", "jti", "commit"}
         => known[job[r].at][job[r].key] = None
    /\ pc[r] = "commit" => known[job[r].at][job[r].token] = None

Mirrored ==
    /\ \A x \in rows : Mirror(x)
    /\ \A r \in Slot : Unused(r)

LEMMA MirroredInit == Init => Mirrored
  BY DEF Init, Mirrored, Unused

LEMMA MirroredUncontested ==
    ASSUME TypeOK, Shape, Mirrored, Alone
    PROVE  Uncontested
<1> SUFFICES ASSUME NEW r \in Slot, pc[r] = "commit",
                    NEW x \in rows, x.key = job[r].key \/ x.token = job[r].token
             PROVE  FALSE
  BY DEF Uncontested, Conflicts, RowsOfKey, RowsOfToken
<1>1. job[r].at \in Worker /\ Sid(r) \in Session /\ outcome[job[r].at][Sid(r)] # "absent"
  BY Served DEF Shape, ShapeOf, HasSession
<1>2. known[job[r].at][job[r].key] = None /\ known[job[r].at][job[r].token] = None
  BY DEF Mirrored, Unused
<1>3. \A q \in Slot : pc[q] # "created" BY DEF Alone
<1> QED BY <1>1, <1>2, <1>3 DEF Mirrored, Mirror

(* A step that leaves rows, EXECUTED and SESSIONS alone and does not start *)
(* from a row that has yet to be entered.                                  *)
LEMMA MirrorFrame ==
    ASSUME Mirrored, Alone, NEW r \in Slot, pc[r] # "created",
           rows' = rows, known' = known, outcome' = outcome
    PROVE  \A x \in rows' : Mirror(x)'
<1>1. \A q \in Slot : pc[q] # "created" BY DEF Alone
<1> QED BY <1>1 DEF Mirrored, Mirror

LEMMA DoneUnused == ASSUME TypeOK, Alone, NEW r \in Slot, Done(r) PROVE \A q \in Slot : Unused(q)'
<1>1. pc'[r] = "idle" BY DEF TypeOK, Done, Goto
<1> QED BY <1>1 DEF Alone, Unused

(* Once the sessions are gone no served request is past verification.      *)
LEMMA NotGone ==
    ASSUME TypeOK, Shape, NEW r \in Slot, pc[r] \in HasSession
    PROVE  ~(\A w \in Worker, s \in Session : outcome[w][s] = "absent")
<1>1. job[r].at \in Worker /\ Sid(r) \in Session BY Served DEF HasSession
<1> QED BY <1>1 DEF Shape, ShapeOf

(* Entries of EXECUTED are only added.                                     *)
LEMMA MirrorGrows ==
    ASSUME Mirrored, Alone, TypeOK, Shape, rows' = rows, NEW r \in Slot,
           pc[r] \in HasSession, pc[r] # "created",
           \A w \in Worker, i \in Key \cup Offer : known[w][i] # None => known'[w][i] # None
    PROVE  \A x \in rows' : Mirror(x)'
<1> SUFFICES ASSUME NEW x \in rows PROVE Mirror(x)'
  OBVIOUS
<1>1. \A q \in Slot : pc[q] # "created" BY DEF Alone
<1>2. \A w \in Worker : known[w][x.key] # None /\ known[w][x.token] # None
  BY <1>1, NotGone DEF Mirrored, Mirror
<1>3. x.key \in Key \cup Offer /\ x.token \in Key \cup Offer BY DEF TypeOK, Offer
<1> QED BY <1>2, <1>3 DEF Mirror

(* Publishing enters the row of the request and keeps the other entries.   *)
LEMMA PublishMirror ==
    ASSUME Mirrored, Alone, TypeOK, Shape, rows' = rows, NEW r \in Slot,
           pc[r] = "created", Publish(r)
    PROVE  \A x \in rows' : Mirror(x)'
<1> SUFFICES ASSUME NEW x \in rows PROVE Mirror(x)'
  OBVIOUS
<1> DEFINE v == job[r].at  k == job[r].key  t == job[r].token  g == got[r]
<1>1. /\ v \in Worker /\ k \in Key \cup Offer /\ t \in Key \cup Offer
      /\ g # None /\ x.key \in Key \cup Offer /\ x.token \in Key \cup Offer
      /\ known \in [Worker -> [Key \cup Offer -> Offer \cup {None}]]
      /\ known' = [known EXCEPT ![v][k] = g, ![v][t] = g]
  BY Served DEF Shape, ShapeOf, TypeOK, Publish, Offer
<1>2. \/ \A w \in Worker : known[w][x.key] # None /\ known[w][x.token] # None
      \/ k = x.key /\ t = x.token
  <2>1. ~(\A w \in Worker, s \in Session : outcome[w][s] = "absent")
    BY NotGone DEF HasSession
  <2> QED BY <2>1 DEF Mirrored, Mirror, Alone
<1>3. \A w \in Worker : w = v BY <1>1 DEF Alone
<1> HIDE DEF v, k, t, g
<1>4. \A w \in Worker : known'[w][x.key] # None /\ known'[w][x.token] # None
  BY <1>1, <1>2, <1>3
<1> QED BY <1>4 DEF Mirror

LEMMA MirroredStep ==
    ASSUME TypeOK, Shape, Alone, Mirrored, [Next]_vars
    PROVE  Mirrored'
<1> USE DEF At, Goto, Move, Begin, Returned, served, memory, database, told
<1>1. ASSUME NEW c \in Call, NEW r \in Slot, NEW w \in Worker, AcceptReplay(r, w, c)
      PROVE  Mirrored'
  BY <1>1 DEF AcceptReplay, Mirrored, Mirror, Unused
<1>2. ASSUME NEW c \in Call, NEW r \in Slot, NEW w \in Worker, AcceptArrive(r, w, c)
      PROVE  Mirrored'
  <2>1. /\ rows' = rows /\ known' = known /\ outcome' = outcome /\ pc[r] # "created"
        /\ pc'[r] = "lookup" /\ job'[r].at = w /\ job'[r].key = c[1]
        /\ known[w][c[1]] = None
    BY <1>2 DEF AcceptArrive, TypeOK
  <2>2. Unused(r)' BY <2>1 DEF Unused
  <2> QED BY <2>1, <2>2, MirrorFrame DEF Mirrored, Alone
<1>3. ASSUME NEW r \in Slot,
             Rejected(r) \/ NoWrite(r) \/ Write(r) \/ WriteFails(r)
      PROVE  Mirrored'
  <2>1. /\ Done(r) /\ rows' = rows /\ known' = known /\ outcome' = outcome
        /\ pc[r] # "created"
    BY <1>3 DEF Rejected, NoWrite, Write, WriteFails, Respond
  <2> QED BY <2>1, DoneUnused, MirrorFrame DEF Mirrored
<1>4. ASSUME NEW r \in Slot,
             LookupHit(r) \/ LookupFails(r) \/ RejectedByFault(r) \/ CommitConflict(r)
             \/ CommitFails(r) \/ CommitUnacknowledged(r) \/ Snapshot(r)
      PROVE  FALSE
  BY <1>4 DEF LookupHit, LookupFails, RejectedByFault, CommitConflict, CommitFails,
     CommitUnacknowledged, Snapshot, Alone
<1>5. ASSUME NEW r \in Slot,
             LookupMiss(r) \/ TokenNew(r) \/ TurnRefund(r) \/ TurnContinue(r)
      PROVE  Mirrored'
  <2>1. /\ rows' = rows /\ known' = known /\ outcome' = outcome /\ job' = job
        /\ pc[r] # "created"
    BY <1>5 DEF LookupMiss, TokenNew, TurnRefund, TurnContinue
  <2>2. Unused(r)'
    <3>1. CASE LookupMiss(r)
      BY <3>1 DEF LookupMiss, TypeOK, Mirrored, Unused
    <3>2. CASE TokenNew(r)
      BY <3>2 DEF TokenNew, TypeOK, Mirrored, Unused
    <3>3. CASE TurnRefund(r)
      <4>1. job[r].key = job[r].token
        BY <3>3, Served DEF TurnRefund, Shape, ShapeOf, IsTurn
      <4> QED BY <3>3, <4>1 DEF TurnRefund, TypeOK, Unused
    <3>4. CASE TurnContinue(r)
      BY <3>4 DEF TurnContinue, TypeOK, Unused
    <3> QED BY <1>5, <3>1, <3>2, <3>3, <3>4
  <2> QED BY <2>1, <2>2, MirrorFrame DEF Mirrored, Alone
<1>6. ASSUME NEW r \in Slot, Verified(r) PROVE Mirrored'
  <2>1. job[r].at \in Worker /\ Sid(r) \in Session BY <1>6, Served DEF Verified
  <2>2. outcome' = outcome
    BY <1>6, <2>1 DEF Verified, Available, Loaded, TypeOK, Alone
  <2>3. Unused(r)' BY <1>6 DEF Verified, TypeOK, Mirrored, Unused
  <2>4. rows' = rows /\ known' = known /\ pc[r] # "created" BY <1>6 DEF Verified
  <2> QED BY <2>2, <2>3, <2>4, MirrorFrame DEF Mirrored, Alone
<1>7. ASSUME NEW r \in Slot, TokenReplay(r) PROVE Mirrored'
  <2>1. job[r].at \in Worker /\ job[r].key \in Key \cup Offer
    BY <1>7, Served DEF TokenReplay, Offer
  <2>2. Done(r) /\ rows' = rows /\ pc[r] \in HasSession /\ pc[r] # "created"
    BY <1>7 DEF TokenReplay, HasSession
  <2>3. \A w \in Worker, i \in Key \cup Offer : known[w][i] # None => known'[w][i] # None
    BY <1>7, <2>1 DEF TokenReplay, TypeOK
  <2> QED BY <2>2, <2>3, DoneUnused, MirrorGrows DEF Mirrored
<1>8. ASSUME NEW r \in Slot, CommitInsert(r) PROVE Mirrored'
  <2> DEFINE row == [key |-> job[r].key, token |-> job[r].token]
  <2>1. /\ rows' = rows \cup {row} /\ known' = known /\ job' = job
        /\ pc[r] = "commit" /\ pc'[r] = "created"
    BY <1>8 DEF CommitInsert, Insert, TypeOK
  <2>2. row.key = job[r].key /\ row.token = job[r].token OBVIOUS
  <2> HIDE DEF row
  <2>3. ASSUME NEW x \in rows', x = row PROVE Mirror(x)'
    BY <2>1, <2>2, <2>3 DEF Mirror
  <2>4. ASSUME NEW x \in rows PROVE Mirror(x)'
    <3>1. ~(\A w \in Worker, s \in Session : outcome[w][s] = "absent")
      BY <2>1, NotGone DEF HasSession
    <3>2. \A q \in Slot : pc[q] # "created" BY <2>1 DEF Alone
    <3>3. \A w \in Worker : known[w][x.key] # None /\ known[w][x.token] # None
      BY <3>1, <3>2 DEF Mirrored, Mirror
    <3> QED BY <2>1, <3>3 DEF Mirror
  <2>5. Unused(r)' BY <2>1 DEF Unused
  <2>6. \A x \in rows' : Mirror(x)' BY <2>1, <2>3, <2>4
  <2> QED BY <2>5, <2>6 DEF Mirrored, Alone
<1>9. ASSUME NEW r \in Slot, PublishNew(r) \/ PublishReplay(r) \/ PublishRefund(r)
      PROVE  Mirrored'
  <2>0. pc[r] \in {"created", "conflict"} /\ Publish(r) /\ rows' = rows
    BY <1>9 DEF PublishNew, PublishReplay, PublishRefund
  <2>1. \A x \in rows' : Mirror(x)'
    <3>1. CASE pc[r] = "created" BY <2>0, <3>1, PublishMirror
    <3>2. CASE pc[r] = "conflict"
      <4>1. /\ job[r].at \in Worker /\ job[r].key \in Key \cup Offer
            /\ job[r].token \in Key \cup Offer /\ got[r] # None
        BY <3>2, Served DEF Shape, ShapeOf, Offer
      <4> DEFINE v == job[r].at  k == job[r].key  t == job[r].token  g == got[r]
      <4>2. /\ known' = [known EXCEPT ![v][k] = g, ![v][t] = g]
            /\ known \in [Worker -> [Key \cup Offer -> Offer \cup {None}]]
        BY <2>0 DEF Publish, TypeOK
      <4>3. v \in Worker /\ k \in Key \cup Offer /\ t \in Key \cup Offer /\ g # None
        BY <4>1
      <4> HIDE DEF v, k, t, g
      <4>4. \A w \in Worker, i \in Key \cup Offer : known[w][i] # None => known'[w][i] # None
        BY <4>2, <4>3
      <4> QED BY <2>0, <3>2, <4>4, MirrorGrows DEF HasSession
    <3> QED BY <2>0, <3>1, <3>2
  <2>2. pc'[r] \in {"snapshot", "idle"}
    BY <1>9 DEF PublishNew, PublishReplay, PublishRefund, Done, TypeOK
  <2> QED BY <2>1, <2>2 DEF Mirrored, Unused, Alone
<1>10. ASSUME NEW r \in Slot, TurnConclude(r) \/ TurnRefundAgain(r) PROVE Mirrored'
  <2>1. /\ rows' = rows /\ known' = known /\ pc[r] = "decide" /\ pc'[r] = "snapshot"
    BY <1>10 DEF TurnConclude, TurnRefundAgain, TypeOK
  <2>2. \A x \in rows' : Mirror(x)' BY <2>1, MirrorGrows DEF HasSession
  <2> QED BY <2>1, <2>2 DEF Mirrored, Unused, Alone
<1>11. ASSUME NEW r \in Slot, NEW w \in Worker, NEW f \in Refund, TurnArrive(r, w, f)
       PROVE  Mirrored'
  <2>1. outcome' = outcome
    BY <1>11 DEF TurnArrive, Available, Loaded, TypeOK, Alone
  <2>2. /\ rows' = rows /\ known' = known /\ pc[r] = "idle" /\ pc'[r] = "decide"
    BY <1>11 DEF TurnArrive, TypeOK
  <2> QED BY <2>1, <2>2, MirrorFrame DEF Mirrored, Unused, Alone
<1>12. ASSUME NEW t \in Token, Expire(t) PROVE Mirrored'
  BY <1>12 DEF Expire, Mirrored, Mirror, Unused
<1>13. ASSUME NEW w \in Worker, Crash(w) PROVE Mirrored'
  <2>1. \A v \in Worker : v = w BY DEF Alone
  <2>2. \A v \in Worker, s \in Session : outcome'[v][s] = "absent"
    BY <1>13, <2>1 DEF Crash, TypeOK
  <2>3. ASSUME NEW q \in Slot PROVE Unused(q)'
    <3>1. CASE job[q].at = w BY <1>13, <3>1 DEF Crash, Reset, Unused
    <3>2. CASE job[q].at # w
      <4>1. pc[q] = "idle" BY <2>1, <3>2, Served
      <4>2. pc'[q] = "idle" BY <1>13, <3>2, <4>1 DEF Crash, Reset
      <4> QED BY <4>2 DEF Unused
    <3> QED BY <3>1, <3>2
  <2> QED BY <2>2, <2>3 DEF Mirrored, Mirror
<1>14. CASE UNCHANGED vars
  BY <1>14 DEF vars, Mirrored, Mirror, Unused
<1> QED
  BY <1>1, <1>2, <1>3, <1>4, <1>5, <1>6, <1>7, <1>8, <1>9, <1>10, <1>11, <1>12, <1>13,
     <1>14, ExecutionAssumption DEF Next, Arrive, Step, Failure

(* Without Postgres, too, one key and one token is answered "executed" at  *)
(* most once, if one process handles one request at a time; a crash does   *)
(* not help, since it takes the sessions away as well as EXECUTED.         *)
THEOREM ExecutesOnceAlone == ASSUME Alone PROVE Spec => []ExecutedOnce
<1> DEFINE IInv == TypeOK /\ Shape /\ Backed /\ Ledger /\ Mirrored
<1>1. Init => IInv
  BY TypeShapeInit, BackedInit, LedgerInit, MirroredInit
<1>2. IInv /\ [Next]_vars => IInv'
  BY TypeShapeStep, BackedStep, MirroredUncontested, LedgerStep, MirroredStep
<1>3. IInv => ExecutedOnce BY LedgerExecutesOnce
<1> QED BY <1>1, <1>2, <1>3, PTL DEF Spec

-----------------------------------------------------------------------------
(* With one token per key, EXECUTED holds under every key and token the    *)
(* offer that key or token stands for, and so do the table and the slots.  *)

KnownHonest ==
    \A w \in Worker, i \in Key \cup Offer :
        known[w][i] # None =>
            /\ i \in Offer => known[w][i] = i
            /\ \A c \in Call : c[1] = i => c[2] = known[w][i]

RowsHonest == \A x \in rows : x.key \in Key => <<x.key, x.token>> \in Call

SlotHonest(r) == got[r] # None => got[r] = job[r].token

ReplaysHonest == \A a \in replays : a.offer = a.token

Honest ==
    /\ KnownHonest
    /\ RowsHonest
    /\ \A r \in Slot : SlotHonest(r)
    /\ ReplaysHonest

LEMMA HonestInit == Init => Honest
  BY DEF Init, Honest, KnownHonest, RowsHonest, SlotHonest, ReplaysHonest

LEMMA HonestSlots ==
    ASSUME Honest, NEW r \in Slot, OthersSame(r), SlotHonest(r)'
    PROVE  \A q \in Slot : SlotHonest(q)'
  BY DEF Honest, SlotHonest, OthersSame

LEMMA DoneHonest ==
    ASSUME TypeOK, Honest, NEW r \in Slot, Done(r)
    PROVE  \A q \in Slot : SlotHonest(q)'
<1>1. OthersSame(r) /\ SlotHonest(r)'
  BY DEF TypeOK, Done, Goto, OthersSame, SlotHonest
<1> QED BY <1>1, HonestSlots

(* Both entries hold the token that was sent.                              *)
LEMMA PublishHonest ==
    ASSUME TypeOK, Shape, Honest, OneTokenPerKey, NEW r \in Slot,
           pc[r] \in {"created", "conflict"}, Publish(r)
    PROVE  KnownHonest'
<1> DEFINE w == job[r].at  k == job[r].key  t == job[r].token
<1>1. /\ w \in Worker /\ k \in Key \cup Offer /\ t \in Offer
      /\ k \in Offer => t = k
      /\ \A c \in Call : c[1] = k => c[2] = t
      /\ \A c \in Call : c[1] # t
  <2>1. w \in Worker /\ k \in Key \cup Offer /\ t \in Offer BY Served DEF Offer
  <2>2. \A c \in Call : c[1] \in Key /\ c[1] # t
    BY <2>1, CallParts, ExecutionAssumption DEF Offer
  <2>3. CASE IsTurn(r)
    BY <2>1, <2>2, <2>3, Served
  <2>4. CASE ~IsTurn(r)
    <3>1. k \in Key /\ <<k, t>> \in Call BY <2>4, Served
    <3>2. k \notin Offer BY <3>1, ExecutionAssumption DEF Offer
    <3>3. \A c \in Call : c[1] = k => c[2] = t
      BY <3>1 DEF OneTokenPerKey
    <3> QED BY <2>1, <2>2, <3>2, <3>3
  <2> QED BY <2>3, <2>4
<1>2. known' = [known EXCEPT ![w][k] = t, ![w][t] = t]
  BY DEF Publish, Shape, ShapeOf, Honest, SlotHonest
<1>3. known \in [Worker -> [Key \cup Offer -> Offer \cup {None}]]
  BY DEF TypeOK
<1> HIDE DEF w, k, t
<1>4. ASSUME NEW v \in Worker, NEW j \in Key \cup Offer
      PROVE  known'[v][j] = known[v][j] \/ (known'[v][j] = t /\ (j = k \/ j = t))
  BY <1>1, <1>2, <1>3
<1> QED BY <1>1, <1>4 DEF Honest, KnownHonest

LEMMA HonestStep ==
    ASSUME TypeOK, Shape, Backed, Honest, OneTokenPerKey, [Next]_vars
    PROVE  Honest'
<1> USE DEF At, Goto, Move, Begin, Returned, served, memory, database, told
<1>1. ASSUME NEW c \in Call, NEW r \in Slot, NEW w \in Worker, AcceptReplay(r, w, c)
      PROVE  Honest'
  <2>1. c[1] \in Key BY CallParts
  <2>2. known[w][c[1]] = c[2] BY <1>1, <2>1 DEF AcceptReplay, Honest, KnownHonest
  <2>3. ReplaysHonest' BY <1>1, <2>2 DEF AcceptReplay, Honest, ReplaysHonest, Replay
  <2> QED BY <1>1, <2>3 DEF AcceptReplay, Honest, KnownHonest, RowsHonest, SlotHonest
<1>2. ASSUME NEW c \in Call, NEW r \in Slot, NEW w \in Worker, AcceptArrive(r, w, c)
      PROVE  Honest'
  <2>1. OthersSame(r) /\ got'[r] = None
    BY <1>2 DEF AcceptArrive, TypeOK, OthersSame, Shape, ShapeOf
  <2>2. \A q \in Slot : SlotHonest(q)' BY <2>1, HonestSlots DEF SlotHonest
  <2> QED BY <1>2, <2>2 DEF AcceptArrive, Honest, KnownHonest, RowsHonest, ReplaysHonest
<1>3. ASSUME NEW r \in Slot, LookupHit(r) PROVE Honest'
  <2>1. PICK x \in RowsOfKey(job[r].key) :
          /\ known' = [known EXCEPT ![job[r].at][job[r].key] = x.token]
          /\ replays' = replays \cup {Replay(job[r].key, job[r].token, x.token)}
    BY <1>3 DEF LookupHit
  <2>2. /\ job[r].at \in Worker /\ job[r].key \in Key
        /\ <<job[r].key, job[r].token>> \in Call
    BY <1>3, Served, ExecutionAssumption DEF LookupHit, Shape, ShapeOf, IsTurn
  <2>3. x.token = job[r].token /\ x.token \in Offer
    <3>1. x \in rows /\ x.key = job[r].key BY DEF RowsOfKey
    <3>2. <<job[r].key, x.token>> \in Call /\ x.token \in Offer
      BY <2>2, <3>1 DEF Honest, RowsHonest, TypeOK
    <3> QED BY <2>2, <3>2 DEF OneTokenPerKey
  <2>4. \A c \in Call : c[1] = job[r].key => c[2] = x.token
    BY <2>2, <2>3 DEF OneTokenPerKey
  <2>5. job[r].key \notin Offer BY <2>2, ExecutionAssumption DEF Offer
  <2>6. KnownHonest'
    <3> DEFINE w == job[r].at  i == job[r].key  o == x.token
    <3>1. /\ w \in Worker /\ i \in Key \cup Offer /\ o \in Offer
          /\ known' = [known EXCEPT ![w][i] = o]
          /\ i \notin Offer /\ \A c \in Call : c[1] = i => c[2] = o
      BY <2>1, <2>2, <2>3, <2>4, <2>5
    <3> HIDE DEF w, i, o
    <3>2. ASSUME NEW v \in Worker, NEW j \in Key \cup Offer
          PROVE  known'[v][j] = known[v][j] \/ (known'[v][j] = o /\ j = i)
      BY <3>1 DEF TypeOK
    <3> QED BY <3>1, <3>2 DEF Honest, KnownHonest
  <2>7. ReplaysHonest' BY <2>1, <2>3 DEF Honest, ReplaysHonest, Replay
  <2>8. Done(r) /\ rows' = rows BY <1>3 DEF LookupHit
  <2> QED BY <2>6, <2>7, <2>8, DoneHonest DEF Honest, RowsHonest
<1>4. ASSUME NEW r \in Slot,
             \/ Rejected(r) \/ RejectedByFault(r) \/ CommitFails(r) \/ WriteFails(r)
             \/ Write(r) \/ NoWrite(r)
      PROVE  Honest'
  <2>1. Done(r) /\ rows' = rows /\ known' = known /\ replays' = replays
    BY <1>4 DEF Rejected, RejectedByFault, CommitFails, WriteFails, Write, NoWrite, Respond
  <2> QED BY <2>1, DoneHonest DEF Honest, KnownHonest, RowsHonest, ReplaysHonest
<1>5. ASSUME NEW r \in Slot,
             \/ LookupMiss(r) \/ LookupFails(r) \/ Verified(r) \/ TokenNew(r)
             \/ TurnRefund(r) \/ TurnContinue(r) \/ TurnConclude(r) \/ Snapshot(r)
      PROVE  Honest'
  <2>1. rows' = rows /\ known' = known /\ replays' = replays /\ job' = job /\ got' = got
    BY <1>5 DEF LookupMiss, LookupFails, Verified, TokenNew, TurnRefund, TurnContinue,
       TurnConclude, Snapshot
  <2> QED BY <2>1 DEF Honest, KnownHonest, RowsHonest, SlotHonest, ReplaysHonest
<1>6. ASSUME NEW r \in Slot, TokenReplay(r) PROVE Honest'
  <2> DEFINE prior == known[job[r].at][job[r].token]
  <2>1. /\ job[r].at \in Worker /\ job[r].key \in Key /\ job[r].token \in Offer
        /\ <<job[r].key, job[r].token>> \in Call
    BY <1>6, Served, ExecutionAssumption DEF TokenReplay, Shape, ShapeOf, IsTurn
  <2>2. prior = job[r].token BY <1>6, <2>1 DEF TokenReplay, Honest, KnownHonest
  <2>3. \A c \in Call : c[1] = job[r].key => c[2] = job[r].token
    BY <2>1 DEF OneTokenPerKey
  <2>4. job[r].key \notin Offer BY <2>1, ExecutionAssumption DEF Offer
  <2>5. known' = [known EXCEPT ![job[r].at][job[r].key] = job[r].token]
    BY <1>6, <2>2 DEF TokenReplay
  <2>6. KnownHonest'
    <3> DEFINE w == job[r].at  i == job[r].key  o == job[r].token
    <3>1. /\ w \in Worker /\ i \in Key \cup Offer /\ o \in Offer
          /\ known' = [known EXCEPT ![w][i] = o]
          /\ i \notin Offer /\ \A c \in Call : c[1] = i => c[2] = o
      BY <2>1, <2>3, <2>4, <2>5
    <3> HIDE DEF w, i, o
    <3>2. ASSUME NEW v \in Worker, NEW j \in Key \cup Offer
          PROVE  known'[v][j] = known[v][j] \/ (known'[v][j] = o /\ j = i)
      BY <3>1 DEF TypeOK
    <3> QED BY <3>1, <3>2 DEF Honest, KnownHonest
  <2>7. ReplaysHonest'
    BY <1>6, <2>2 DEF TokenReplay, Honest, ReplaysHonest, Replay
  <2>8. Done(r) /\ rows' = rows BY <1>6 DEF TokenReplay
  <2> QED BY <2>6, <2>7, <2>8, DoneHonest DEF Honest, RowsHonest
<1>7. ASSUME NEW r \in Slot, pc[r] = "commit", Insert(r) PROVE RowsHonest'
  <2>1. job[r].key \in Key => <<job[r].key, job[r].token>> \in Call
    BY <1>7, Served, ExecutionAssumption DEF IsTurn
  <2> QED BY <1>7, <2>1 DEF Insert, Honest, RowsHonest
<1>8. ASSUME NEW r \in Slot, CommitInsert(r) PROVE Honest'
  <2>1. RowsHonest' BY <1>7, <1>8 DEF CommitInsert
  <2>2. OthersSame(r) /\ SlotHonest(r)'
    BY <1>8 DEF CommitInsert, TypeOK, OthersSame, SlotHonest
  <2> QED BY <1>8, <2>1, <2>2, HonestSlots DEF CommitInsert, Honest, KnownHonest, ReplaysHonest
<1>9. ASSUME NEW r \in Slot, CommitUnacknowledged(r) PROVE Honest'
  <2>1. RowsHonest' BY <1>7, <1>9 DEF CommitUnacknowledged
  <2>2. Done(r) /\ known' = known /\ replays' = replays
    BY <1>9 DEF CommitUnacknowledged
  <2> QED BY <2>1, <2>2, DoneHonest DEF Honest, KnownHonest, ReplaysHonest
<1>10. ASSUME NEW r \in Slot, CommitConflict(r) PROVE Honest'
  <2>1. PICK x \in rows :
          /\ x.key = job[r].key \/ x.token = job[r].token
          /\ Returned(r, "conflict", x.token)
    BY <1>10 DEF CommitConflict, RowsOfKey, RowsOfToken
  <2>2. x.token = job[r].token
    <3>1. CASE IsTurn(r)
      BY <1>10, <2>1, <3>1, Served DEF CommitConflict, Backed, RowsBacked, IsTurn
    <3>2. CASE ~IsTurn(r)
      <4>1. <<job[r].key, job[r].token>> \in Call /\ job[r].key \in Key
        BY <1>10, <3>2, Served DEF CommitConflict
      <4>2. x.key = job[r].key => <<job[r].key, x.token>> \in Call
        BY <4>1 DEF Honest, RowsHonest
      <4> QED BY <2>1, <4>1, <4>2 DEF OneTokenPerKey
    <3> QED BY <3>1, <3>2
  <2>3. OthersSame(r) /\ SlotHonest(r)'
    BY <2>1, <2>2 DEF TypeOK, OthersSame, SlotHonest
  <2> QED
    BY <1>10, <2>3, HonestSlots DEF CommitConflict, Honest, KnownHonest, RowsHonest, ReplaysHonest
<1>11. ASSUME NEW r \in Slot, PublishNew(r) \/ PublishRefund(r) PROVE Honest'
  <2>1. /\ pc[r] \in {"created", "conflict"} /\ Publish(r) /\ rows' = rows
        /\ replays' = replays /\ job' = job /\ got' = got
    BY <1>11 DEF PublishNew, PublishRefund
  <2> QED BY <2>1, PublishHonest DEF Honest, RowsHonest, SlotHonest, ReplaysHonest
<1>12. ASSUME NEW r \in Slot, PublishReplay(r) PROVE Honest'
  <2>1. KnownHonest' BY <1>12, PublishHonest DEF PublishReplay
  <2>2. got[r] = job[r].token
    BY <1>12 DEF PublishReplay, Shape, ShapeOf, Honest, SlotHonest
  <2>3. ReplaysHonest' BY <1>12, <2>2 DEF PublishReplay, Honest, ReplaysHonest, Replay
  <2>4. Done(r) /\ rows' = rows BY <1>12 DEF PublishReplay
  <2> QED BY <2>1, <2>3, <2>4, DoneHonest DEF Honest, RowsHonest
<1>13. ASSUME NEW r \in Slot, NEW w \in Worker, NEW f \in Refund, TurnArrive(r, w, f)
       PROVE  Honest'
  <2>1. OthersSame(r) /\ got'[r] = None
    BY <1>13 DEF TurnArrive, TypeOK, OthersSame, Shape, ShapeOf
  <2>2. \A q \in Slot : SlotHonest(q)' BY <2>1, HonestSlots DEF SlotHonest
  <2> QED BY <1>13, <2>2 DEF TurnArrive, Honest, KnownHonest, RowsHonest, ReplaysHonest
<1>14. ASSUME NEW r \in Slot, TurnRefundAgain(r) PROVE Honest'
  <2>1. job[r].at \in Worker /\ job[r].key \in Offer /\ job[r].key = job[r].token
    BY <1>14, Served DEF TurnRefundAgain, Shape, ShapeOf, IsTurn
  <2>2. got'[r] = job[r].token
    BY <1>14, <2>1 DEF TurnRefundAgain, TypeOK, Honest, KnownHonest
  <2>3. OthersSame(r) /\ SlotHonest(r)'
    BY <1>14, <2>2 DEF TurnRefundAgain, TypeOK, OthersSame, SlotHonest
  <2> QED
    BY <1>14, <2>3, HonestSlots
       DEF TurnRefundAgain, Honest, KnownHonest, RowsHonest, ReplaysHonest
<1>15. ASSUME NEW t \in Token, Expire(t) PROVE Honest'
  BY <1>15 DEF Expire, Honest, KnownHonest, RowsHonest, SlotHonest, ReplaysHonest
<1>16. ASSUME NEW w \in Worker, Crash(w) PROVE Honest'
  <2>1. KnownHonest' BY <1>16 DEF Crash, TypeOK, Honest, KnownHonest
  <2>2. \A q \in Slot : SlotHonest(q)'
    BY <1>16 DEF Crash, Reset, Honest, SlotHonest
  <2> QED BY <1>16, <2>1, <2>2 DEF Crash, Honest, RowsHonest, ReplaysHonest
<1>17. CASE UNCHANGED vars
  BY <1>17 DEF vars, Honest, KnownHonest, RowsHonest, SlotHonest, ReplaysHonest
<1> QED
  BY <1>1, <1>2, <1>3, <1>4, <1>5, <1>6, <1>8, <1>9, <1>10, <1>11, <1>12, <1>13,
     <1>14, <1>15, <1>16, <1>17, ExecutionAssumption DEF Next, Arrive, Step, Failure

LEMMA HonestInvariance ==
    ASSUME OneTokenPerKey PROVE Spec => [](TypeOK /\ Shape /\ Backed /\ Honest)
<1>1. Init => TypeOK /\ Shape /\ Backed /\ Honest
  BY TypeShapeInit, BackedInit, HonestInit
<1>2. TypeOK /\ Shape /\ Backed /\ Honest /\ [Next]_vars
        => (TypeOK /\ Shape /\ Backed /\ Honest)'
  BY TypeShapeStep, BackedStep, HonestStep
<1> QED BY <1>1, <1>2, PTL DEF Spec

(* A replay describes the offer of the token that was sent, with and       *)
(* without Postgres, if no key is used for two tokens: HonestReplay.       *)
THEOREM RepliesAreHonest == Spec => []HonestReplay
<1>1. CASE OneTokenPerKey
  <2>1. Honest => HonestReplay BY DEF Honest, ReplaysHonest, HonestReplay
  <2> QED BY <1>1, <2>1, HonestInvariance, PTL
<1>2. CASE ~OneTokenPerKey
  <2>1. HonestReplay BY <1>2 DEF HonestReplay
  <2> QED BY <2>1, PTL
<1> QED BY <1>1, <1>2

-----------------------------------------------------------------------------
(* Why a replay is given: an entry of EXECUTED under a client's key comes  *)
(* from a row of that key, or was copied from the entry of a token in      *)
(* answering a call that sent the two together.                            *)

Cause(k, o) ==
    \/ \E x \in rows : x.key = k
    \/ \E b \in replays : b.key = k /\ b.token = o /\ b.offer = o

KnownCaused ==
    \A w \in Worker :
        /\ \A k \in Key : known[w][k] # None => Cause(k, known[w][k])
        /\ \A t \in Token : known[w][t] \in {t, None}

(* Without Postgres a request that commits always inserts.                 *)
SlotCaused(r) ==
    /\ pc[r] # "conflict"
    /\ pc[r] = "created" =>
         /\ got[r] = job[r].token
         /\ [key |-> job[r].key, token |-> job[r].token] \in rows

ReplaysCaused ==
    \A a \in replays : Cause(a.key, a.offer) \/ Executed(a.token)

Caused ==
    /\ KnownCaused
    /\ \A r \in Slot : SlotCaused(r)
    /\ ReplaysCaused

LEMMA CausedInit == Init => Caused
  BY DEF Init, Caused, KnownCaused, SlotCaused, ReplaysCaused, Offer

LEMMA CauseGrows ==
    ASSUME rows \subseteq rows', replays \subseteq replays', NEW k, NEW o, Cause(k, o)
    PROVE  Cause(k, o)'
  BY DEF Cause

LEMMA KnownCausedFrame ==
    ASSUME Caused, rows \subseteq rows', replays \subseteq replays', known' = known
    PROVE  KnownCaused'
<1> SUFFICES ASSUME NEW w \in Worker, NEW k \in Key, known[w][k] # None
             PROVE  Cause(k, known[w][k])'
  BY DEF Caused, KnownCaused
<1>1. Cause(k, known[w][k]) BY DEF Caused, KnownCaused
<1> QED BY <1>1 DEF Cause

LEMMA ReplaysCausedFrame ==
    ASSUME Caused, rows \subseteq rows', replays' = replays
    PROVE  ReplaysCaused'
  BY DEF Caused, ReplaysCaused, Cause, Executed

LEMMA SlotsCausedFrame ==
    ASSUME Caused, rows \subseteq rows', NEW r \in Slot, OthersSame(r), SlotCaused(r)'
    PROVE  \A q \in Slot : SlotCaused(q)'
<1> SUFFICES ASSUME NEW q \in Slot, q # r PROVE SlotCaused(q)'
  OBVIOUS
<1>1. pc'[q] = pc[q] /\ job'[q] = job[q] /\ got'[q] = got[q] BY DEF OthersSame
<1>2. SlotCaused(q) BY DEF Caused
<1> QED BY <1>1, <1>2 DEF SlotCaused

(* A step that touches neither EXECUTED nor the replies and leaves the     *)
(* request where it has not just committed.                                *)
LEMMA QuietCaused ==
    ASSUME Caused, rows \subseteq rows', known' = known, replays' = replays,
           NEW r \in Slot, OthersSame(r), pc'[r] \notin {"created", "conflict"}
    PROVE  Caused'
<1>1. SlotCaused(r)' BY DEF SlotCaused
<1> QED
  BY <1>1, KnownCausedFrame, ReplaysCausedFrame, SlotsCausedFrame DEF Caused

(* Publishing a row of one's own: its key has a cause, its token is itself. *)
LEMMA PublishCaused ==
    ASSUME TypeOK, Shape, Caused, rows' = rows, replays' = replays,
           NEW r \in Slot, pc[r] = "created", Publish(r)
    PROVE  KnownCaused'
<1> DEFINE v == job[r].at  k == job[r].key  t == job[r].token
           row == [key |-> job[r].key, token |-> job[r].token]
<1>1. /\ v \in Worker /\ k \in Key \cup Offer /\ t \in Offer
      /\ k \in Token => k = t
  BY Served, ExecutionAssumption DEF Offer, IsTurn
<1>2. row \in rows /\ row.key = k /\ got[r] = t BY DEF Caused, SlotCaused
<1>3. known' = [known EXCEPT ![v][k] = t, ![v][t] = t] BY <1>2 DEF Publish
<1>4. known \in [Worker -> [Key \cup Offer -> Offer \cup {None}]] BY DEF TypeOK
<1>5. t \notin Key BY <1>1, ExecutionAssumption DEF Offer
<1> HIDE DEF v, k, t, row
<1>6. ASSUME NEW w \in Worker, NEW i \in Key \cup Offer
      PROVE  known'[w][i] = known[w][i] \/ (known'[w][i] = t /\ (i = k \/ i = t))
  BY <1>1, <1>3, <1>4
<1>7. ASSUME NEW w \in Worker, NEW i \in Key, known'[w][i] # None
      PROVE  Cause(i, known[w][i])'
  <2>1. CASE i = k BY <1>2, <2>1 DEF Cause
  <2>2. CASE i # k
    <3>1. known'[w][i] = known[w][i] BY <1>5, <1>6, <2>2
    <3>2. Cause(i, known[w][i]) BY <1>7, <3>1 DEF Caused, KnownCaused
    <3> QED BY <3>1, <3>2 DEF Cause
  <2> QED BY <2>1, <2>2
<1>8. ASSUME NEW w \in Worker, NEW u \in Token PROVE known'[w][u] \in {u, None}
  <2>1. known[w][u] \in {u, None} BY DEF Caused, KnownCaused
  <2> QED BY <1>1, <1>6, <2>1 DEF Offer
<1> QED BY <1>7, <1>8 DEF KnownCaused

LEMMA CausedStep ==
    ASSUME TypeOK, Shape, Backed, Caused, ~UsePostgres, [Next]_vars
    PROVE  Caused'
<1> USE DEF At, Goto, Move, Begin, Returned, served, memory, database, told
<1>1. ASSUME NEW c \in Call, NEW r \in Slot, NEW w \in Worker, AcceptReplay(r, w, c)
      PROVE  Caused'
  <2> DEFINE k == c[1]  o == known[w][c[1]]
  <2>1. /\ replays' = replays \cup {Replay(c[1], c[2], o)} /\ rows' = rows
        /\ known' = known /\ pc' = pc /\ job' = job /\ got' = got
    BY <1>1 DEF AcceptReplay
  <2>2. Cause(k, o)
    BY <1>1, CallParts DEF AcceptReplay, Caused, KnownCaused
  <2>3. ReplaysCaused'
    <3>1. Replay(c[1], c[2], o).key = k /\ Replay(c[1], c[2], o).offer = o
      BY DEF Replay
    <3>2. k' = k /\ o' = o BY <2>1
    <3> HIDE DEF o, k
    <3>3. ASSUME NEW a \in replays' PROVE (Cause(a.key, a.offer) \/ Executed(a.token))'
      BY <2>1, <2>2, <3>1 DEF Caused, ReplaysCaused, Cause, Executed
    <3> QED BY <3>3 DEF ReplaysCaused
  <2>4. KnownCaused' BY <2>1, KnownCausedFrame
  <2>5. \A q \in Slot : SlotCaused(q)' BY <2>1 DEF Caused, SlotCaused
  <2> QED BY <2>3, <2>4, <2>5 DEF Caused
<1>2. ASSUME NEW c \in Call, NEW r \in Slot, NEW w \in Worker, AcceptArrive(r, w, c)
      PROVE  Caused'
  <2>1. OthersSame(r) /\ pc'[r] = "lookup" BY <1>2 DEF AcceptArrive, TypeOK, OthersSame
  <2> QED BY <1>2, <2>1, QuietCaused DEF AcceptArrive
<1>3. ASSUME NEW r \in Slot,
             \/ LookupHit(r) \/ LookupFails(r) \/ RejectedByFault(r) \/ CommitConflict(r)
             \/ CommitFails(r) \/ CommitUnacknowledged(r) \/ Snapshot(r) \/ PublishReplay(r)
      PROVE  FALSE
  BY <1>3 DEF LookupHit, LookupFails, RejectedByFault, CommitConflict, CommitFails,
     CommitUnacknowledged, Snapshot, PublishReplay, Caused, SlotCaused
<1>4. ASSUME NEW r \in Slot,
             Rejected(r) \/ NoWrite(r) \/ Write(r) \/ WriteFails(r)
      PROVE  Caused'
  <2>1. Done(r) /\ rows' = rows /\ known' = known /\ replays' = replays
    BY <1>4 DEF Rejected, NoWrite, Write, WriteFails, Respond
  <2>2. OthersSame(r) /\ pc'[r] = "idle" BY <2>1, DoneHoldsNothing DEF Done, TypeOK
  <2> QED BY <2>1, <2>2, QuietCaused
<1>5. ASSUME NEW r \in Slot,
             \/ LookupMiss(r) \/ Verified(r) \/ TokenNew(r) \/ TurnRefund(r)
             \/ TurnContinue(r) \/ TurnConclude(r) \/ TurnRefundAgain(r)
      PROVE  Caused'
  <2>1. /\ rows' = rows /\ known' = known /\ replays' = replays
        /\ pc'[r] \in {"verify", "jti", "commit", "snapshot"}
        /\ OthersSame(r)
    BY <1>5 DEF LookupMiss, Verified, TokenNew, TurnRefund, TurnContinue, TurnConclude,
       TurnRefundAgain, TypeOK, OthersSame
  <2> QED BY <2>1, QuietCaused
<1>6. ASSUME NEW r \in Slot, TokenReplay(r) PROVE Caused'
  <2> DEFINE v == job[r].at  k == job[r].key  t == job[r].token  p == known[v][t]
             reply == Replay(k, t, p)
  <2>1. v \in Worker /\ k \in Key /\ t \in Token
    BY <1>6, Served, ExecutionAssumption DEF TokenReplay, Shape, ShapeOf, IsTurn
  <2>2. p = t /\ Executed(t)
    <3>1. p # None BY <1>6 DEF TokenReplay
    <3>2. p = t BY <2>1, <3>1 DEF Caused, KnownCaused
    <3>3. Executed(known[v][t]) BY <2>1, <3>1 DEF Backed, KnownBacked, Offer
    <3> QED BY <3>2, <3>3
  <2>3. /\ known' = [known EXCEPT ![v][k] = t] /\ rows' = rows
        /\ replays' = replays \cup {reply} /\ Done(r)
    BY <1>6, <2>2 DEF TokenReplay
  <2>4. reply.key = k /\ reply.token = t /\ reply.offer = t BY <2>2 DEF Replay
  <2>5. known \in [Worker -> [Key \cup Offer -> Offer \cup {None}]] /\ k \notin Offer
    BY <2>1, ExecutionAssumption DEF TypeOK, Offer
  <2>6. OthersSame(r) /\ pc'[r] = "idle" BY <2>3, DoneHoldsNothing DEF Done, TypeOK
  <2> HIDE DEF v, k, t, p, reply
  <2>7. ASSUME NEW w \in Worker, NEW i \in Key \cup Offer
        PROVE  known'[w][i] = known[w][i] \/ (known'[w][i] = t /\ i = k)
    BY <2>1, <2>3, <2>5
  <2>8. KnownCaused'
    <3>1. ASSUME NEW w \in Worker, NEW i \in Key, known'[w][i] # None
          PROVE  Cause(i, known[w][i])'
      <4>1. CASE known'[w][i] = known[w][i]
        <5>1. Cause(i, known[w][i]) BY <3>1, <4>1 DEF Caused, KnownCaused
        <5> QED BY <2>3, <4>1, <5>1 DEF Cause
      <4>2. CASE known'[w][i] = t /\ i = k
        BY <2>3, <2>4, <4>2 DEF Cause
      <4> QED BY <2>7, <4>1, <4>2
    <3>2. ASSUME NEW w \in Worker, NEW u \in Token PROVE known'[w][u] \in {u, None}
      BY <2>5, <2>7, <3>2 DEF Caused, KnownCaused, Offer
    <3> QED BY <3>1, <3>2 DEF KnownCaused
  <2>9. ReplaysCaused'
    <3>1. ASSUME NEW a \in replays' PROVE (Cause(a.key, a.offer) \/ Executed(a.token))'
      BY <2>2, <2>3, <2>4 DEF Caused, ReplaysCaused, Cause, Executed
    <3> QED BY <3>1 DEF ReplaysCaused
  <2>10. SlotCaused(r)' BY <2>6 DEF SlotCaused
  <2> QED BY <2>3, <2>6, <2>8, <2>9, <2>10, SlotsCausedFrame DEF Caused
<1>7. ASSUME NEW r \in Slot, CommitInsert(r) PROVE Caused'
  <2>1. /\ rows' = rows \cup {[key |-> job[r].key, token |-> job[r].token]}
        /\ known' = known /\ replays' = replays /\ job' = job
        /\ pc'[r] = "created" /\ got'[r] = job[r].token /\ OthersSame(r)
    BY <1>7 DEF CommitInsert, Insert, TypeOK, OthersSame
  <2>2. SlotCaused(r)' BY <2>1 DEF SlotCaused
  <2> QED
    BY <2>1, <2>2, KnownCausedFrame, ReplaysCausedFrame, SlotsCausedFrame DEF Caused
<1>8. ASSUME NEW r \in Slot, PublishNew(r) \/ PublishRefund(r) PROVE Caused'
  <2>1. /\ rows' = rows /\ replays' = replays /\ Publish(r) /\ pc[r] = "created"
        /\ pc'[r] = "snapshot" /\ OthersSame(r)
    BY <1>8 DEF PublishNew, PublishRefund, TypeOK, OthersSame, Caused, SlotCaused
  <2>2. KnownCaused' BY <2>1, PublishCaused
  <2>3. SlotCaused(r)' BY <2>1 DEF SlotCaused
  <2> QED BY <2>1, <2>2, <2>3, ReplaysCausedFrame, SlotsCausedFrame DEF Caused
<1>9. ASSUME NEW r \in Slot, NEW w \in Worker, NEW f \in Refund, TurnArrive(r, w, f)
      PROVE  Caused'
  <2>1. OthersSame(r) /\ pc'[r] = "decide" BY <1>9 DEF TurnArrive, TypeOK, OthersSame
  <2> QED BY <1>9, <2>1, QuietCaused DEF TurnArrive
<1>10. ASSUME NEW w \in Worker, Crash(w) PROVE Caused'
  <2>1. rows' = rows /\ replays' = replays BY <1>10 DEF Crash
  <2>2. ASSUME NEW v \in Worker, NEW i \in Key \cup Offer
        PROVE  known'[v][i] = known[v][i] \/ known'[v][i] = None
    BY <1>10 DEF Crash, TypeOK
  <2>3. KnownCaused'
    <3>1. ASSUME NEW v \in Worker, NEW i \in Key, known'[v][i] # None
          PROVE  Cause(i, known[v][i])'
      <4>1. known'[v][i] = known[v][i] BY <2>2, <3>1
      <4>2. Cause(i, known[v][i]) BY <3>1, <4>1 DEF Caused, KnownCaused
      <4> QED BY <2>1, <4>1, <4>2 DEF Cause
    <3>2. ASSUME NEW v \in Worker, NEW u \in Token PROVE known'[v][u] \in {u, None}
      BY <2>2 DEF Caused, KnownCaused, Offer
    <3> QED BY <3>1, <3>2 DEF KnownCaused
  <2>4. \A q \in Slot : SlotCaused(q)'
    BY <1>10, <2>1 DEF Crash, Reset, Caused, SlotCaused
  <2> QED BY <2>1, <2>3, <2>4, ReplaysCausedFrame DEF Caused
<1>11. ASSUME (\E t \in Token : Expire(t)) \/ UNCHANGED vars PROVE Caused'
  <2>1. UNCHANGED <<pc, job, got, rows, known, replays>> BY <1>11 DEF Expire, vars
  <2>2. \A q \in Slot : SlotCaused(q)' BY <2>1 DEF Caused, SlotCaused
  <2> QED BY <2>1, <2>2, KnownCausedFrame, ReplaysCausedFrame DEF Caused
<1> QED
  BY <1>1, <1>2, <1>3, <1>4, <1>5, <1>6, <1>7, <1>8, <1>9, <1>10, <1>11,
     ExecutionAssumption DEF Next, Arrive, Step, Failure

(* An already_executed reply has a cause (ReplayHasCause): without         *)
(* Postgres whatever keys and tokens clients combine, and under Postgres   *)
(* if no key is used for two tokens.                                       *)
THEOREM ReplaysHaveACause ==
    ASSUME ~UsePostgres \/ OneTokenPerKey PROVE Spec => []ReplayHasCause
<1>1. CASE ~UsePostgres
  <2> DEFINE IInv == TypeOK /\ Shape /\ Backed /\ Caused
  <2>1. Init => IInv BY TypeShapeInit, BackedInit, CausedInit
  <2>2. IInv /\ [Next]_vars => IInv' BY <1>1, TypeShapeStep, BackedStep, CausedStep
  <2>3. IInv => ReplayHasCause
    BY DEF Caused, ReplaysCaused, Cause, Executed, ReplayHasCause, RowsOfKey, RowsOfToken
  <2> QED BY <2>1, <2>2, <2>3, PTL DEF Spec
<1>2. CASE OneTokenPerKey
  <2>1. Backed /\ Honest => ReplayHasCause
    BY DEF Backed, ToldBacked, Executed, Honest, ReplaysHonest, ReplayHasCause, RowsOfToken
  <2> QED BY <1>2, <2>1, HonestInvariance, PTL
<1> QED BY <1>1, <1>2

-----------------------------------------------------------------------------
(* The refinement: rows, firsts, replays and refunded are themselves the   *)
(* state of Redemption, and each step changes at most one of them.         *)

LEMMA RedeemStep ==
    ASSUME TypeOK, Shape, UsePostgres, NEW r \in Slot, pc[r] = "commit", Insert(r),
           UNCHANGED told
    PROVE  Promise!Next
<1>1. Promise!Redeem(job[r].key, job[r].token)
  BY DEF Insert, Conflicts, RowsOfKey, RowsOfToken, told, Promise!Redeem, Promise!Redemptions
<1>2. CASE IsTurn(r)
  BY <1>1, <1>2, Served DEF IsTurn, Promise!Next
<1>3. CASE ~IsTurn(r)
  <2> DEFINE c == <<job[r].key, job[r].token>>
  <2>1. c \in Call /\ Promise!Redeem(c[1], c[2]) BY <1>1, <1>3, Served
  <2> HIDE DEF c
  <2> QED BY <2>1 DEF Promise!Next
<1> QED BY <1>2, <1>3

LEMMA ReplayStep ==
    ASSUME NEW c \in Call, Executed(c[2]), rows' = rows, firsts' = firsts,
           refunded' = refunded, replays' = replays \cup {Replay(c[1], c[2], c[2])}
    PROVE  Promise!Next
<1>1. PICK x \in rows : x.token = c[2] BY DEF Executed
<1>2. Promise!AnswerReplay(c)
  BY <1>1 DEF Promise!AnswerReplay, Promise!Redemptions, Replay
<1> QED BY <1>2 DEF Promise!Next

LEMMA PromiseStep ==
    ASSUME TypeOK, Shape, Backed, Ledger, Honest, UsePostgres, OneTokenPerKey, [Next]_vars
    PROVE  Promise!Next \/ UNCHANGED Promise!promise
<1> USE DEF Move, served, memory, database, told, Promise!promise
<1>1. ASSUME NEW c \in Call, NEW r \in Slot, NEW w \in Worker, AcceptReplay(r, w, c)
      PROVE  Promise!Next
  <2>1. c[1] \in Key BY CallParts
  <2>2. known[w][c[1]] = c[2] /\ Executed(c[2])
    BY <1>1, <2>1 DEF AcceptReplay, Honest, KnownHonest, Backed, KnownBacked
  <2> QED BY <1>1, <2>2, ReplayStep DEF AcceptReplay
<1>2. ASSUME NEW r \in Slot, LookupHit(r) \/ TokenReplay(r) \/ PublishReplay(r)
      PROVE  Promise!Next
  <2> DEFINE c == <<job[r].key, job[r].token>>
  <2>1. c \in Call
    BY <1>2, Served, ExecutionAssumption
       DEF LookupHit, TokenReplay, PublishReplay, At, Shape, ShapeOf, IsTurn
  <2>2. PICK o :
          /\ replays' = replays \cup {Replay(job[r].key, job[r].token, o)}
          /\ Executed(o)
    <3>1. CASE LookupHit(r) BY <3>1 DEF LookupHit, RowsOfKey, Executed
    <3>2. CASE TokenReplay(r)
      <4>1. job[r].at \in Worker /\ job[r].token \in Offer
        BY <3>2, Served DEF TokenReplay, At
      <4> QED BY <3>2, <4>1 DEF TokenReplay, Backed, KnownBacked
    <3>3. CASE PublishReplay(r)
      BY <3>3 DEF PublishReplay, At, Shape, ShapeOf, Backed, SlotBacked
    <3> QED BY <1>2, <3>1, <3>2, <3>3
  <2>3. rows' = rows /\ firsts' = firsts /\ refunded' = refunded
    BY <1>2 DEF LookupHit, TokenReplay, PublishReplay
  <2>4. Honest' BY HonestStep
  <2>5. c[1] = job[r].key /\ c[2] = job[r].token OBVIOUS
  <2>6. o = c[2]
    <3> DEFINE a == Replay(job[r].key, job[r].token, o)
    <3>1. a \in replays' BY <2>2
    <3>2. a.offer = o /\ a.token = job[r].token BY DEF Replay
    <3> HIDE DEF a
    <3> QED BY <2>4, <2>5, <3>1, <3>2 DEF Honest, ReplaysHonest
  <2> HIDE DEF c
  <2> QED BY <2>1, <2>2, <2>3, <2>5, <2>6, ReplayStep
<1>3. ASSUME NEW r \in Slot, CommitInsert(r) \/ CommitUnacknowledged(r)
      PROVE  Promise!Next
  BY <1>3, RedeemStep DEF CommitInsert, CommitUnacknowledged, At
<1>4. ASSUME NEW r \in Slot, Write(r) PROVE Promise!Next \/ UNCHANGED Promise!promise
  <2>1. Respond(r) /\ rows' = rows /\ pc[r] = "write" BY <1>4 DEF Write, At
  <2>2. CASE IsTurn(r)
    <3>1. CASE got[r] = None
      BY <2>1, <2>2, <3>1 DEF Respond
    <3>2. CASE got[r] # None
      <4> DEFINE f == job[r].token
      <4>1. PICK x \in rows : x.token = f
        BY <3>2, <2>2 DEF Backed, SlotBacked, Executed
      <4>2. f \in Refund /\ x.key = f BY <2>2, <4>1 DEF IsTurn, Backed, RowsBacked
      <4>3. x = [key |-> f, token |-> f] BY <4>1, <4>2 DEF TypeOK
      <4>4. Promise!AnswerRefund(f)
        BY <2>1, <2>2, <3>2, <4>1, <4>3 DEF Respond, Promise!AnswerRefund
      <4> QED BY <4>2, <4>4 DEF Promise!Next
    <3> QED BY <3>1, <3>2
  <2>3. CASE ~IsTurn(r)
    <3> DEFINE c == CallOf(r)
    <3>1. /\ c \in Call /\ firsts[c] = 0
          /\ [key |-> c[1], token |-> c[2]] \in rows
      BY <2>1, <2>3, HolderRow DEF Holds, CallOf, Ledger, OneAnswer
    <3>2. firsts' = [firsts EXCEPT ![c] = @ + 1] BY <2>1, <2>3 DEF Respond, CallOf
    <3>3. replays' = replays /\ refunded' = refunded BY <2>1, <2>3 DEF Respond
    <3> HIDE DEF c
    <3>4. firsts' = [firsts EXCEPT ![c] = 1]
      BY <3>1, <3>2 DEF TypeOK
    <3>5. Promise!AnswerExecuted(c)
      BY <2>1, <3>1, <3>3, <3>4 DEF Promise!AnswerExecuted
    <3> QED BY <3>1, <3>5 DEF Promise!Next
  <2> QED BY <2>2, <2>3
<1>5. ASSUME NEW r \in Slot, NoWrite(r) PROVE FALSE
  BY <1>5 DEF NoWrite
<1>6. ASSUME NEW r \in Slot,
             \/ LookupMiss(r) \/ LookupFails(r) \/ Verified(r) \/ Rejected(r)
             \/ RejectedByFault(r) \/ TokenNew(r) \/ CommitConflict(r) \/ CommitFails(r)
             \/ PublishNew(r) \/ PublishRefund(r) \/ Snapshot(r) \/ WriteFails(r)
             \/ TurnContinue(r) \/ TurnConclude(r) \/ TurnRefund(r) \/ TurnRefundAgain(r)
      PROVE  UNCHANGED Promise!promise
  BY <1>6 DEF LookupMiss, LookupFails, Verified, Rejected, RejectedByFault, TokenNew,
     CommitConflict, CommitFails, PublishNew, PublishRefund, Snapshot, WriteFails,
     TurnContinue, TurnConclude, TurnRefund, TurnRefundAgain
<1>7. ASSUME NEW r \in Slot, NEW w \in Worker,
             \/ \E c \in Call : AcceptArrive(r, w, c)
             \/ \E f \in Talking : TurnArrive(r, w, f)
      PROVE  UNCHANGED Promise!promise
  BY <1>7 DEF AcceptArrive, TurnArrive
<1>8. CASE (\E t \in Token : Expire(t)) \/ (\E w \in Worker : Crash(w)) \/ UNCHANGED vars
  BY <1>8 DEF Expire, Crash, vars
<1> QED
  BY <1>1, <1>2, <1>3, <1>4, <1>5, <1>6, <1>7, <1>8 DEF Next, Arrive, Step, Failure

(* Under Postgres, if no key is used for two tokens, clients cannot tell   *)
(* the handlers, with their caches, retries, races, lost connections and   *)
(* crashes, from the single ledger of Redemption.                          *)
THEOREM ImplementsRedemption ==
    ASSUME UsePostgres, OneTokenPerKey PROVE Spec => KeepsPromise
<1>1. Init => Promise!Init
  BY DEF Init, Promise!Init
<1>2. TypeOK /\ Shape /\ Backed /\ Ledger /\ Honest /\ [Next]_vars
        => [Promise!Next]_(Promise!promise)
  BY PromiseStep
<1>3. Spec => [](TypeOK /\ Shape /\ Backed /\ Ledger)
  BY LedgerInvariance
<1>4. Spec => [](TypeOK /\ Shape /\ Backed /\ Honest)
  BY HonestInvariance
<1> QED BY <1>1, <1>2, <1>3, <1>4, PTL DEF Spec, KeepsPromise, Promise!Spec
=============================================================================
