---------------------------- MODULE TicketsProofs ----------------------------
(***************************************************************************)
(* Theorems about Tickets, for any numbers of workers, turns, cases,       *)
(* resolutions and faults.  The argument: what a turn is going to quote is *)
(* a row of the table about its case (Filed), and of the rows of one case  *)
(* at most one is open (OneOpen).                                          *)
(***************************************************************************)
EXTENDS Tickets, TLAPS

Carried ==
    /\ \A r \in Slot :
         /\ pc[r] = "enqueue" => ticket[r].case = about[r]
         /\ pc[r] \in {"append", "respond"} =>
              ticket[r] \in table /\ ticket[r].case = about[r]
    /\ \A w \in Worker : queue[w] \subseteq table
    /\ told \subseteq table

Filed == UsePostgres => Carried

OneOpen ==
    UsePostgres =>
        \A t, u \in table : t.case = u.case /\ {t.id, u.id} \cap resolved = {} => t = u

IInv == TypeOK /\ Filed /\ OneOpen

-----------------------------------------------------------------------------
(* The steps one at a time: types.                                         *)

LEMMA InitTyped == Init => TypeOK
<1> SUFFICES ASSUME Init PROVE TypeOK
  OBVIOUS
<1> USE DEF Init, Pc, Ticket
<1>1. /\ pc \in [Slot -> Pc]
      /\ at \in [Slot -> Worker \cup {None}]
      /\ about \in [Slot -> Case \cup {None}]
      /\ ticket \in [Slot -> Ticket \cup {None}]
      /\ queue \in [Worker -> SUBSET Ticket]
  OBVIOUS
<1>2. \A r \in Slot : pc[r] = "idle"
  OBVIOUS
<1>3. QED
  BY <1>1, <1>2 DEF TypeOK

LEMMA NextTyped == TypeOK /\ [Next]_vars => TypeOK'
<1> SUFFICES ASSUME TypeOK, [Next]_vars PROVE TypeOK'
  OBVIOUS
<1> USE TicketsAssumption DEF TypeOK, Pc, Ticket, At, Goto, turn, database
<1>1. ASSUME NEW r \in Slot, NEW w \in Worker, NEW c \in Case, ReviewQueued(r, w, c)
      PROVE  TypeOK'
  BY <1>1 DEF ReviewQueued, Begin, Carry, Quotes
<1>2. ASSUME NEW r \in Slot, NEW w \in Worker, NEW c \in Case, ReviewUnknown(r, w, c)
      PROVE  TypeOK'
  BY <1>2 DEF ReviewUnknown, Begin, Carry
<1>3. ASSUME NEW r \in Slot, AskHit(r) PROVE TypeOK'
  BY <1>3 DEF AskHit, Move, Carry, Open
<1>4. ASSUME NEW r \in Slot, AskMiss(r) PROVE TypeOK'
  BY <1>4 DEF AskMiss, Draw, Move, Carry, Fresh
<1>5. ASSUME NEW r \in Slot, AskFails(r) PROVE TypeOK'
  BY <1>5 DEF AskFails, Draw, Move, Carry, Fresh, Fault
<1>6. ASSUME NEW r \in Slot, Enqueue(r) PROVE TypeOK'
  BY <1>6 DEF Enqueue, Move
<1>7. ASSUME NEW r \in Slot, EnqueueConflict(r) PROVE TypeOK'
  BY <1>7 DEF EnqueueConflict, Move
<1>8. ASSUME NEW r \in Slot, Select(r) PROVE TypeOK'
  BY <1>8 DEF Select, Move, Carry, Open
<1>9. ASSUME NEW r \in Slot, SelectNone(r) PROVE TypeOK'
  BY <1>9 DEF SelectNone, Done
<1>10. ASSUME NEW r \in Slot, EnqueueFails(r) PROVE TypeOK'
  BY <1>10 DEF EnqueueFails, Done, Fault
<1>11. ASSUME NEW r \in Slot, EnqueueUnacknowledged(r) PROVE TypeOK'
  BY <1>11 DEF EnqueueUnacknowledged, Done, Fault
<1>12. ASSUME NEW r \in Slot, AppendTicket(r) PROVE TypeOK'
  BY <1>12 DEF AppendTicket, Move
<1>13. ASSUME NEW r \in Slot, Respond(r) PROVE TypeOK'
  BY <1>13 DEF Respond, Done
<1>14. ASSUME NEW r \in Slot, RespondFails(r) PROVE TypeOK'
  BY <1>14 DEF RespondFails, Done, Fault
<1>15. ASSUME NEW t \in table, Resolve(t) PROVE TypeOK'
  BY <1>15 DEF Resolve
<1>16. ASSUME NEW w \in Worker, Crash(w) PROVE TypeOK'
  BY <1>16 DEF Crash, Reset, Fault
<1>17. CASE UNCHANGED vars
  BY <1>17 DEF vars
<1>18. QED
  BY <1>1, <1>2, <1>3, <1>4, <1>5, <1>6, <1>7, <1>8, <1>9, <1>10, <1>11, <1>12, <1>13,
     <1>14, <1>15, <1>16, <1>17 DEF Next, Review, Step, Failure

(* Every variable stays in the set of values the code can give it, and a   *)
(* turn that is served has a worker, a case and, past the query, a ticket. *)
THEOREM TypeCorrect == Spec => []TypeOK
<1>1. Init => TypeOK
  BY InitTyped
<1>2. TypeOK /\ [Next]_vars => TypeOK'
  BY NextTyped
<1>3. QED
  BY <1>1, <1>2, PTL DEF Spec

-----------------------------------------------------------------------------
(* The steps one at a time: the rows.                                      *)

LEMMA NextFiled == TypeOK /\ Filed /\ [Next]_vars => Filed'
<1> SUFFICES ASSUME TypeOK, Carried, UsePostgres, [Next]_vars PROVE Carried'
  BY DEF Filed
<1> USE TicketsAssumption DEF TypeOK, Pc, Ticket, At, Goto, turn, database, Carried
<1>1. ASSUME NEW r \in Slot, NEW w \in Worker, NEW c \in Case, ReviewQueued(r, w, c)
      PROVE  Carried'
  BY <1>1 DEF ReviewQueued, Begin, Carry, Quotes
<1>2. ASSUME NEW r \in Slot, NEW w \in Worker, NEW c \in Case, ReviewUnknown(r, w, c)
      PROVE  Carried'
  BY <1>2 DEF ReviewUnknown, Begin, Carry
<1>3. ASSUME NEW r \in Slot, AskHit(r) PROVE Carried'
  BY <1>3 DEF AskHit, Move, Carry, Open
<1>4. ASSUME NEW r \in Slot, AskMiss(r) PROVE Carried'
  BY <1>4 DEF AskMiss, Draw, Move, Carry, Fresh
<1>5. ASSUME NEW r \in Slot, AskFails(r) PROVE Carried'
  BY <1>5 DEF AskFails, Draw, Move, Carry, Fresh, Fault
<1>6. ASSUME NEW r \in Slot, Enqueue(r) PROVE Carried'
  BY <1>6 DEF Enqueue, Move
<1>7. ASSUME NEW r \in Slot, EnqueueConflict(r) PROVE Carried'
  BY <1>7 DEF EnqueueConflict, Move
<1>8. ASSUME NEW r \in Slot, Select(r) PROVE Carried'
  BY <1>8 DEF Select, Move, Carry, Open
<1>9. ASSUME NEW r \in Slot, SelectNone(r) PROVE Carried'
  BY <1>9 DEF SelectNone, Done
<1>10. ASSUME NEW r \in Slot, EnqueueFails(r) PROVE Carried'
  BY <1>10 DEF EnqueueFails, Done, Fault
<1>11. ASSUME NEW r \in Slot, EnqueueUnacknowledged(r) PROVE Carried'
  BY <1>11 DEF EnqueueUnacknowledged, Done, Fault
<1>12. ASSUME NEW r \in Slot, AppendTicket(r) PROVE Carried'
  BY <1>12 DEF AppendTicket, Move
<1>13. ASSUME NEW r \in Slot, Respond(r) PROVE Carried'
  <2>1. [id |-> ticket[r].id, case |-> about[r]] \in table
    BY <1>13 DEF Respond
  <2>2. QED
    BY <1>13, <2>1 DEF Respond, Done
<1>14. ASSUME NEW r \in Slot, RespondFails(r) PROVE Carried'
  BY <1>14 DEF RespondFails, Done, Fault
<1>15. ASSUME NEW t \in table, Resolve(t) PROVE Carried'
  BY <1>15 DEF Resolve
<1>16. ASSUME NEW w \in Worker, Crash(w) PROVE Carried'
  BY <1>16 DEF Crash, Reset, Fault
<1>17. CASE UNCHANGED vars
  BY <1>17 DEF vars
<1>18. QED
  BY <1>1, <1>2, <1>3, <1>4, <1>5, <1>6, <1>7, <1>8, <1>9, <1>10, <1>11, <1>12, <1>13,
     <1>14, <1>15, <1>16, <1>17 DEF Next, Review, Step, Failure

(* A ticket is added to a case that has no open one, or one is resolved.   *)
LEMMA NextRows ==
    ASSUME UsePostgres, [Next]_vars
    PROVE  \/ UNCHANGED table /\ resolved \subseteq resolved'
           \/ /\ resolved' = resolved
              /\ \E r \in Slot : /\ pc[r] = "enqueue"
                                 /\ Open(about[r]) = {}
                                 /\ table' = table \cup {ticket[r]}
<1> DEFINE Kept == UNCHANGED table /\ resolved \subseteq resolved'
           Filing == /\ resolved' = resolved
                     /\ \E r \in Slot : /\ pc[r] = "enqueue"
                                        /\ Open(about[r]) = {}
                                        /\ table' = table \cup {ticket[r]}
<1> USE DEF database
<1>1. ASSUME NEW r \in Slot, NEW w \in Worker, NEW c \in Case, Review(r, w, c) PROVE Kept
  BY <1>1 DEF Review, ReviewQueued, ReviewUnknown
<1>2. ASSUME NEW r \in Slot, Enqueue(r) \/ EnqueueUnacknowledged(r) PROVE Filing
  BY <1>2, UsePostgres DEF Enqueue, EnqueueUnacknowledged, Move, At
<1>3. ASSUME NEW r \in Slot,
             \/ AskHit(r) \/ AskMiss(r) \/ EnqueueConflict(r) \/ Select(r)
             \/ SelectNone(r) \/ AppendTicket(r) \/ Respond(r)
             \/ AskFails(r) \/ EnqueueFails(r) \/ RespondFails(r)
      PROVE  Kept
  BY <1>3 DEF AskHit, AskMiss, EnqueueConflict, Select, SelectNone, AppendTicket, Respond,
              AskFails, EnqueueFails, RespondFails
<1>4. ASSUME NEW t \in table, Resolve(t) PROVE Kept
  BY <1>4 DEF Resolve
<1>5. ASSUME NEW w \in Worker, Crash(w) PROVE Kept
  BY <1>5 DEF Crash
<1>6. ASSUME UNCHANGED vars PROVE Kept
  BY <1>6 DEF vars
<1> HIDE DEF Kept, Filing
<1>7. Kept \/ Filing
  <2>1. CASE Next
    BY <1>1, <1>2, <1>3, <1>4, <1>5, <2>1 DEF Next, Step, Failure
  <2>2. CASE UNCHANGED vars
    BY <1>6, <2>2
  <2>3. QED
    BY <2>1, <2>2, [Next]_vars
<1>8. QED
  BY <1>7 DEF Kept, Filing

LEMMA NextOneOpen == TypeOK /\ Filed /\ OneOpen /\ [Next]_vars => OneOpen'
<1> SUFFICES ASSUME TypeOK, Filed, OneOpen, UsePostgres, [Next]_vars,
                    NEW t \in table', NEW u \in table', t.case = u.case,
                    {t.id, u.id} \cap resolved' = {}
             PROVE  t = u
  BY DEF OneOpen
<1>1. CASE UNCHANGED table /\ resolved \subseteq resolved'
  BY <1>1 DEF OneOpen
<1>2. ASSUME NEW r \in Slot, pc[r] = "enqueue", Open(about[r]) = {},
             table' = table \cup {ticket[r]}, resolved' = resolved
      PROVE  t = u
  <2>1. ticket[r].case = about[r]
    BY <1>2 DEF Filed, Carried
  <2>2. \A x \in table : x.case = about[r] => x.id \in resolved
    BY <1>2 DEF Open
  <2>3. CASE t \in table /\ u \in table
    BY <1>2, <2>3 DEF OneOpen
  <2>4. CASE t \notin table \/ u \notin table
    BY <1>2, <2>1, <2>2, <2>4
  <2>5. QED
    BY <2>3, <2>4
<1>3. QED
  BY <1>1, <1>2, NextRows

LEMMA Invariance == Spec => []IInv
<1>1. Init => IInv
  BY InitTyped DEF Init, IInv, Filed, Carried, OneOpen
<1>2. IInv /\ [Next]_vars => IInv'
  BY NextTyped, NextFiled, NextOneOpen DEF IInv
<1>3. QED
  BY <1>1, <1>2, PTL DEF Spec

(* With a database, every case number a customer was told is that of a     *)
(* ticket in the table, about his conversation and his order, whatever     *)
(* fails: _manual_review answers 503 or quotes a committed row.            *)
THEOREM QuotesAreFiled == Spec => []QuotedIsFiled
<1>1. IInv => QuotedIsFiled
  BY DEF IInv, Filed, Carried, QuotedIsFiled
<1>2. QED
  BY <1>1, Invariance, PTL

(* With a database, no customer ever holds two case numbers of one         *)
(* conversation and order that are both open, over any retries, workers,   *)
(* failed queries, lost connections and restarts.                          *)
THEOREM ReviewsAreUnique == ASSUME UsePostgres PROVE Spec => []OneReview
<1>1. IInv => OneReview
  BY UsePostgres DEF IInv, Filed, Carried, OneOpen, OneReview
<1>2. QED
  BY <1>1, Invariance, PTL
=============================================================================
