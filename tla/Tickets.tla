------------------------------- MODULE Tickets -------------------------------
(***************************************************************************)
(* The specialists' queue: app._manual_review opens a ticket for a         *)
(* conversation and an order, or finds the one that is open, and quotes    *)
(* its number to the customer.  The tickets are in table manual_tickets;   *)
(* each worker process also keeps those it has quoted in MANUAL_QUEUE,     *)
(* which is all there is without Postgres.  Specialists resolve tickets in *)
(* the table.                                                              *)
(*                                                                         *)
(* A slot is a turn whose order is to be reviewed.  It leaves the process  *)
(* for each query, and a thread may be switched anywhere else.             *)
(***************************************************************************)
EXTENDS Naturals, FiniteSets

CONSTANTS
    UsePostgres,
    Worker,       \* server processes
    Slot,         \* turns served at the same time
    Case,         \* conversations with the order in question
    Id,           \* ticket numbers
    MaxResolved,  \* bound on the tickets specialists resolve
    MaxFaults,    \* bound on failed queries and on crashes
    None

ASSUME TicketsAssumption ==
    /\ UsePostgres \in BOOLEAN
    /\ MaxResolved \in Nat /\ MaxFaults \in Nat
    /\ None \notin Worker \cup Case \cup [id : Id, case : Case]

VARIABLES
    pc,        \* slot -> where its turn is
    at,        \* slot -> the worker it runs on
    about,     \* slot -> the case it is about
    ticket,    \* slot -> `existing`: the ticket it is going to quote
    table,     \* the rows of manual_tickets
    resolved,  \* the numbers of those that are resolved
    queue,     \* worker -> MANUAL_QUEUE
    told,      \* the tickets that were quoted, each with the case asked about
    faults

turn == <<pc, at, about, ticket>>
database == <<table, resolved>>
vars == <<turn, database, queue, told, faults>>

Ticket == [id : Id, case : Case]

At(r, where) == pc[r] = where
Goto(r, where) == pc' = [pc EXCEPT ![r] = where]

Move(r, from, to) ==
    /\ At(r, from)
    /\ Goto(r, to)
    /\ UNCHANGED <<at, about>>

Carry(r, t) == ticket' = [ticket EXCEPT ![r] = t]

Done(r) ==
    /\ Goto(r, "idle")
    /\ at' = [at EXCEPT ![r] = None]
    /\ about' = [about EXCEPT ![r] = None]
    /\ ticket' = [ticket EXCEPT ![r] = None]

Fault == faults < MaxFaults /\ faults' = faults + 1

Open(c) == {t \in table : t.case = c /\ t.id \notin resolved}

Quotes(w, c) == {t \in queue[w] : t.case = c}

(* uuid4 draws a number nobody has.                                        *)
Fresh == {i \in Id : /\ \A t \in table \cup told : t.id # i
                     /\ \A w \in Worker : \A t \in queue[w] : t.id # i
                     /\ \A r \in Slot : ticket[r] # None => ticket[r].id # i}

Init ==
    /\ pc = [r \in Slot |-> "idle"]
    /\ at = [r \in Slot |-> None]
    /\ about = [r \in Slot |-> None]
    /\ ticket = [r \in Slot |-> None]
    /\ table = {} /\ resolved = {}
    /\ queue = [w \in Worker |-> {}]
    /\ told = {}
    /\ faults = 0

-----------------------------------------------------------------------------
Begin(r, w, c, t, where) ==
    /\ At(r, "idle")
    /\ Goto(r, where)
    /\ at' = [at EXCEPT ![r] = w]
    /\ about' = [about EXCEPT ![r] = c]
    /\ Carry(r, t)

(* The case is in MANUAL_QUEUE, where no ticket is ever marked resolved.   *)
ReviewQueued(r, w, c) ==
    /\ \E t \in Quotes(w, c) : Begin(r, w, c, t, "respond")
    /\ UNCHANGED <<database, queue, told, faults>>

ReviewUnknown(r, w, c) ==
    /\ Quotes(w, c) = {}
    /\ Begin(r, w, c, None, "ask")
    /\ UNCHANGED <<database, queue, told, faults>>

(* db.get_open_ticket: what it finds is not put into MANUAL_QUEUE.         *)
AskHit(r) ==
    /\ Move(r, "ask", "respond")
    /\ UsePostgres
    /\ \E t \in Open(about[r]) : Carry(r, t)
    /\ UNCHANGED <<database, queue, told, faults>>

Draw(r) ==
    /\ Move(r, "ask", "enqueue")
    /\ \E i \in Fresh : Carry(r, [id |-> i, case |-> about[r]])

AskMiss(r) ==
    /\ Draw(r)
    /\ UsePostgres => Open(about[r]) = {}
    /\ UNCHANGED <<database, queue, told, faults>>

AskFails(r) ==
    /\ Draw(r)
    /\ UsePostgres
    /\ Fault
    /\ UNCHANGED <<database, queue, told>>

-----------------------------------------------------------------------------
(* db.enqueue_ticket: an INSERT, and a SELECT if the INSERT did nothing.   *)
(* The index allows one open ticket for a case.                            *)

(* Slip: no index.                                                         *)
EnqueueUnchecked(r) ==
    /\ Move(r, "enqueue", "append")
    /\ table' = IF UsePostgres THEN table \cup {ticket[r]} ELSE table
    /\ UNCHANGED <<ticket, resolved, queue, told, faults>>

Enqueue(r) ==
    /\ Move(r, "enqueue", "append")
    /\ UsePostgres => Open(about[r]) = {}
    /\ table' = IF UsePostgres THEN table \cup {ticket[r]} ELSE table
    /\ UNCHANGED <<ticket, resolved, queue, told, faults>>

(* Slip: what the INSERT returned is used, and it returned nothing.         *)
EnqueueConflictUnread(r) ==
    /\ Move(r, "enqueue", "append")
    /\ UsePostgres
    /\ Open(about[r]) # {}
    /\ Carry(r, None)
    /\ UNCHANGED <<database, queue, told, faults>>

EnqueueConflict(r) ==
    /\ Move(r, "enqueue", "select")
    /\ UsePostgres
    /\ Open(about[r]) # {}
    /\ UNCHANGED <<ticket, database, queue, told, faults>>

Select(r) ==
    /\ Move(r, "select", "append")
    /\ \E t \in Open(about[r]) : Carry(r, t)
    /\ UNCHANGED <<database, queue, told, faults>>

(* 503: the ticket was resolved between the two statements.                *)
SelectNone(r) ==
    /\ At(r, "select")
    /\ Open(about[r]) = {}
    /\ Done(r)
    /\ UNCHANGED <<database, queue, told, faults>>

(* Slip: the exception is logged and the handler goes on.                  *)
EnqueueFailsUnnoticed(r) ==
    /\ Move(r, "enqueue", "append")
    /\ UsePostgres
    /\ Fault
    /\ UNCHANGED <<ticket, database, queue, told>>

(* 503, and nothing was written.                                           *)
EnqueueFails(r) ==
    /\ pc[r] \in {"enqueue", "select"}
    /\ UsePostgres
    /\ Fault
    /\ Done(r)
    /\ UNCHANGED <<database, queue, told>>

(* 503, but the server had committed.                                      *)
EnqueueUnacknowledged(r) ==
    /\ At(r, "enqueue")
    /\ UsePostgres
    /\ Open(about[r]) = {}
    /\ table' = table \cup {ticket[r]}
    /\ Fault
    /\ Done(r)
    /\ UNCHANGED <<resolved, queue, told>>

AppendTicket(r) ==
    /\ Move(r, "append", "respond")
    /\ queue' = [queue EXCEPT ![at[r]] = @ \cup {ticket[r]}]
    /\ UNCHANGED <<ticket, database, told, faults>>

Respond(r) ==
    /\ At(r, "respond")
    /\ told' = told \cup {[id |-> ticket[r].id, case |-> about[r]]}
    /\ Done(r)
    /\ UNCHANGED <<database, queue, faults>>

(* 500: the session cannot be saved.                                       *)
RespondFails(r) ==
    /\ At(r, "respond")
    /\ UsePostgres
    /\ Fault
    /\ Done(r)
    /\ UNCHANGED <<database, queue, told>>

-----------------------------------------------------------------------------
(* A specialist resolves a ticket.                                         *)
Resolve(t) ==
    /\ UsePostgres
    /\ Cardinality(resolved) < MaxResolved
    /\ t.id \notin resolved
    /\ resolved' = resolved \cup {t.id}
    /\ UNCHANGED <<turn, table, queue, told, faults>>

Reset(f, w, v) == [r \in Slot |-> IF at[r] = w THEN v ELSE f[r]]

Crash(w) ==
    /\ Fault
    /\ pc' = Reset(pc, w, "idle")
    /\ at' = Reset(at, w, None)
    /\ about' = Reset(about, w, None)
    /\ ticket' = Reset(ticket, w, None)
    /\ queue' = [queue EXCEPT ![w] = {}]
    /\ UNCHANGED <<database, told>>

Review(r, w, c) == ReviewQueued(r, w, c) \/ ReviewUnknown(r, w, c)

Step(r) ==
    \/ AskHit(r) \/ AskMiss(r) \/ Enqueue(r) \/ EnqueueConflict(r)
    \/ Select(r) \/ SelectNone(r) \/ AppendTicket(r) \/ Respond(r)

Failure(r) ==
    AskFails(r) \/ EnqueueFails(r) \/ EnqueueUnacknowledged(r) \/ RespondFails(r)

Next ==
    \/ \E r \in Slot, w \in Worker, c \in Case : Review(r, w, c)
    \/ \E r \in Slot : Step(r) \/ Failure(r)
    \/ \E t \in table : Resolve(t)
    \/ \E w \in Worker : Crash(w)

Spec == Init /\ [][Next]_vars

-----------------------------------------------------------------------------
Pc == {"idle", "ask", "enqueue", "select", "append", "respond"}

(* Every variable stays in the set of values the code can give it, and a   *)
(* turn that is served has a worker and a case.                            *)
TypeOK ==
    /\ pc \in [Slot -> Pc]
    /\ at \in [Slot -> Worker \cup {None}]
    /\ about \in [Slot -> Case \cup {None}]
    /\ ticket \in [Slot -> Ticket \cup {None}]
    /\ \A r \in Slot : pc[r] # "idle" => at[r] # None /\ about[r] # None
    /\ \A r \in Slot :
         pc[r] \in {"enqueue", "select", "append", "respond"} => ticket[r] # None
    /\ table \subseteq Ticket
    /\ resolved \subseteq Id
    /\ queue \in [Worker -> SUBSET Ticket]
    /\ told \subseteq Ticket
    /\ faults \in Nat

(* app.py:191, "at most one open review for a conversation and order":     *)
(* retries, a customer who returns later, several workers, lost            *)
(* connections and restarts never get a customer two case numbers that are *)
(* both still open.                                                        *)
OneReview ==
    \A t, u \in told :
        t.case = u.case /\ {t.id, u.id} \cap resolved = {} => t = u

(* A case number is never an empty promise: with a database, each number a *)
(* customer was told is that of a ticket about his case, which the         *)
(* specialists see (README.md:465, tickets do not fall back to memory).    *)
QuotedIsFiled == UsePostgres => told \subseteq table

-----------------------------------------------------------------------------
(* What the replies say and the code does not do (README, Disagreements).  *)

(* app.py:200 asks for a ticket that is not resolved, and app.py:236 tells *)
(* the customer that a specialist is going to review the request: the      *)
(* ticket that is quoted at once was not resolved before the turn began.   *)
QuotedIsPending ==
    [][\A r \in Slot :
         At(r, "idle") /\ pc'[r] = "respond" => ticket'[r].id \notin resolved]_vars
=============================================================================
