---------------------------- MODULE SessionStore ----------------------------
(***************************************************************************)
(* Sessions with Postgres: SESSIONS of every worker and the table          *)
(* (store.new_session, get_session, persist; db.load_session,              *)
(* save_session), under the two handlers that use a session, negotiate     *)
(* and accept.  A Session object is shared by the requests that hold it;   *)
(* what they do with it is counting a turn and setting the outcome.        *)
(*                                                                         *)
(* A worker may crash, may find its database unreachable until its pool    *)
(* opens, and loads or saves may fail.  The client of a conversation knows *)
(* its identifier once it has been answered.                               *)
(***************************************************************************)
EXTENDS Naturals, FiniteSets

CONSTANTS
    Worker,      \* server processes
    Slot,        \* requests in service at the same time
    Session,     \* identifiers of conversations
    Object,      \* identities of Session objects
    Pin,         \* tenant and configuration version of a session
    MaxTurns,    \* bound on the turns of a session
    MaxFaults,   \* bound on failed reads and writes
    None

Outcomes == {"none", "released", "executed"}

Fields == [sid : Session, pin : Pin, turns : 0..MaxTurns, outcome : Outcomes]

(* How far a conversation has come: as it is, as it is saved, as answered. *)
Progress == [turns : 0..MaxTurns, outcome : Outcomes]
Account == [current : Progress, saved : Progress, answered : 0..MaxTurns]

ASSUME SessionStoreAssumption ==
    /\ MaxTurns \in Nat /\ MaxFaults \in Nat
    /\ IsFiniteSet(Object) /\ IsFiniteSet(Worker)
    /\ IsFiniteSet(Session) /\ IsFiniteSet(Slot)
    /\ Cardinality(Object) >= Cardinality(Worker) * Cardinality(Session) + Cardinality(Slot)
    /\ None \notin Object \cup Worker \cup Session \cup Fields \cup Account

VARIABLES
    pc,        \* slot -> where its request is
    job,       \* slot -> what it serves, its object, the values it will save
    heap,      \* object -> its session and fields, or None
    sessions,  \* worker -> SESSIONS: session -> object, or None
    rows,      \* table sessions: session -> fields, or None
    opened,    \* workers whose connection pool has opened
    refunded,  \* sessions with a refund in the table executions
    answered,  \* session -> the highest turn its client was answered
    faults,
    unsaved,   \* sessions answered without having been saved
    loose      \* sessions served twice at once, held by two workers, or with an
               \* execution whose commit was not acknowledged

service == <<pc, job, heap, sessions>>
history == <<unsaved, loose>>
tables == <<rows, refunded>>
vars == <<service, tables, opened, answered, faults, history>>

NoJob == [at |-> None, kind |-> "none", sid |-> None, ref |-> None, snap |-> None]

Init ==
    /\ pc = [r \in Slot |-> "idle"]
    /\ job = [r \in Slot |-> NoJob]
    /\ heap = [o \in Object |-> None]
    /\ sessions = [w \in Worker |-> [s \in Session |-> None]]
    /\ rows = [s \in Session |-> None]
    /\ opened = {} /\ refunded = {}
    /\ answered = [s \in Session |-> 0]
    /\ faults = 0
    /\ unsaved = {} /\ loose = {}

At(r, where) == pc[r] = where
Goto(r, where) == pc' = [pc EXCEPT ![r] = where]

Fault == faults < MaxFaults /\ faults' = faults + 1

(* Objects that nothing refers to any more are collected.                  *)
Referenced == {job[r].ref : r \in Slot} \cup
              UNION {{sessions[w][s] : s \in Session} : w \in Worker}

Collect(fields) == heap' = [o \in Object |-> IF o \in Referenced' THEN fields[o] ELSE None]

Free == CHOOSE o \in Object : heap[o] = None

Done(r) ==
    /\ Goto(r, "idle")
    /\ job' = [job EXCEPT ![r] = NoJob]
    /\ UNCHANGED sessions
    /\ Collect(heap)

Reachable(r) == job[r].at \in opened

-----------------------------------------------------------------------------
(* Finding the session.                                                    *)

(* The session of a request becomes a new object, in SESSIONS as well.     *)
Adopt(r, w, kind, s, fields) ==
    /\ job' = [job EXCEPT ![r] = [at |-> w, kind |-> kind, sid |-> s, ref |-> Free,
                                  snap |-> None]]
    /\ sessions' = [sessions EXCEPT ![w][s] = Free]
    /\ Collect([heap EXCEPT ![Free] = fields])
    /\ Goto(r, "found")

(* An identifier nobody has used.                                          *)
Unused(s) ==
    /\ answered[s] = 0 /\ rows[s] = None
    /\ \A o \in Object : heap[o] # None => heap[o].sid # s

(* A request without an identifier begins a conversation.                  *)
Open(r, w) ==
    /\ At(r, "idle")
    /\ \E s \in Session, p \in Pin :
         /\ Unused(s)
         /\ Adopt(r, w, "turn", s, [sid |-> s, pin |-> p, turns |-> 0, outcome |-> "none"])
    /\ UNCHANGED <<tables, opened, answered, faults, history>>

InService(s) == \E r \in Slot : job[r].sid = s

HeldElsewhere(w, s) == \E v \in Worker \ {w} : sessions[v][s] # None

(* A request for a known conversation; its session is in SESSIONS or not.  *)
Arrive(r, w, kind, s) ==
    /\ At(r, "idle")
    /\ answered[s] > 0
    /\ job' = [job EXCEPT ![r] = [at |-> w, kind |-> kind, sid |-> s,
                                  ref |-> sessions[w][s], snap |-> None]]
    /\ Goto(r, IF sessions[w][s] = None THEN "load" ELSE "found")
    /\ loose' = IF InService(s) \/ HeldElsewhere(w, s) THEN loose \cup {s} ELSE loose
    /\ UNCHANGED <<heap, sessions, tables, opened, answered, faults, unsaved>>

Connect(w) ==
    /\ w \notin opened
    /\ opened' = opened \cup {w}
    /\ UNCHANGED <<service, tables, answered, faults, history>>

(* Slip: session_from_row leaves tenant and version at their defaults.     *)
LoadWithoutPin(r) ==
    /\ At(r, "load")
    /\ Reachable(r)
    /\ rows[job[r].sid] # None
    /\ \E p \in Pin :
         Adopt(r, job[r].at, job[r].kind, job[r].sid, [rows[job[r].sid] EXCEPT !.pin = p])
    /\ UNCHANGED <<tables, opened, answered, faults, history>>

(* The row becomes an object, which takes the place of one that another    *)
(* thread may have loaded in the meantime.                                 *)
LoadHit(r) ==
    /\ At(r, "load")
    /\ Reachable(r)
    /\ rows[job[r].sid] # None
    /\ Adopt(r, job[r].at, job[r].kind, job[r].sid, rows[job[r].sid])
    /\ UNCHANGED <<tables, opened, answered, faults, history>>

(* Slip: nobody asks whether there is a session.                           *)
MissedUnnoticed(r) ==
    /\ At(r, "load")
    /\ Goto(r, "found")
    /\ UNCHANGED <<job, heap, sessions, tables, opened, answered, history>>

(* No session: an acceptance gets a 409, and a turn goes on as the first   *)
(* of another conversation, as if it had come without an identifier.       *)
Missed(r) ==
    /\ At(r, "load")
    /\ Done(r)
    /\ UNCHANGED <<tables, opened, answered, history>>

LoadMiss(r) ==
    /\ Reachable(r)
    /\ rows[job[r].sid] = None
    /\ Missed(r)
    /\ UNCHANGED faults

(* Without a pool load_session knows of no row, and _query answers a       *)
(* failed read with none.                                                  *)
LoadFails(r) ==
    /\ Missed(r)
    /\ IF Reachable(r) THEN Fault ELSE UNCHANGED faults

-----------------------------------------------------------------------------
(* Working on it.                                                          *)

Assign(r, field, value) == heap' = [heap EXCEPT ![job[r].ref][field] = value]

Count(r) ==
    /\ At(r, "found")
    /\ job[r].kind = "turn"
    /\ heap[job[r].ref].turns < MaxTurns
    /\ Assign(r, "turns", heap[job[r].ref].turns + 1)
    /\ Goto(r, "serve")
    /\ UNCHANGED <<job, sessions, tables, opened, answered, faults, history>>

(* The reply leaves the outcome as it is, or the turn ends the retention   *)
(* (_release, _manual_review).                                             *)
Work(r) ==
    /\ At(r, "serve")
    /\ \E o \in {heap[job[r].ref].outcome, "released"} : Assign(r, "outcome", o)
    /\ Goto(r, "save")
    /\ UNCHANGED <<job, sessions, tables, opened, answered, faults, history>>

(* The handler ends without touching the session again: 403 before a turn, *)
(* 503, or an acceptance that had been executed before.                    *)
Leave(r) ==
    /\ pc[r] \in {"found", "serve"}
    /\ Done(r)
    /\ UNCHANGED <<tables, opened, answered, faults, history>>

(* An acceptance, or a turn that refunds, executes: db.execute_once sets   *)
(* the outcome of the row, if there is one.                                *)
Execute(r) ==
    /\ Reachable(r)
    /\ At(r, IF job[r].kind = "accept" THEN "found" ELSE "serve")
    /\ rows' = IF rows[job[r].sid] = None THEN rows
               ELSE [rows EXCEPT ![job[r].sid].outcome = "executed"]
    /\ refunded' = IF job[r].kind = "turn" THEN refunded \cup {job[r].sid} ELSE refunded

Commit(r) ==
    /\ Execute(r)
    /\ Goto(r, "publish")
    /\ UNCHANGED <<job, heap, sessions, opened, answered, faults, history>>

(* The refund had been executed before, as EXECUTED or the table says: its *)
(* row stays as it is, and the turn goes on as if it had executed.         *)
RefundAgain(r) ==
    /\ At(r, "serve")
    /\ job[r].kind = "turn"
    /\ job[r].sid \in refunded
    /\ Goto(r, "publish")
    /\ UNCHANGED <<job, heap, sessions, tables, opened, answered, faults, history>>

(* The connection is lost after the commit: 503.                           *)
CommitUnacknowledged(r) ==
    /\ Execute(r)
    /\ Fault
    /\ loose' = loose \cup {job[r].sid}
    /\ Done(r)
    /\ UNCHANGED <<opened, answered, unsaved>>

(* Slip: the session keeps the outcome it had.                             *)
PublishQuietly(r) ==
    /\ At(r, "publish")
    /\ Goto(r, "save")
    /\ UNCHANGED <<job, heap, sessions, tables, opened, answered, faults, history>>

Publish(r) ==
    /\ At(r, "publish")
    /\ Assign(r, "outcome", "executed")
    /\ Goto(r, "save")
    /\ UNCHANGED <<job, sessions, tables, opened, answered, faults, history>>

-----------------------------------------------------------------------------
(* Saving it: save_session reads the fields, then sends the UPSERT.        *)

Read(r) ==
    /\ At(r, "save")
    /\ Reachable(r)
    /\ job' = [job EXCEPT ![r].snap = heap[job[r].ref]]
    /\ Goto(r, "write")
    /\ UNCHANGED <<heap, sessions, tables, opened, answered, faults, history>>

(* Tenant and version are not among the columns that are updated.          *)
Upsert(s, fields) ==
    rows' = [rows EXCEPT ![s] = IF rows[s] = None THEN fields
                                ELSE [fields EXCEPT !.pin = rows[s].pin]]

Answer(r, turns) ==
    /\ answered' = [answered EXCEPT ![job[r].sid] = IF @ > turns THEN @ ELSE turns]
    /\ Done(r)

(* Slip: the answer does not wait for the UPSERT.                          *)
WriteLater(r) ==
    /\ At(r, "write")
    /\ Answer(r, job[r].snap.turns)
    /\ UNCHANGED <<tables, opened, faults, history>>

Write(r) ==
    /\ At(r, "write")
    /\ Upsert(job[r].sid, job[r].snap)
    /\ Answer(r, job[r].snap.turns)
    /\ UNCHANGED <<refunded, opened, faults, history>>

(* _exec raises: 500, whether the row was written or not.                  *)
WriteFails(r) ==
    /\ At(r, "write")
    /\ Fault
    /\ UNCHANGED rows \/ Upsert(job[r].sid, job[r].snap)
    /\ Done(r)
    /\ UNCHANGED <<refunded, opened, answered, history>>

(* Without a pool nothing is saved, and nothing is said about it.          *)
Skip(r) ==
    /\ At(r, "save")
    /\ ~Reachable(r)
    /\ Answer(r, heap[job[r].ref].turns)
    /\ unsaved' = unsaved \cup {job[r].sid}
    /\ UNCHANGED <<tables, opened, faults, loose>>

Crash(w) ==
    LET dead == {r \in Slot : job[r].at = w} IN
    /\ pc' = [r \in Slot |-> IF r \in dead THEN "idle" ELSE pc[r]]
    /\ job' = [r \in Slot |-> IF r \in dead THEN NoJob ELSE job[r]]
    /\ sessions' = [sessions EXCEPT ![w] = [s \in Session |-> None]]
    /\ Collect(heap)
    /\ opened' = opened \ {w}
    /\ UNCHANGED <<tables, answered, faults, history>>

-----------------------------------------------------------------------------
Step(r) ==
    \/ LoadHit(r) \/ LoadMiss(r) \/ LoadFails(r)
    \/ Count(r) \/ Work(r) \/ Leave(r)
    \/ Commit(r) \/ CommitUnacknowledged(r) \/ RefundAgain(r) \/ Publish(r)
    \/ Read(r) \/ Write(r) \/ WriteFails(r) \/ Skip(r)

Next ==
    \/ \E r \in Slot, w \in Worker :
         \/ Open(r, w)
         \/ \E s \in Session, kind \in {"turn", "accept"} : Arrive(r, w, kind, s)
    \/ \E r \in Slot : Step(r)
    \/ \E w \in Worker : Connect(w) \/ Crash(w)

Spec == Init /\ [][Next]_vars

-----------------------------------------------------------------------------
(* Every variable stays in the set of values the code can give it, and no  *)
(* request works on an object that has been collected.                     *)
TypeOK ==
    /\ pc \in [Slot -> {"idle", "load", "found", "serve", "publish", "save", "write"}]
    /\ job \in [Slot -> [at : Worker \cup {None}, kind : {"none", "turn", "accept"},
                         sid : Session \cup {None}, ref : Object \cup {None},
                         snap : Fields \cup {None}]]
    /\ heap \in [Object -> Fields \cup {None}]
    /\ \A r \in Slot : pc[r] \notin {"idle", "load"} => /\ job[r].ref # None
                                                        /\ heap[job[r].ref] # None
    /\ sessions \in [Worker -> [Session -> Object \cup {None}]]
    /\ rows \in [Session -> Fields \cup {None}]
    /\ opened \subseteq Worker /\ refunded \subseteq Session
    /\ answered \in [Session -> 0..MaxTurns]
    /\ faults \in 0..MaxFaults
    /\ unsaved \cup loose \subseteq Session

Copies(s) == {heap[o] : o \in {o \in Object : heap[o] # None /\ heap[o].sid = s}}
             \cup ({rows[s]} \ {None})

(* The tenant and the version of a conversation are the same in all its    *)
(* copies, whichever process made them from what and in whatever order     *)
(* they are saved (db.py:103, "pinned is pinned").                         *)
PinsAgree == \A s \in Session : Cardinality({c.pin : c \in Copies(s)}) <= 1

(* Once a process that had its database has answered a conversation, the   *)
(* conversation has a row: no process takes it for an unknown one, however *)
(* many die, except by a read that fails.                                  *)
Remembered == \A s \in Session \ unsaved : answered[s] > 0 => rows[s] # None

Live(s) == {o \in Object : heap[o] # None /\ heap[o].sid = s}

Book == [s \in Session |->
    IF s \in unsaved \cup loose THEN None
    ELSE LET Blank == [turns |-> 0, outcome |-> "none"]
             Part(c) == [turns |-> c.turns, outcome |-> c.outcome]
             saved == IF rows[s] = None THEN Blank ELSE Part(rows[s])
         IN [current |-> IF Live(s) = {} THEN saved
                         ELSE Part(heap[CHOOSE o \in Live(s) : TRUE]),
             saved |-> saved,
             answered |-> answered[s]]]

Register == INSTANCE DurableSession
            WITH book <- Book, Outcomes <- Outcomes \ {"none"}, Off <- None

(* A conversation served by one worker at a time is a durable session:     *)
(* whatever crashes or fails, its turns and outcome go on from where the   *)
(* last answer left them (store.persist, store.get_session).               *)
StaysDurable == Register!Spec

-----------------------------------------------------------------------------
(* What the comments say and the code does not do (README, Disagreements). *)

(* store.py:222: however a conversation is served, a restart goes on from  *)
(* the turns that were answered.                                           *)
AnsweredKept ==
    \A s \in Session : answered[s] > 0 /\ s \notin unsaved => rows[s].turns >= answered[s]

(* db.py:94: the outcome of an execution is never taken back.              *)
OutcomeKept ==
    [][\A s \in Session : rows[s] # None /\ rows[s].outcome # "none"
                              => rows'[s].outcome # "none"]_vars
=============================================================================
