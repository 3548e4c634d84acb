------------------------------ MODULE Execution ------------------------------
(***************************************************************************)
(* The L4 execution layer: POST /api/accept (app.accept), the instant      *)
(* refund of a negotiation turn (app._emotional), the transaction both     *)
(* call (db.execute_once) and the session outcome they leave behind        *)
(* (store.persist / db.save_session).                                      *)
(*                                                                         *)
(* A slot is one request being served: FastAPI runs the handlers, plain    *)
(* `def` functions, on a thread pool, so the slots of one worker process   *)
(* interleave at every step and share that process's EXECUTED and SESSIONS *)
(* dictionaries.  Several workers share nothing but Postgres.  Slots are   *)
(* reused: the number of calls and retries is not bounded.                 *)
(***************************************************************************)
EXTENDS Naturals

CONSTANTS
    UsePostgres,   \* C.USE_POSTGRES: FALSE is the in-memory default
    Worker,        \* server processes
    Slot,          \* requests in flight at the same time
    Key,           \* idempotency keys chosen by clients
    Token,         \* offer tokens, each named by its jti
    Refund,        \* instant-refund keys, one for a session and an order
    Session,       \* sessions
    OfferSession,  \* the session of each token and of each refund key
    Call,          \* the <<key, token>> pairs clients send to /api/accept
    Talking,       \* the refund keys of customers who go on negotiating
    MaxFaults,     \* bound on failed reads and writes and on crashes
    None

ASSUME ExecutionAssumption ==
    /\ UsePostgres \in BOOLEAN
    /\ OfferSession \in [Token \cup Refund -> Session]
    /\ Call \subseteq Key \X Token
    /\ Talking \subseteq Refund
    /\ MaxFaults \in Nat
    /\ Key \cap Token = {} /\ Key \cap Refund = {} /\ Token \cap Refund = {}
    /\ None \notin Key \cup Token \cup Refund \cup Worker

(* What one execution is about: a token's offer, or an instant refund.     *)
Offer == Token \cup Refund

SessionOf(o) == OfferSession[o]
OutcomeOf(o) == IF o \in Token THEN "retained" ELSE "instant_refund"

(* "concluded" stands for "released" and "escalated": nothing is executed. *)
Outcomes == {"none", "concluded", "retained", "instant_refund"}

VARIABLES
    pc,         \* slot -> where the request it serves is
    job,        \* slot -> the worker that runs it, its key and its token
    got,        \* slot -> the offer of the row execute_once returned
    snap,       \* slot -> the outcome save_session has read
    known,      \* worker -> EXECUTED: idempotency keys and jtis to results
    outcome,    \* worker -> SESSIONS: session -> outcome, or "absent"
    rows,       \* executions that took place; under Postgres, the table
    dbOutcome,  \* the outcome column of table sessions
    expired,    \* tokens past their TTL
    faults,     \* faults so far
    firsts,     \* call -> "executed" replies it was given
    replays,    \* the "already_executed" replies given
    refunded    \* refund keys that were answered "instant_refund"

served == <<pc, job, got, snap>>
memory == <<known, outcome>>
database == <<rows, dbOutcome>>
told == <<firsts, replays, refunded>>
vars == <<served, memory, database, expired, faults, told>>

-----------------------------------------------------------------------------
(* A negotiation turn has one refund key as its key and as its token: the  *)
(* code derives both from the session and the order (app.py:525).          *)

Pc == {"idle", "lookup", "verify", "jti", "decide", "commit", "created",
       "conflict", "snapshot", "write"}

Job == [at : Worker \cup {None}, key : Key \cup Refund \cup {None},
        token : Offer \cup {None}]

NoJob == [at |-> None, key |-> None, token |-> None]

At(r, where) == pc[r] = where
Goto(r, where) == pc' = [pc EXCEPT ![r] = where]

Move(r, from, to) ==
    /\ At(r, from)
    /\ Goto(r, to)
    /\ UNCHANGED <<job, got, snap>>

Begin(r, where, w, k, t) ==
    /\ Goto(r, where)
    /\ job' = [job EXCEPT ![r] = [at |-> w, key |-> k, token |-> t]]
    /\ UNCHANGED <<got, snap>>

Done(r) ==
    /\ Goto(r, "idle")
    /\ job' = [job EXCEPT ![r] = NoJob]
    /\ got' = [got EXCEPT ![r] = None]
    /\ snap' = [snap EXCEPT ![r] = "none"]

Sid(r) == SessionOf(job[r].token)
IsTurn(r) == job[r].token \in Refund

Fault == faults < MaxFaults /\ faults' = faults + 1

Replay(k, t, o) == [key |-> k, token |-> t, offer |-> o]

RowsOfKey(k) == {x \in rows : x.key = k}
RowsOfToken(t) == {x \in rows : x.token = t}

Init ==
    /\ pc = [r \in Slot |-> "idle"]
    /\ job = [r \in Slot |-> NoJob]
    /\ got = [r \in Slot |-> None]
    /\ snap = [r \in Slot |-> "none"]
    /\ known = [w \in Worker |-> [i \in Key \cup Offer |-> None]]
    /\ \E home \in [Session -> Worker] :
         outcome = [w \in Worker |->
                      [s \in Session |-> IF home[s] = w THEN "none" ELSE "absent"]]
    /\ rows = {}
    /\ dbOutcome = [s \in Session |-> "none"]
    /\ expired = {}
    /\ faults = 0
    /\ firsts = [c \in Call |-> 0]
    /\ replays = {}
    /\ refunded = {}

-----------------------------------------------------------------------------
(* store.get_session: this process's object, else a copy of the row.       *)
Available(w, s) == outcome[w][s] # "absent" \/ UsePostgres

(* Slip: the row is used but not kept in SESSIONS.                         *)
LoadedNowhere(w, s) == outcome

Loaded(w, s) ==
    [outcome EXCEPT ![w][s] = IF @ = "absent" THEN dbOutcome[s] ELSE @]

(* app.accept: the key is in EXECUTED.                                     *)
AcceptReplay(r, w, c) ==
    /\ At(r, "idle")
    /\ known[w][c[1]] # None
    /\ replays' = replays \cup {Replay(c[1], c[2], known[w][c[1]])}
    /\ UNCHANGED <<served, memory, database, expired, faults, firsts, refunded>>

(* app.accept: the key is not in EXECUTED; the handler goes on.            *)
AcceptArrive(r, w, c) ==
    /\ At(r, "idle")
    /\ known[w][c[1]] = None
    /\ Begin(r, "lookup", w, c[1], c[2])
    /\ UNCHANGED <<memory, database, expired, faults, told>>

(* db.get_execution finds the key: EXECUTED is filled and the call ends.   *)
LookupHit(r) ==
    /\ At(r, "lookup")
    /\ UsePostgres
    /\ \E x \in RowsOfKey(job[r].key) :
         /\ known' = [known EXCEPT ![job[r].at][job[r].key] = x.token]
         /\ replays' = replays \cup {Replay(job[r].key, job[r].token, x.token)}
    /\ Done(r)
    /\ UNCHANGED <<outcome, database, expired, faults, firsts, refunded>>

(* Slip: the table is not asked.                                           *)
LookupSkipped(r) ==
    /\ Move(r, "lookup", "verify")
    /\ UNCHANGED <<memory, database, expired, faults, told>>

LookupMiss(r) ==
    /\ Move(r, "lookup", "verify")
    /\ UsePostgres => RowsOfKey(job[r].key) = {}
    /\ UNCHANGED <<memory, database, expired, faults, told>>

(* db._query turns a read error into an empty answer.                      *)
LookupFails(r) ==
    /\ Move(r, "lookup", "verify")
    /\ UsePostgres
    /\ Fault
    /\ UNCHANGED <<memory, database, expired, told>>

(* The token is good and its session is at hand.                           *)
Verified(r) ==
    /\ Move(r, "verify", "jti")
    /\ job[r].token \notin expired
    /\ Available(job[r].at, Sid(r))
    /\ outcome' = Loaded(job[r].at, Sid(r))
    /\ UNCHANGED <<known, database, expired, faults, told>>

(* 422: the token has expired.  409: the session is gone.                  *)
Rejected(r) ==
    /\ At(r, "verify")
    /\ job[r].token \in expired \/ ~Available(job[r].at, Sid(r))
    /\ Done(r)
    /\ UNCHANGED <<memory, database, expired, faults, told>>

(* The order, the pinned configuration or the session cannot be read.      *)
RejectedByFault(r) ==
    /\ At(r, "verify")
    /\ UsePostgres
    /\ Fault
    /\ Done(r)
    /\ UNCHANGED <<memory, database, expired, told>>

(* The jti is in EXECUTED: the key is recorded with that result.           *)
TokenReplay(r) ==
    LET prior == known[job[r].at][job[r].token] IN
    /\ At(r, "jti")
    /\ prior # None
    /\ known' = [known EXCEPT ![job[r].at][job[r].key] = prior]
    /\ replays' = replays \cup {Replay(job[r].key, job[r].token, prior)}
    /\ Done(r)
    /\ UNCHANGED <<outcome, database, expired, faults, firsts, refunded>>

(* Slip: the jti is not looked up in EXECUTED.                             *)
TokenUnchecked(r) ==
    /\ Move(r, "jti", "commit")
    /\ UNCHANGED <<memory, database, expired, faults, told>>

TokenNew(r) ==
    /\ Move(r, "jti", "commit")
    /\ known[job[r].at][job[r].token] = None
    /\ UNCHANGED <<memory, database, expired, faults, told>>

-----------------------------------------------------------------------------
(* db.execute_once.  The two UNIQUE constraints of table executions decide *)
(* which of several transactions inserts; a transaction that inserts also  *)
(* writes the session's outcome.  Without Postgres the handler decides     *)
(* `created = True` by itself and there is no constraint to stop it.       *)

(* Slip: there is no UNIQUE constraint on tokens.                          *)
ConflictsOfKey(r) == RowsOfKey(job[r].key)

Conflicts(r) == RowsOfKey(job[r].key) \cup RowsOfToken(job[r].token)

Insert(r) ==
    /\ UsePostgres => Conflicts(r) = {}
    /\ rows' = rows \cup {[key |-> job[r].key, token |-> job[r].token]}
    /\ dbOutcome' = IF UsePostgres
                    THEN [dbOutcome EXCEPT ![Sid(r)] = OutcomeOf(job[r].token)]
                    ELSE dbOutcome

Returned(r, where, offer) ==
    /\ Goto(r, where)
    /\ got' = [got EXCEPT ![r] = offer]
    /\ UNCHANGED <<job, snap>>

CommitInsert(r) ==
    /\ At(r, "commit")
    /\ Returned(r, "created", job[r].token)
    /\ Insert(r)
    /\ UNCHANGED <<memory, expired, faults, told>>

(* Slip: the SELECT after a conflict has no WHERE clause.                  *)
CommitConflictAnyRow(r) ==
    /\ At(r, "commit")
    /\ UsePostgres
    /\ Conflicts(r) # {}
    /\ \E x \in rows : Returned(r, "conflict", x.token)
    /\ UNCHANGED <<memory, database, expired, faults, told>>

(* The row with this key, or else the row with this jti.                   *)
CommitConflict(r) ==
    /\ At(r, "commit")
    /\ UsePostgres
    /\ \E x \in IF RowsOfKey(job[r].key) # {} THEN RowsOfKey(job[r].key)
                ELSE RowsOfToken(job[r].token) :
         Returned(r, "conflict", x.token)
    /\ UNCHANGED <<memory, database, expired, faults, told>>

(* Slip: the exception is logged and the handler goes on.                  *)
CommitFailsUnnoticed(r) ==
    /\ At(r, "commit")
    /\ UsePostgres
    /\ Fault
    /\ Returned(r, "created", job[r].token)
    /\ UNCHANGED <<memory, database, expired, told>>

(* 503, and nothing was written.                                           *)
CommitFails(r) ==
    /\ At(r, "commit")
    /\ UsePostgres
    /\ Fault
    /\ Done(r)
    /\ UNCHANGED <<memory, database, expired, told>>

(* 503, but the server had committed before the connection was lost.       *)
CommitUnacknowledged(r) ==
    /\ At(r, "commit")
    /\ UsePostgres
    /\ Fault
    /\ Insert(r)
    /\ Done(r)
    /\ UNCHANGED <<memory, expired, told>>

-----------------------------------------------------------------------------
(* Back in the handler: EXECUTED, the session object, then the answer.     *)

(* Slip: the EXECUTED key of a jti lacks the jti.                          *)
PublishAnyToken(r) ==
    known' = [known EXCEPT ![job[r].at] =
                [i \in Key \cup Offer |->
                    IF i = job[r].key \/ i \in Token THEN got[r] ELSE @[i]]]

Publish(r) ==
    known' = [known EXCEPT ![job[r].at][job[r].key] = got[r],
                           ![job[r].at][job[r].token] = got[r]]

SetOutcome(r, o) == outcome' = [outcome EXCEPT ![job[r].at][Sid(r)] = o]

PublishNew(r) ==
    /\ Move(r, "created", "snapshot")
    /\ ~IsTurn(r)
    /\ Publish(r)
    /\ SetOutcome(r, "retained")
    /\ UNCHANGED <<database, expired, faults, told>>

PublishReplay(r) ==
    /\ At(r, "conflict")
    /\ ~IsTurn(r)
    /\ Publish(r)
    /\ replays' = replays \cup {Replay(job[r].key, job[r].token, got[r])}
    /\ Done(r)
    /\ UNCHANGED <<outcome, database, expired, faults, firsts, refunded>>

(* _emotional does not look at `created`.                                  *)
PublishRefund(r) ==
    /\ Move(r, "created", "snapshot") \/ Move(r, "conflict", "snapshot")
    /\ IsTurn(r)
    /\ Publish(r)
    /\ SetOutcome(r, "instant_refund")
    /\ UNCHANGED <<database, expired, faults, told>>

(* Slip: every turn's reply says the refund is issued.                     *)
RespondRefunded(r) ==
    /\ firsts' = IF IsTurn(r) THEN firsts
                 ELSE [firsts EXCEPT ![<<job[r].key, job[r].token>>] = @ + 1]
    /\ refunded' = IF IsTurn(r) THEN refunded \cup {job[r].token} ELSE refunded
    /\ Done(r)
    /\ UNCHANGED replays

(* The reply leaves the handler: "executed", "instant_refund" or another.  *)
Respond(r) ==
    /\ firsts' = IF IsTurn(r) THEN firsts
                 ELSE [firsts EXCEPT ![<<job[r].key, job[r].token>>] = @ + 1]
    /\ refunded' = IF IsTurn(r) /\ got[r] # None
                   THEN refunded \cup {job[r].token} ELSE refunded
    /\ Done(r)
    /\ UNCHANGED replays

(* db.save_session reads the session object, then sends the UPSERT.        *)
Snapshot(r) ==
    /\ At(r, "snapshot")
    /\ UsePostgres
    /\ Goto(r, "write")
    /\ snap' = [snap EXCEPT ![r] = outcome[job[r].at][Sid(r)]]
    /\ UNCHANGED <<job, got, memory, database, expired, faults, told>>

Write(r) ==
    /\ At(r, "write")
    /\ dbOutcome' = [dbOutcome EXCEPT ![Sid(r)] = snap[r]]
    /\ Respond(r)
    /\ UNCHANGED <<memory, rows, expired, faults>>

(* 500: db._exec lets the error through.                                   *)
WriteFails(r) ==
    /\ At(r, "write")
    /\ Fault
    /\ Done(r)
    /\ UNCHANGED <<memory, database, expired, told>>

(* Without Postgres save_session does nothing.                             *)
NoWrite(r) ==
    /\ At(r, "snapshot")
    /\ ~UsePostgres
    /\ Respond(r)
    /\ UNCHANGED <<memory, database, expired, faults>>

-----------------------------------------------------------------------------
(* A negotiation turn of an existing session, as far as it touches the     *)
(* session's outcome; the turn itself is the subject of Negotiation.       *)

TurnArrive(r, w, f) ==
    /\ At(r, "idle")
    /\ Available(w, SessionOf(f))
    /\ outcome' = Loaded(w, SessionOf(f))
    /\ Begin(r, "decide", w, f, f)
    /\ UNCHANGED <<known, database, expired, faults, told>>

(* An offer, a question or a hand-over: the outcome stays as it is.        *)
TurnContinue(r) ==
    /\ Move(r, "decide", "snapshot")
    /\ UNCHANGED <<memory, database, expired, faults, told>>

(* _release or _manual_review.                                             *)
TurnConclude(r) ==
    /\ Move(r, "decide", "snapshot")
    /\ SetOutcome(r, "concluded")
    /\ UNCHANGED <<known, database, expired, faults, told>>

(* Slip: the outcome is set before the refund is committed.                *)
TurnRefundEarly(r) ==
    /\ Move(r, "decide", "commit")
    /\ known[job[r].at][job[r].key] = None
    /\ SetOutcome(r, "instant_refund")
    /\ UNCHANGED <<known, database, expired, faults, told>>

(* _emotional: the refund key is not in EXECUTED, or it is.                *)
TurnRefund(r) ==
    /\ Move(r, "decide", "commit")
    /\ known[job[r].at][job[r].key] = None
    /\ UNCHANGED <<memory, database, expired, faults, told>>

TurnRefundAgain(r) ==
    /\ At(r, "decide")
    /\ known[job[r].at][job[r].key] # None
    /\ SetOutcome(r, "instant_refund")
    /\ Goto(r, "snapshot")
    /\ got' = [got EXCEPT ![r] = known[job[r].at][job[r].key]]
    /\ UNCHANGED <<job, snap, known, database, expired, faults, told>>

-----------------------------------------------------------------------------
(* The environment: a TTL runs out, a process dies and is restarted with   *)
(* empty dictionaries; the requests it was serving get no answer.          *)

Expire(t) ==
    /\ t \notin expired
    /\ expired' = expired \cup {t}
    /\ UNCHANGED <<served, memory, database, faults, told>>

Reset(f, w, v) == [r \in Slot |-> IF job[r].at = w THEN v ELSE f[r]]

Crash(w) ==
    /\ Fault
    /\ pc' = Reset(pc, w, "idle")
    /\ job' = Reset(job, w, NoJob)
    /\ got' = Reset(got, w, None)
    /\ snap' = Reset(snap, w, "none")
    /\ known' = [known EXCEPT ![w] = [i \in Key \cup Offer |-> None]]
    /\ outcome' = [outcome EXCEPT ![w] = [s \in Session |-> "absent"]]
    /\ UNCHANGED <<database, expired, told>>

Arrive(c) ==
    \E r \in Slot, w \in Worker : AcceptReplay(r, w, c) \/ AcceptArrive(r, w, c)

(* The steps a served request takes by itself, faults left out.            *)
Step(r) ==
    \/ LookupHit(r) \/ LookupMiss(r) \/ Verified(r) \/ Rejected(r)
    \/ TokenReplay(r) \/ TokenNew(r) \/ CommitInsert(r) \/ CommitConflict(r)
    \/ PublishNew(r) \/ PublishReplay(r) \/ PublishRefund(r)
    \/ Snapshot(r) \/ Write(r) \/ NoWrite(r)
    \/ TurnContinue(r) \/ TurnConclude(r) \/ TurnRefund(r) \/ TurnRefundAgain(r)

Failure(r) ==
    \/ LookupFails(r) \/ RejectedByFault(r) \/ CommitFails(r)
    \/ CommitUnacknowledged(r) \/ WriteFails(r)

Next ==
    \/ \E c \in Call : Arrive(c)
    \/ \E r \in Slot, w \in Worker, f \in Talking : TurnArrive(r, w, f)
    \/ \E r \in Slot : Step(r) \/ Failure(r)
    \/ \E t \in Token : Expire(t)
    \/ \E w \in Worker : Crash(w)

Spec == Init /\ [][Next]_vars

(* A thread that runs goes on running, and a client that has no answer to  *)
(* a call keeps retrying it with the same key, as the 503 tells it to.     *)
Fairness ==
    /\ \A r \in Slot : WF_vars(Step(r))
    /\ \A c \in Call : SF_vars(Arrive(c))

FairSpec == Spec /\ Fairness

-----------------------------------------------------------------------------
(* Every variable stays in the set of values the code can give it.         *)
TypeOK ==
    /\ pc \in [Slot -> Pc]
    /\ job \in [Slot -> Job]
    /\ got \in [Slot -> Offer \cup {None}]
    /\ snap \in [Slot -> Outcomes]
    /\ known \in [Worker -> [Key \cup Offer -> Offer \cup {None}]]
    /\ outcome \in [Worker -> [Session -> Outcomes \cup {"absent"}]]
    /\ rows \subseteq [key : Key \cup Refund, token : Offer]
    /\ dbOutcome \in [Session -> Outcomes]
    /\ expired \subseteq Token
    /\ faults \in Nat
    /\ firsts \in [Call -> Nat]
    /\ replays \subseteq [key : Key, token : Token, offer : Offer]
    /\ refunded \subseteq Refund

(* "First time executed, the same key again already_executed": over any    *)
(* number of calls, retries, workers and crashes, one idempotency key and  *)
(* one token are answered "executed" at most once (app.accept).            *)
ExecutedOnce ==
    /\ \A c \in Call : firsts[c] <= 1
    /\ \A c, d \in Call :
         /\ firsts[c] > 0 /\ firsts[d] > 0
         /\ c[1] = d[1] \/ c[2] = d[2]
         => c = d

(* No client is ever told of an execution that is not in the executions    *)
(* table: an "executed" reply has its own row, a replay or a refund reply  *)
(* names a row that is there (EXECUTED only mirrors committed rows).       *)
AnswersCommitted ==
    /\ \A c \in Call : firsts[c] > 0 => [key |-> c[1], token |-> c[2]] \in rows
    /\ \A a \in replays : RowsOfToken(a.offer) # {}
    /\ \A f \in refunded : RowsOfToken(f) # {}

(* A conversation is reported retained, or refunded, in memory or in the   *)
(* sessions table, only if an execution of that session exists: what the   *)
(* dashboard counts has happened (app.dashboard, store.all_sessions).      *)
OutcomeBacked ==
    \A s \in Session, o \in {"retained", "instant_refund"} :
        (dbOutcome[s] = o \/ \E w \in Worker : outcome[w][s] = o)
            => \E x \in rows : SessionOf(x.token) = s /\ OutcomeOf(x.token) = o

(* A client that draws a key for each offer it accepts: no key is sent     *)
(* with two tokens.                                                        *)
OneTokenPerKey == \A c, d \in Call : c[1] = d[1] => c[2] = d[2]

(* A replay describes the offer of the token that was sent, if no key is   *)
(* used for two tokens: EXECUTED, filled from three places (app.py:590,    *)
(* 623, 645), never lends one offer's result to another offer.             *)
HonestReplay == OneTokenPerKey => \A a \in replays : a.offer = a.token

(* An already_executed reply has a cause: the key or the token of the call *)
(* has been executed, or the key stands for a token that has been.         *)
ReplayHasCause ==
    \A a \in replays :
        \/ RowsOfKey(a.key) # {}
        \/ RowsOfToken(a.token) # {}
        \/ \E b \in replays : b.key = a.key /\ b.token = a.offer /\ b.offer = a.offer

(* Every step of the handlers is a step the promise allows, or is          *)
(* invisible to clients: over retries, races, crashes, lost connections    *)
(* and expiry, the answers are those of a single ledger.                   *)
Promise == INSTANCE Redemption

KeepsPromise == Promise!Spec

(* A client that keeps retrying a call that was committed is told so, even *)
(* if the token has expired meanwhile: the key is looked up before the     *)
(* token is verified (app.accept).                                         *)
CommittedIsConfirmed ==
    \A c \in Call :
        [key |-> c[1], token |-> c[2]] \in rows
            ~> (firsts[c] > 0 \/ \E a \in replays : a.key = c[1])

-----------------------------------------------------------------------------
(* What the comments say and the code does not do (README, Disagreements). *)

(* db.execute_once records an execution "and its conversation outcome":    *)
(* once nothing is in flight, the session of an execution has an outcome   *)
(* in the sessions table.                                                  *)
OutcomeRecorded ==
    (\A r \in Slot : At(r, "idle"))
        => \A x \in rows : dbOutcome[SessionOf(x.token)] # "none"
=============================================================================
