----------------------------- MODULE ConfigStore -----------------------------
(***************************************************************************)
(* One tenant's versioned policy: PUT /api/policy publishes a version      *)
(* (app.update_policy, merchant_store.save), a conversation is pinned to   *)
(* the version that is current when it begins (app.negotiate), each of its *)
(* turns is decided with the pinned version (deps.build), and a token is   *)
(* checked against the version it was issued under (app.accept,            *)
(* guardrails.verify_offer_token).                                         *)
(*                                                                         *)
(* A slot is a request in service; it leaves the process for every query.  *)
(* A configuration is a version with the fields of MerchantConfig.  The    *)
(* automatic refund policy, one of the extras, is stored apart from it.    *)
(* A worker whose pool has not opened (db.enabled) takes itself for one    *)
(* without a database: it publishes to a list of its own.                  *)
(***************************************************************************)
EXTENDS MerchantConfig, Sequences, FiniteSets

CONSTANTS
    UsePostgres,
    Worker,        \* server processes
    Slot,          \* requests in service at the same time
    Session,       \* conversations
    Payload,       \* policies the merchant may send
    Seed,          \* rows written to the table by hand: any fields, auto
    NoAuto,        \* no automatic refund policy
    MaxVersions,   \* bound on the versions
    MaxFaults,     \* bound on crashes, workers cut off, failed reads and inserts
    None, Latest

ASSUME ConfigStoreAssumption ==
    /\ UsePostgres \in BOOLEAN
    /\ IsFiniteSet(Slot) /\ IsFiniteSet(Worker) /\ Worker # {}
    /\ Seed # {} => UsePostgres
    /\ ~UsePostgres => \A v, w \in Worker : v = w
    /\ MaxVersions \in Nat /\ MaxFaults \in Nat
    /\ None \notin Nat /\ Latest \notin Nat /\ None # Latest

VARIABLES
    pc,         \* slot -> where its request is
    job,        \* slot -> what it serves, and the version it wants
    got,        \* slot -> the configuration it was given, or None
    published,  \* the tables: the versions in the order they were written
    opened,     \* workers whose connection pool has opened
    private,    \* worker -> _MEMORY_CONFIGS
    cache,      \* worker -> version -> configuration
    extras,     \* worker -> POLICY_EXTRAS
    pinned,     \* session -> its version, or None
    seen,       \* session -> what its turns were decided with
    tokens,     \* tokens issued, each with a value at the discount cap
    refused,    \* tokens refused as over the cap
    acked,      \* publications answered with a version
    faults,
    disturbed   \* a worker was cut off, or a query failed

service == <<pc, job, got>>
stores == <<published, opened, private>>
customers == <<pinned, seen, tokens, refused>>
failures == <<faults, disturbed>>
vars == <<service, stores, cache, extras, customers, acked, failures>>

Builtin == [version |-> 0, fields |-> BuiltinFields]

ASSUME NoneAssumption == None # Builtin

Config(row) == [version |-> row.version, fields |-> Clamp(row.fields)]

Discount(cfg) == cfg.fields.values.max_discount_pct

NoJob == [kind |-> "none", at |-> None, want |-> None, about |-> None, number |-> 0,
          into |-> None]

At(r, where) == pc[r] = where
Goto(r, where) == pc' = [pc EXCEPT ![r] = where]

Done(r) ==
    /\ Goto(r, "idle")
    /\ job' = [job EXCEPT ![r] = NoJob]
    /\ got' = [got EXCEPT ![r] = None]

Kind(r, kind) == job[r].kind = kind

(* The places of a version number in a list of rows, and the first row:    *)
(* the table's primary key allows one, the process's list does not care.   *)
Places(list, v) == IF v = Latest THEN {Len(list)} \ {0}
                   ELSE {i \in DOMAIN list : list[i].version = v}

Row(list, v) == list[CHOOSE i \in Places(list, v) : \A j \in Places(list, v) : i <= j]

Init ==
    /\ pc = [r \in Slot |-> "idle"]
    /\ job = [r \in Slot |-> NoJob]
    /\ got = [r \in Slot |-> None]
    /\ published = <<>>
    /\ opened \in IF UsePostgres THEN SUBSET Worker ELSE {{}}
    /\ private = [w \in Worker |-> <<>>]
    /\ cache = [w \in Worker |-> [v \in 1..MaxVersions |-> None]]
    /\ extras = [w \in Worker |-> NoAuto]
    /\ pinned = [s \in Session |-> None]
    /\ seen = [s \in Session |-> {}]
    /\ tokens = {} /\ refused = {} /\ acked = {}
    /\ faults = IF UsePostgres THEN Cardinality(Worker \ opened) ELSE 0
    /\ faults <= MaxFaults
    /\ disturbed = (faults > 0)

Connected(r) == job[r].at \in opened

Count == faults < MaxFaults /\ faults' = faults + 1

Fault == UsePostgres /\ Count /\ disturbed' = TRUE

-----------------------------------------------------------------------------
(* merchant_store.load: version 0, cached versions and those of the        *)
(* process's own list need no query.                                       *)

InMemory(w, v) ==
    IF Places(private[w], v) = {} THEN Builtin ELSE Config(Row(private[w], v))

AtHand(w, v) ==
    IF v = 0 THEN Builtin
    ELSE IF w \notin opened THEN InMemory(w, v)
    ELSE IF v = Latest THEN None ELSE cache[w][v]

Start(r, w, kind, v, about) ==
    /\ At(r, "idle")
    /\ job' = [job EXCEPT ![r] = [kind |-> kind, at |-> w, want |-> v, about |-> about,
                                  number |-> 0, into |-> None]]
    /\ got' = [got EXCEPT ![r] = AtHand(w, v)]
    /\ Goto(r, IF AtHand(w, v) = None THEN "query" ELSE "loaded")

Loaded(r, cfg) ==
    /\ Goto(r, "loaded")
    /\ got' = [got EXCEPT ![r] = cfg]
    /\ UNCHANGED <<job, stores, extras, customers, acked>>

Cached(r, cfg) == cache' = [cache EXCEPT ![job[r].at][cfg.version] = cfg]

Table(v) == Row(published, v)
InTable(v) == Places(published, v) # {}

Find(r) ==
    /\ At(r, "query")
    /\ InTable(job[r].want)
    /\ Loaded(r, Config(Table(job[r].want)))
    /\ Cached(r, Config(Table(job[r].want)))
    /\ UNCHANGED failures

(* A pinned version is not there: the latest is asked for instead.         *)
FindMissing(r) ==
    /\ At(r, "query")
    /\ job[r].want # Latest
    /\ ~InTable(job[r].want)
    /\ job' = [job EXCEPT ![r].want = Latest]
    /\ UNCHANGED <<pc, got, stores, cache, extras, customers, acked, failures>>

(* No version has been published: the built-in default.                    *)
FindNone(r) ==
    /\ At(r, "query")
    /\ job[r].want = Latest
    /\ ~InTable(Latest)
    /\ Loaded(r, Builtin)
    /\ UNCHANGED <<cache, failures>>

(* db._query answers a failed read of the rules with no rules: clamp puts  *)
(* the protected ones back, and no others.                                 *)
Bare(row) == [version |-> row.version,
              fields |-> [values |-> row.fields.values,
                          rules |-> [c \in {} |-> Platform],
                          note |-> row.fields.note]]

FindBare(r) ==
    /\ At(r, "query")
    /\ InTable(job[r].want)
    /\ Fault
    /\ Loaded(r, Config(Bare(Table(job[r].want))))
    /\ Cached(r, Config(Bare(Table(job[r].want))))

(* It answers a failed read of the row with no row: the latest version is  *)
(* asked for instead, and then the built-in default is used.               *)
FindFails(r) ==
    /\ At(r, "query")
    /\ job[r].want # Latest
    /\ Fault
    /\ job' = [job EXCEPT ![r].want = Latest]
    /\ UNCHANGED <<pc, got, stores, cache, extras, customers, acked>>

FindLatestFails(r) ==
    /\ At(r, "query")
    /\ job[r].want = Latest
    /\ Fault
    /\ Loaded(r, Builtin)
    /\ UNCHANGED cache

-----------------------------------------------------------------------------
(* Conversations.                                                          *)

(* The first request: the session is pinned to the current version, which  *)
(* is 0 if the read fails; then its turn goes on.                          *)
Begin(r, w, s, v) ==
    /\ pinned[s] = None
    /\ pinned' = [pinned EXCEPT ![s] = v]
    /\ Start(r, w, "turn", v, s)
    /\ UNCHANGED <<stores, cache, extras, seen, tokens, refused, acked>>

Highest(list) == IF list = <<>> THEN 0 ELSE list[Len(list)].version

CurrentVersion(w) == Highest(IF w \in opened THEN published ELSE private[w])

Open(r, w, s) == Begin(r, w, s, CurrentVersion(w)) /\ UNCHANGED failures

OpenFails(r, w, s) == w \in opened /\ Begin(r, w, s, 0) /\ Fault

Turn(r, w, s) ==
    /\ pinned[s] # None
    /\ Start(r, w, "turn", pinned[s], s)
    /\ UNCHANGED <<stores, cache, extras, customers, acked, failures>>

(* A turn is decided, and may offer the most its configuration allows.     *)
Decided(r, auto) ==
    /\ At(r, "loaded")
    /\ Kind(r, "turn")
    /\ seen' = [seen EXCEPT ![job[r].about] = @ \cup {[config |-> got[r], auto |-> auto]}]
    /\ tokens' = tokens \cup {[version |-> got[r].version, discount |-> Discount(got[r])]}
    /\ Done(r)
    /\ UNCHANGED <<stores, cache, extras, pinned, refused, acked>>

(* Slip: the extras are always taken from the process.                     *)
DecideFromMemory(r) == Decided(r, extras[job[r].at]) /\ UNCHANGED failures

(* The extras are those of the version in the table; of the process, for   *)
(* the built-in default or without a database.                             *)
Stored(r) == Connected(r) /\ got[r].version # 0

Decide(r) ==
    /\ Decided(r, IF ~Stored(r) THEN extras[job[r].at]
                  ELSE IF InTable(got[r].version) THEN Table(got[r].version).auto
                  ELSE NoAuto)
    /\ UNCHANGED failures

DecideFails(r) == At(r, "loaded") /\ Stored(r) /\ Decided(r, NoAuto) /\ Fault

(* Slip: a token is checked against the current version.                   *)
AcceptLatest(r, w, t) ==
    /\ t \in tokens
    /\ Start(r, w, "accept", Latest, t)
    /\ UNCHANGED <<stores, cache, extras, customers, acked, failures>>

Accept(r, w, t) ==
    /\ t \in tokens
    /\ Start(r, w, "accept", t.version, t)
    /\ UNCHANGED <<stores, cache, extras, customers, acked, failures>>

Check(r) ==
    /\ At(r, "loaded")
    /\ Kind(r, "accept")
    /\ refused' = IF job[r].about.discount > Discount(got[r])
                  THEN refused \cup {job[r].about} ELSE refused
    /\ Done(r)
    /\ UNCHANGED <<stores, cache, extras, pinned, seen, tokens, acked, failures>>

-----------------------------------------------------------------------------
(* The merchant.                                                           *)

Publishing == {r \in Slot : Kind(r, "publish")}

Room(w) == Len(published) + Len(private[w]) + Cardinality(Publishing) < MaxVersions

(* GET /api/policy.                                                        *)
ReadPolicy(r, w) ==
    /\ Start(r, w, "read", Latest, None)
    /\ UNCHANGED <<stores, cache, extras, customers, acked, failures>>

PolicyRead(r) ==
    /\ At(r, "loaded")
    /\ Kind(r, "read")
    /\ Done(r)
    /\ UNCHANGED <<stores, cache, extras, customers, acked, failures>>

(* PUT /api/policy begins with the current configuration.                  *)
Publish(r, w, p) ==
    /\ Room(w)
    /\ Start(r, w, "publish", Latest, p)
    /\ UNCHANGED <<stores, cache, extras, customers, acked, failures>>

(* The fields of a version, and those of a payload on them.                *)
Merged(old, new) ==
    [values |-> [old.values EXCEPT !.return_window_days = new.window,
                                   !.instant_refund_cap_usd = new.cap],
     rules |-> [c \in DOMAIN old.rules \cup DOMAIN new.rules |->
                  IF c \in DOMAIN new.rules THEN new.rules[c] ELSE old.rules[c]],
     note |-> new.note]

NewFields(r) == Merged(got[r].fields, job[r].about)

(* 422: validate finds something wrong.                                    *)
Reject(r) ==
    /\ At(r, "loaded")
    /\ Kind(r, "publish")
    /\ ~Valid(NewFields(r))
    /\ Done(r)
    /\ UNCHANGED <<stores, cache, extras, customers, acked, failures>>

(* Slip: the first version is 0.                                           *)
NumberFromZero(r) ==
    /\ At(r, "loaded")
    /\ Kind(r, "publish")
    /\ Valid(NewFields(r))
    /\ Connected(r)
    /\ Goto(r, "insert")
    /\ job' = [job EXCEPT ![r].number = Len(published), ![r].into = "table"]
    /\ UNCHANGED <<got, stores, cache, extras, customers, acked, failures>>

(* The new version's number is one more than the highest there is, in the  *)
(* table or in the list of the process.                                    *)
Number(r) ==
    /\ At(r, "loaded")
    /\ Kind(r, "publish")
    /\ Valid(NewFields(r))
    /\ Goto(r, IF Connected(r) THEN "insert" ELSE "append")
    /\ job' = [job EXCEPT ![r].number = CurrentVersion(job[r].at) + 1,
                          ![r].into = IF Connected(r) THEN "table" ELSE "memory"]
    /\ UNCHANGED <<got, stores, cache, extras, customers, acked, failures>>

NewRow(r) ==
    [version |-> job[r].number, fields |-> NewFields(r), auto |-> job[r].about.auto]

(* Slip: there is no primary key.                                          *)
InsertUnchecked(r) ==
    /\ At(r, "insert")
    /\ Goto(r, "acknowledge")
    /\ published' = Append(published, NewRow(r))
    /\ UNCHANGED <<job, got, opened, private, cache, extras, customers, acked, failures>>

(* db.insert_merchant_config.                                              *)
Insert(r) ==
    /\ At(r, "insert")
    /\ ~InTable(job[r].number)
    /\ Goto(r, "acknowledge")
    /\ published' = Append(published, NewRow(r))
    /\ UNCHANGED <<job, got, opened, private, cache, extras, customers, acked, failures>>

(* 500: another publication took the number.                               *)
InsertConflict(r) ==
    /\ At(r, "insert")
    /\ InTable(job[r].number)
    /\ Done(r)
    /\ UNCHANGED <<stores, cache, extras, customers, acked, failures>>

(* 500, and nothing was written.                                           *)
InsertFails(r) ==
    /\ At(r, "insert")
    /\ Fault
    /\ Done(r)
    /\ UNCHANGED <<stores, cache, extras, customers, acked>>

(* 500, but the server had committed: the version is there.                *)
InsertUnacknowledged(r) ==
    /\ At(r, "insert")
    /\ ~InTable(job[r].number)
    /\ Fault
    /\ published' = Append(published, NewRow(r))
    /\ Done(r)
    /\ UNCHANGED <<opened, private, cache, extras, customers, acked>>

(* Without a database: the list of the process, and its cache, which is    *)
(* not read before the pool has opened.                                    *)
AppendToList(r) ==
    /\ At(r, "append")
    /\ Goto(r, "acknowledge")
    /\ private' = [private EXCEPT ![job[r].at] = Append(@, NewRow(r))]
    /\ Cached(r, Config(NewRow(r)))
    /\ UNCHANGED <<job, got, published, opened, extras, customers, acked, failures>>

(* POLICY_EXTRAS is set; the reply holds the version and, read again, the  *)
(* current policy.                                                         *)
Acknowledge(r) ==
    /\ At(r, "acknowledge")
    /\ extras' = [extras EXCEPT ![job[r].at] = job[r].about.auto]
    /\ acked' = acked \cup {[row |-> NewRow(r), into |-> job[r].into]}
    /\ job' = [job EXCEPT ![r] = [NoJob EXCEPT !.kind = "read", !.at = job[r].at,
                                               !.want = Latest]]
    /\ got' = [got EXCEPT ![r] = AtHand(job[r].at, Latest)]
    /\ Goto(r, IF Connected(r) THEN "query" ELSE "loaded")
    /\ UNCHANGED <<stores, cache, customers, failures>>

(* Something is written to the tables by hand, past every check.           *)
WriteByHand(c) ==
    /\ \A w \in Worker : Room(w)
    /\ published' = Append(published,
         [version |-> Highest(published) + 1, fields |-> c.fields, auto |-> c.auto])
    /\ UNCHANGED <<service, opened, private, cache, extras, customers, acked, failures>>

-----------------------------------------------------------------------------
(* Workers.                                                                *)

(* The pool opens at last.                                                 *)
Connect(w) ==
    /\ UsePostgres
    /\ w \notin opened
    /\ opened' = opened \cup {w}
    /\ UNCHANGED <<service, published, private, cache, extras, customers, acked, failures>>

(* A worker dies and another takes its place, with empty dictionaries.     *)
(* Without a database its conversations would be gone as well.             *)
Crash(w) ==
    /\ w \in opened
    /\ Count
    /\ pc' = [r \in Slot |-> IF job[r].at = w THEN "idle" ELSE pc[r]]
    /\ job' = [r \in Slot |-> IF job[r].at = w THEN NoJob ELSE job[r]]
    /\ got' = [r \in Slot |-> IF job[r].at = w THEN None ELSE got[r]]
    /\ private' = [private EXCEPT ![w] = <<>>]
    /\ cache' = [cache EXCEPT ![w] = [v \in 1..MaxVersions |-> None]]
    /\ extras' = [extras EXCEPT ![w] = NoAuto]
    /\ UNCHANGED <<published, opened, customers, acked, disturbed>>

-----------------------------------------------------------------------------
Arrive(r, w) ==
    \/ \E s \in Session : Open(r, w, s) \/ Turn(r, w, s)
    \/ \E t \in tokens : Accept(r, w, t)
    \/ \E p \in Payload : Publish(r, w, p)
    \/ ReadPolicy(r, w)

Step(r) ==
    \/ Find(r) \/ FindMissing(r) \/ FindNone(r) \/ Decide(r) \/ Check(r)
    \/ PolicyRead(r) \/ Reject(r) \/ Number(r) \/ Insert(r) \/ InsertConflict(r)
    \/ AppendToList(r) \/ Acknowledge(r)

Failure(r) ==
    \/ FindBare(r) \/ FindFails(r) \/ FindLatestFails(r) \/ DecideFails(r) \/ InsertFails(r)
    \/ InsertUnacknowledged(r)
    \/ \E w \in Worker, s \in Session : OpenFails(r, w, s)

Next ==
    \/ \E r \in Slot, w \in Worker : Arrive(r, w)
    \/ \E r \in Slot : Step(r) \/ Failure(r)
    \/ \E c \in Seed : WriteByHand(c)
    \/ \E w \in Worker : Connect(w) \/ Crash(w)

Spec == Init /\ [][Next]_vars

-----------------------------------------------------------------------------
Autos == {p.auto : p \in Payload} \cup {c.auto : c \in Seed} \cup {NoAuto}

ConfigType(c) == c.version \in 0..MaxVersions /\ Discount(c) \in 0..50

TokenType == [version : 0..MaxVersions, discount : 0..50]

(* Every variable stays in the set of values the code can give it.         *)
TypeOK ==
    /\ pc \in [Slot -> {"idle", "query", "loaded", "insert", "append", "acknowledge"}]
    /\ \A r \in Slot :
         /\ job[r].kind \in {"none", "turn", "accept", "publish", "read"}
         /\ job[r].want \in 0..MaxVersions \cup {Latest, None}
         /\ got[r] # None => ConfigType(got[r])
    /\ \A list \in {published} \cup {private[w] : w \in Worker} :
         /\ Len(list) <= MaxVersions
         /\ \A i \in DOMAIN list : list[i].version \in 1..MaxVersions
    /\ opened \subseteq Worker
    /\ \A w \in Worker, v \in 1..MaxVersions :
         cache[w][v] # None => ConfigType(cache[w][v]) /\ cache[w][v].version = v
    /\ extras \in [Worker -> Autos]
    /\ pinned \in [Session -> 0..MaxVersions \cup {None}]
    /\ tokens \subseteq TokenType
    /\ refused \subseteq tokens
    /\ faults \in 0..MaxFaults
    /\ disturbed \in BOOLEAN

(* All the turns of a conversation that is pinned to a published version   *)
(* are decided alike, in whatever process they run and whatever the        *)
(* merchant publishes meanwhile, the automatic refund policy included, as  *)
(* long as the workers have their database, crashes or not (deps.build).   *)
TurnsAgree ==
    ~disturbed => \A s \in Session : pinned[s] # 0 => Cardinality(seen[s]) <= 1

(* As long as they have, a token for the most its configuration allowed is *)
(* never refused as over the cap, whatever cap is in force when it is      *)
(* redeemed (L4).                                                          *)
PromisesHold == ~disturbed => refused = {}

(* A publication that went to the database and was answered with a version *)
(* number is what that number stands for from then on.                     *)
AcksInForce ==
    \A a \in acked :
        a.into = "table" => InTable(a.row.version) /\ Table(a.row.version) = a.row

(* Whatever was written to the tables and however reads fail, a turn is    *)
(* decided within the platform's bounds, with the rules that protect       *)
(* consumers and with a text for every rule a refusal may cite             *)
(* (merchant.clamp, merchant.IMMUTABLE_RULES).                             *)
DecisionsBounded == \A s \in Session : \A x \in seen[s] : Valid(x.config.fields)

(* The rows a version may have been loaded from: the table's and those of  *)
(* the worker's own list.                                                  *)
Sources(w, v) ==
    {published[i] : i \in Places(published, v)} \cup
    {private[w][i] : i \in Places(private[w], v)}

(* One bad field costs the merchant no other setting, and repairing a      *)
(* conflict loosens nothing: a value that is legal by itself is what every *)
(* request is served with.  Only the threshold of the large model may give *)
(* way.                                                                    *)
SettingsKept ==
    \A r \in Slot :
        At(r, "loaded") /\ got[r].version # 0 =>
            \E row \in Sources(job[r].at, got[r].version) :
                \A f \in Field \ {"emotion_large_model"} :
                    LET raw == row.fields.values[f] IN
                    InBounds(f, raw) /\ Whole(f, raw) => got[r].fields.values[f] = raw

(* A payload is only rejected for what it says itself: broken rows, which  *)
(* are part of the next version, never keep a merchant from publishing one *)
(* (app.update_policy validates the payload on what clamp made of them).   *)
NeverLockedOut ==
    \A r \in Slot :
        At(r, "loaded") /\ Kind(r, "publish") /\ Valid(Merged(BuiltinFields, job[r].about))
        => Valid(NewFields(r))

-----------------------------------------------------------------------------
(* What the comments say and the code does not do (README, Disagreements). *)

(* store.py:185: a conversation's rules do not change in its course.       *)
SnapshotKept == \A s \in Session : Cardinality(seen[s]) <= 1

(* merchant_store.py:22: versions are immutable, so the cache may last.    *)
CacheFaithful ==
    \A w \in Worker, v \in 1..MaxVersions :
        cache[w][v] # None /\ InTable(v) => cache[w][v] = Config(Table(v))

(* app.py:599: what a customer was promised survives a lower cap, whatever *)
(* goes wrong when the token is redeemed.                                  *)
PromisesHoldAlways == refused = {}

(* merchant_store.py:138: save returns the number of a version that has    *)
(* been inserted, to whatever worker the merchant talks.                   *)
AcksAlwaysInForce ==
    \A a \in acked : InTable(a.row.version) /\ Table(a.row.version) = a.row

(* merchant_store.py:23: a version number stands for one version, in the   *)
(* list of a process without a database too.                               *)
NumbersUnique ==
    \A w \in Worker : \A i, j \in DOMAIN private[w] :
        private[w][i].version = private[w][j].version => i = j

(* tests/test_e2e.py:149: the automatic refund policy of the published     *)
(* version is the one that turns are decided with.                         *)
PolicyControlsRefunds ==
    \A s \in Session : \A x \in seen[s] :
        InTable(x.config.version) => x.auto = Table(x.config.version).auto
=============================================================================
