# Return Saver: verification project

Return Saver negotiates with customers who want to return a purchase: it
classifies the message, confirms the order, checks the merchant's rules, makes
at most a few offers, and executes the one the customer accepts. This directory
holds TLA+ models of its logic, TLC configurations that check them on small
instances, and TLAPS proofs that hold for every instance. Paths such as
`app.py:584` are relative to `src/`.

Parse, check and prove (from this directory):

    tlasany Execution.tla
    tlc -config Execution_promise.cfg MCExecution.tla
    tlapm ExecutionProofs.tla

`PROJECT.json` lists every run, what it checks, the mutant that shows each
property can fail, the hazards behind the properties, and the source lines of
each definition.

## The program

FastAPI serves plain `def` handlers on a thread pool, so several requests run
in one process and may be switched between any two steps. A deployment may have
several worker processes. State is kept in module-level dictionaries, with no
locks, and, if `DATABASE_URL` is set, in Postgres as well.

| Component | State | Operations | Talks to |
|---|---|---|---|
| Execution layer (`app.accept`, `app._emotional`, `db.execute_once`) | `store.EXECUTED`, table `executions` | redeem a token under an idempotency key; instant refund | session store, tokens, configuration |
| Negotiation (`app._negotiate`) | the `Session` object: turns, round, intent, reason, emotion, order, outcome | one turn per request: classify, verify, confirm, decide, offer / refund / review / release | policy, models, execution, queue, session store |
| Policy (`policy.py`) | none | eligibility, scenario, triage, resolution | configuration |
| Routing and intent (`llm.py`) | none | keyword rules, small model, choice of the generation tier | model provider |
| Guardrails and tokens (`guardrails.py`) | none (signed tokens) | check a generated proposal; issue and verify tokens | configuration |
| Configuration (`merchant_store.py`, `merchant.py`, `deps.py`) | `_CACHE`, `_MEMORY_CONFIGS`, `POLICY_EXTRAS`, tables `rs_merchant_config`, `rs_merchant_rule`, `rs_policy_extras` | current version, load, save, pin to a session | database |
| Specialists' queue (`app._manual_review`, `db.enqueue_ticket`) | `MANUAL_QUEUE`, table `manual_tickets` | open or find a ticket | database |
| Session store (`store.py`, `db.save_session`) | `SESSIONS`, table `sessions` | new, load, persist | database |
| Metrics (`metrics.py`) | `_M`, `_SEEN` | record or re-record a conversation | none |
| Authentication, dashboards, observability, admin pages, scripts | none that the rest reads | | |

What makes it hard:

* *Concurrency.* Checks and updates of dictionaries are not atomic; a turn
  reads the session, leaves the process for a model or a query, and writes
  later. Only Postgres constraints serialise anything.
* *Failure.* Reads that fail look like empty answers (`db._query`), writes that
  fail raise (`db._exec`), a commit may succeed although the client sees 503,
  and a restart empties every dictionary.
* *Ordering.* `save_session` writes the whole row from what the process knows;
  tokens outlive turns, and configuration versions outlive publications.

What makes each part correct is stated with the properties below.

## Modules

| Module | Models | Composes / extends |
|---|---|---|
| `Execution` | the execution layer with the session outcome, several workers, faults | refines `Redemption` |
| `Redemption` | what that layer promises its clients: one ledger, no processes | |
| `Policy` | `policy.py` and `llm.route_generation` as operators | |
| `Negotiation` | one conversation with overlapping turns | extends `Policy` |
| `MerchantConfig` | `merchant.validate` and `clamp` as operators | |
| `ConfigStore` | one tenant's versions, pinned conversations, tokens, publications | extends `MerchantConfig` |
| `SessionStore` | `SESSIONS` of every worker and the table `sessions` | refines `DurableSession` |
| `DurableSession` | what the store promises of a conversation: one session that survives restarts | |
| `Metrics` | `record_conversation` under the turns that call it, and a dashboard read meanwhile | |
| `Tickets` | the specialists' queue | |
| `ExecutionProofs`, `PromiseProofs`, `NegotiationProofs`, `TicketsProofs`, `MerchantConfigProofs`, `ConfigStoreProofs`, `SessionStoreProofs`, `MetricsProofs` | theorems | each extends the module it is named after; `PromiseProofs` extends `ExecutionProofs`, `ConfigStoreProofs` also `MerchantConfigProofs` |
| `MCExecution`, `MCNegotiation`, `MCConfigStore`, `MCSessionStore`, `MCMetrics`, `MCTickets` | instances for TLC | |

Common to all: a *slot* is a request in service, `pc[slot]` is where it is, and
`"idle"` means that there is none. Slots are reused, so the number of requests
is not bounded. A step ends where the handler leaves the process (a query, a
model call) or where another thread can make a difference. A fault is a step of
its own, and `MaxFaults` bounds their number. Definitions marked *Slip* are not
part of the specification: they are the mistakes the mutants put in the place
of a definition. The other bounds are named where they are declared.

### Execution

| TLA+ | Code |
|---|---|
| `known[w]` | `store.EXECUTED` of worker `w`: idempotency keys, `jti:` keys and refund keys, with the offer of the result |
| `rows` | table `executions`; without Postgres only a record of what took place |
| `outcome[w]`, `dbOutcome` | `session.outcome` of the worker's object (`"absent"`: not in `SESSIONS`), and the column |
| `AcceptReplay`, `AcceptArrive`, `LookupHit`, `LookupMiss`, `LookupFails` | `app.accept` down to `verify_offer_token` |
| `Verified`, `Rejected`, `RejectedByFault` | token and session checks: 403, 409, 422 |
| `TokenReplay`, `TokenNew` | the `jti:` lookup |
| `CommitInsert`, `CommitConflict`, `CommitFails`, `CommitUnacknowledged` | `db.execute_once`: one transaction, decided by the two UNIQUE constraints |
| `PublishNew`, `PublishReplay`, `PublishRefund` | back in the handler: `EXECUTED`, the session |
| `Snapshot`, `Write`, `WriteFails`, `NoWrite` | `db.save_session`: read the object, then send the UPSERT |
| `TurnArrive` ... `TurnRefundAgain` | a negotiation turn as far as it touches the outcome |
| `Expire`, `Crash` | the TTL; a worker dies and restarts empty |

The value, order and offer of an execution are those of its token. A signature
cannot be forged: calls carry tokens that were issued.

Not represented: a worker whose connection pool has never opened (it skips
`save_session` silently; `execute_once` raises, which is `CommitFails`), and two
`Session` objects of one session inside one worker. Both are in `SessionStore`.

### Negotiation and Policy

| TLA+ | Code |
|---|---|
| `turns` ... `outcome` | fields of `Session`; `turns` stops one above the limit because it is only compared with it |
| `offers`, `refunds`, `tickets`, `freed` | what the customer was told, in order |
| `ArriveReleased` | `app.py:301-309`, then `_release` |
| `ArriveConfirming`, `ArriveSpeaking` | the classification is skipped, or starts |
| `Classify`, `Feel`, `PassOn` | `app.py:315-323`: intent and reason are written, the emotion is read and later written |
| `ReadCustomer`, `ReadOrders`, `LookUp`, `Confirm` | S2 and S3 (`app.py:327`, `328`, `344`, `360`): three queries, each about the customer the session has at that moment, and the comparison of the order's customer with that of the session, after which the session has the order |
| `customer` | the customer whose attributes the turn has read, and whether the session was given to another one before the order was settled |
| `AskAgain`, `VerifyFails` | no recent order, no order named, or not the customer's; a read of the orders fails and looks like one of these |
| `ReadCustomerMissing`, `missing` | a read of the customer's attributes, or of the policy extras, fails and looks empty: an ordinary customer (`db.py:389`), or no special rules and the default for automatic refunds |
| `HoldOut`, `ToReview`, `ToRefund`, `GiveUp`, `AskModel`, `UseTemplate` | S4 and S5, up to the next departure |
| `MakeOffer`, `Block` | the model's proposal passes L2 and L3, or does not |
| `Escalate`, `IssueRefund`, `CommitFails` | ticket or refund committed, or 503 |

A message is what the keyword rules find in it: a reason, whether it asks for a
return, and an anger in percent. The small model's answer, its fallback
included, is any member of `ModelAnswer`. Money is in cents. The control group
is a free choice per conversation; an exhausted cost budget is a free choice per
turn (`UseTemplate`). `OrdersInTable` tells the queries of production from the
dictionaries of the demonstration (`ENV=dev`, or no database), which do not fail,
know no attributes of nobody, and find an order whoever asks for it.

### MerchantConfig and ConfigStore

`MerchantConfig` has the numeric fields of a configuration in hundredths of
their unit, `NaN` for what `_coerce` finds to be no number, and texts as `Blank`,
`Platform` (the platform's own) or a text of the merchant. `Valid` is
`merchant.validate`, with one member of `Violations` for each `Violation`;
`ClampValue`, `OrderEmotions` and `ClampRules` are the three parts of
`merchant.clamp`.

| TLA+ | Code |
|---|---|
| `published`, `private[w]` | tables `rs_merchant_config`, `rs_merchant_rule`, `rs_policy_extras`; `_MEMORY_CONFIGS` |
| `opened` | the workers for which `db.enabled()` holds |
| `cache[w]`, `extras[w]` | `_CACHE`, `POLICY_EXTRAS` |
| `pinned`, `seen`, `tokens`, `refused` | `session.config_version`; what turns were decided with; tokens with a value at the discount cap; those refused as over the cap |
| `Start`, `AtHand`, `InMemory` | `merchant_store.load` as far as it needs no query |
| `Find`, `FindMissing`, `FindNone`, `FindBare`, `FindFails`, `FindLatestFails` | the outcomes of its queries: the row, a pinned version that is not there (the latest is asked for), no version at all, the row without its rules, nothing; a failed query looks like an empty one |
| `Open`, `OpenFails`, `Turn`, `Decide`, `DecideFails` | pin a session, decide a turn (`deps.build`), with its extras |
| `Accept`, `Check` | redeem a token under the version in it |
| `Publish`, `Reject`, `Number`, `Insert` ..., `AppendToList`, `Acknowledge` | `PUT /api/policy`: load, merge (`Merged`), `validate`, number, insert, set `POLICY_EXTRAS`, read again |
| `WriteByHand` | rows that do not come from the API: out of bounds, not numbers, without rules |
| `Connect`, `Crash` | the pool opens; a worker dies and restarts with empty dictionaries |

A worker whose pool has not opened takes itself for one without a database. It
counts as a fault, and so does a crash; `disturbed` tells the failures that are
not crashes. A session is taken to be known to every worker that a turn is sent
to: `SessionStore` says when it is.

### SessionStore and DurableSession

| TLA+ | Code |
|---|---|
| `heap`, `sessions[w]`, `rows` | `Session` objects; `SESSIONS`; table `sessions` |
| `job[r].ref`, `job[r].snap` | the object a request holds; the values `save_session` has read |
| `Open`, `Arrive`, `LoadHit`, `LoadMiss`, `LoadFails` | `new_session`, `get_session`, `load_session` with `_query`'s empty answer for a failed read |
| `Count`, `Work`, `Leave` | `session.turns += 1`, the outcome, the early ends of a handler |
| `Commit`, `CommitUnacknowledged`, `RefundAgain`, `Publish` | `execute_once` as far as it writes `sessions.outcome`, and the assignment after it |
| `Read`, `Write`, `WriteFails`, `Skip` | `persist`: the values are read, then the UPSERT is sent; nothing without a pool |
| `Connect`, `Crash` | as above; the objects of a dead worker are gone |

An object exists as long as a request or `SESSIONS` refers to it. Of the fields,
`turns` stands for all that grows, `outcome` is what others write too, and `pin`
(tenant and version) is what the UPSERT does not update.

`DurableSession` is a conversation as its customer may think of it: one session
that is worked on, saved before an answer leaves, and continued from what was
saved. `StaysDurable` maps `SessionStore` to it: `current` is the one live object
or else the row. Two kinds of conversations are off its books, and named by
history variables: `unsaved` ones, answered by a worker without its database, and
`loose` ones, served twice at once, held by two workers, or with an execution
whose commit was not acknowledged. For each of these the promise is broken by
some behaviour (Disagreements).

### Metrics

`Look`, `Withdraw`, `WithdrawShares`, `Apply`, `StartScenario`, `StartAction`,
`FinishApply` and `Keep` are the steps of `record_conversation`, which a thread
switch may separate at its calls of functions. `_apply` is cut where `round` is
called between the reading and the writing of the cost, and where
`Counter.__missing__` is called between the reading and the writing of a counter
that is not there yet: `keys` are the scenarios and actions that have one, `torn`
those that two records began to count at once. `Release` ... `Emotional` are the
places in `app.py` that record, with the scenario and action they pass; `Review`
is what they leave unrecorded, `Commit` and `CommitFails` what happens after an
emotional turn has been recorded. `crossed` and `raced` note which records
overlapped. The counters by scenario and by action are one function, `counts`,
with the shares that `snapshot` divides.

`Snapshot` and `Show` are the two ends of `metrics.snapshot`: the denominators are
read into `view`, and records may proceed before the numerators are read. Only
the two deflection rates are looked at; averages have no bounds of their own.
`Spent` is the sum of the costs of what is counted, as a set with an element for
each unit of each cost, whose size can be reasoned about.

### Tickets

`ReviewQueued` and `ReviewUnknown` search `MANUAL_QUEUE`; `AskHit`, `AskMiss` and
`AskFails` are `db.get_open_ticket`; `Enqueue`, `EnqueueConflict`, `Select` and
`SelectNone` are the two statements of `db.enqueue_ticket`; `AppendTicket` and
`Respond` end the turn. Only what `enqueue_ticket` returned is put into
`MANUAL_QUEUE`, not what `get_open_ticket` found. `Resolve` is a specialist, outside this code. The queue
is a set: its order only matters when it holds two tickets of one case, and then
either may be quoted.

## What is checked

Passing runs (distinct states, rounded):

| Run | Properties | What it shows | States |
|---|---|---|---|
| `Execution_promise` | `KeepsPromise`, `ExecutedOnce`, `HonestReplay` | refinement of `Redemption`; 3 keys for 2 tokens, 2 requests, 2 faults, a crash among them | 600 k |
| `Execution_outcome` | `TypeOK`, `AnswersCommitted`, `OutcomeBacked` | an acceptance and refund turns on one session, 2 workers, 1 fault | 1.4 M |
| `Execution_retry` | `CommittedIsConfirmed` | liveness of retries, 2 workers, 2 faults, expiry | 23 k |
| `Execution_memory` | `ExecutedOnce`, `ReplayHasCause` | no database, one request at a time, one key for two tokens | 6 k |
| `Negotiation_policy` | `TypeOK`, `ConfirmedOnly`, `CalmOffers`, `StepUp`, `RefundsQualify` | one turn at a time; 3 order numbers, 2 customers or none, 5 messages, 4 turns, 2 rounds, 1 fault, automatic refund after one attempt | 849 k |
| `Negotiation_overlap` | `OffersBounded`, `RefundsQualify`, `ConfirmedOnly`, `Freed` | two overlapping turns, a customer with the risk flag and one without orders, either of whom a request may name; `Freed` is the liveness of the limits | 310 k |
| `ConfigStore_versions` | `TypeOK`, `TurnsAgree`, `PromisesHold`, `AcksInForce`, `DecisionsBounded`, `SettingsKept`, `NeverLockedOut` | 2 workers, 2 requests, 2 versions, published or written by hand, a payload that is invalid, a broken row; 1 crash, failed query, or worker without its database | 509 k |
| `SessionStore_durable` | `TypeOK`, `PinsAgree`, `Remembered`, `StaysDurable` | refinement of `DurableSession`; one conversation, 2 workers, 2 requests, 2 turns, crashes without bound, 1 fault | 1.3 M |
| `Metrics_tally` | `TypeOK`, `CountersAgree`, `RatesInRange`, `CostAgrees` | 3 turns of up to 3 conversations, one in the control group, 2 threads, restarts without bound, dashboards read meanwhile | 1.9 M |
| `Tickets_review` | `TypeOK`, `OneReview`, `QuotedIsFiled` | 2 workers, 2 turns, 2 cases, 1 resolution, 2 faults | 126 k |

**Disagreements** between the code and what the repository says of it. Two
have a run of their own (the quotes are in `PROJECT.json`, `findings`):

| Run | Property | Shortest story |
|---|---|---|
| `Negotiation_voiced` | `AngryNotRetained` | anger in a message that confirms an order is not heard (`app.py:314`) |
| `ConfigStore_cache` | `CacheFaithful` | a version read without its rules is cached for good (`merchant_store.py:112`) |

The others can be seen by changing a configuration as said here. TLC then stops
with the story.

| Change | Story |
|---|---|
| `Execution_outcome`: `INVARIANT OutcomeRecorded` | a turn whose UPSERT was read before an acceptance erases the outcome `execute_once` has recorded (`db.py:94`, against `db.py:140`) |
| `Execution_memory`: `Slot = {r1, r2}` | no database: two calls with one key are both answered `executed` (`app.py:584`, against `README.md:242`) |
| `Execution_memory`: `UsePostgres = TRUE`, `Worker = {w1, w2}`; `INVARIANT ReplayHasCause` | a conflict on a key that another token has used records the wrong result under this token's `jti:` (`app.py:646`); the token can no longer be redeemed in that process |
| `Negotiation_overlap`: `INVARIANT RoundLimit` | two turns pass the round check together (`app.py:306` and `427`, against `README.md:306`) |
| `Negotiation_overlap`: `PROPERTY EmotionNeverFalls` | `session.emotion = max(...)` loses an update (`app.py:318`, against its own comment) |
| `Negotiation_policy`: `INVARIANT RoundsAreOffers` | a generation that the guardrails block has spent a round (`app.py:427`, against `README.md:263`) |
| `Negotiation_policy`: `INVARIANT OnlyCandidates` | an order older than 60 days is confirmed by its number (`app.py:344`, against `policy.py:23`) |
| `Negotiation_policy`: `INVARIANT RefundsAlwaysQualify` | a failed read of the extras looks like a tenant without limits of its own: a refund is issued that the merchant's policy does not allow (`policy.py:121`, against `policy.py:107`) |
| `Negotiation_overlap`: `Slot = {r1}`, `MaxFaults = 1`; `INVARIANT RefundsAlwaysQualify` | a failed read of the customer's attributes looks like a customer without the risk flag: a refund is issued that a specialist should have seen (`db.py:446`, against `policy.py:107`) |
| `Negotiation_overlap`: `INVARIANT FlagHeeded` | a turn reads the attributes of one customer, an overlapping one gives the session to another with the risk flag, and the first refunds the flagged one's order, with every read answered (`app.py:327` to `360`, against `policy.py:107`) |
| `ConfigStore_versions`: `INVARIANT SnapshotKept` | extras change under a conversation pinned to version 0 (`deps.py:86`, against `store.py:185`) |
| `ConfigStore_versions`: `INVARIANT PromisesHoldAlways` | a failed read at redemption uses another version's cap (`merchant_store.py:96`, against `app.py:599`) |
| `ConfigStore_versions`: `INVARIANT PolicyControlsRefunds` | a failed read of the extras looks like a tenant who has none: the default for automatic refunds applies instead of the merchant's policy (`policy.py:121`, against `tests/test_e2e.py:149`) |
| `ConfigStore_versions`: `INVARIANT AcksAlwaysInForce` | a worker that has not reached its database answers a publication with a version number that exists in its own memory only (`merchant_store.py:145`, against `merchant_store.py:138`) |
| `ConfigStore_versions`: `UsePostgres = FALSE`, `Worker = {w1}`, `Seed <- NoSeeds`; `INVARIANT NumbersUnique` | no database: two publications take one number (`merchant_store.py:147`, against `merchant_store.py:23`) |
| `SessionStore_durable`: `INVARIANT AnsweredKept` | two workers, or two threads after a restart, hold objects of one session; the one that saves later takes turns back that had been answered (`store.py:231`, against `store.py:222`) |
| `SessionStore_durable`: `PROPERTY OutcomeKept`, no `SYMMETRY` | a save that was read before an execution, or follows one that was not acknowledged, erases its outcome (`db.py:94`, against `db.py:140`) |
| `Metrics_tally`: `INVARIANT FinalOutcome` | a refund that ends in a 503, and a review that is not recorded, leave the conversation counted as something else (`app.py:521`, `383`, against `metrics.py:37`) |
| `Metrics_tally`: `INVARIANT HoldoutsCounted` | a conversation that is released first and then falls into the control group is not counted there (`metrics.py:67`, against `metrics.py:30`) |
| `Metrics_tally`: `INVARIANT KindsAgree` | the first two records of a scenario, of different conversations, both read no counter and write 1 (`metrics.py:43`, against `metrics.py:36`) |
| `Metrics_tally`: `MaxTurns = 4`, `Session = {s1, s2}`, `Control = {s2}`; `INVARIANT KindsNotNegative` | both conversations then end as something else, and the counter is at -1 (`metrics.py:43`, against `metrics.py:118`) |
| `Metrics_tally`: `INVARIANT RatesBelowOne` | conversations begin between the reading of a dashboard's denominator and of its numerator: a rate of more than one is shown (`metrics.py:92` against `110`) |
| `Metrics_tally`: `INVARIANT CountedOnce` | two records of one conversation both see no previous one (`metrics.py:65`, against `metrics.py:63`) |
| `Metrics_tally`: `INVARIANT CostAlwaysAgrees` | two records of different conversations: one cost is lost between the reading and the writing of the total (`metrics.py:46`) |
| `Tickets_review`: `PROPERTY QuotedIsPending`, no `SYMMETRY` | a resolved case is quoted as one under review (`app.py:200`, against the reply at `app.py:236`) |
| `Tickets_review`: `UsePostgres = FALSE` | no database: two turns open two tickets (`app.py:196`, against `app.py:191`); `OneReview` |

**Why the bounds are enough.** The races are between a check and an update, or
a read and a write: two requests and two workers produce them, a third repeats
them. Keys and tokens matter only through being the same or different, so two
or three of each give every pattern (one key for two tokens, two keys for one).
Two faults allow a lost commit and then a failing lookup or a crash; a crash
empties `EXECUTED`, so that one worker that crashes meets the table as a second
worker would. Three overlapping turns, more workers, more faults and more keys are
covered by the proofs.

Two orders of the customer and a foreign one give a change of mind, a mistake and
an old order; four turns and two rounds give an offer, a change of order and a
second offer before the limits. In `Negotiation_policy` alice is an ordinary
customer, so that offers and refunds are made, bob has no orders, and a request
may name neither; turns do not overlap there, and reads fail. In
`Negotiation_overlap` alice has the risk flag, and bob may be named between any
two steps of a turn, so that her refund is only issued by a turn that has read
bob's attributes; no read fails there (failures and overlap together are covered
by the proofs). The dictionaries of the demonstration (`OrdersInTable = FALSE`) are
met in `Negotiation_voiced`.

Two versions, with the
built-in default, give an old, a pinned and a current configuration; the second
payload of the instance is invalid, the row written by hand is out of bounds in
one field, no number in another, in conflict in a third, and lacks the protected
rule. `TurnsAgree` and `PromisesHold` are claimed while `disturbed` is false: the
disagreements above are what a failure does to them. The in-memory mode of
`ConfigStore` and `Tickets` is only met in the disagreements: with overlapping
requests it keeps neither promise.

One conversation is enough for `SessionStore`: its sessions share nothing but
workers and their pools. Two workers and two requests give two objects of one
session in one worker, or in two, and a third that is loaded after a crash; four
objects are as many as can be referred to at once.

In `Metrics` a conversation may cost two units, which is two records:
three turns give a first record, a second one that withdraws it,
and another conversation's in between, or the first records of three conversations
around a dashboard; `stale` conversations come from one scenario of those that are
not recorded, and every turn costs the same. A dashboard is only begun before the
last turn, at any step of the two before it: their records, the last one, or all
three fall between its denominators and its numerators.

Symmetry is used on workers, slots and ticket numbers, in `SessionStore_durable`
also on sessions and pins, in `Metrics_tally` on the conversations outside the
control group, and only in runs of invariants and of `StaysDurable`,
which has no liveness part: it is a condition on the initial states and on steps.

**Fairness.** `Execution!FairSpec`: a thread that serves a request goes on
(`WF` on its steps), and a client without an answer sends the call again, as the
503 asks it to (`SF` on its arrival, since a request may find every slot
taken). `Negotiation!FairSpec`: turns in service go on, and the customer goes on
writing, with any message. No fairness is assumed of faults, expiry, merchants
or specialists.

## What is proved

Every safety invariant of the passing runs, and both refinements, hold for all
values of the constants that satisfy the assumptions in the modules: any numbers
of workers, requests, sessions, versions, faults and so on. Where a theorem needs
more, its hypothesis is in the table.

| Theorem | Statement |
|---|---|
| `ExecutionProofs!TypeCorrect` | `Spec => []TypeOK` |
| `ExecutionProofs!AnswersAreCommitted` | `Spec => []AnswersCommitted` |
| `ExecutionProofs!OutcomesAreBacked` | `Spec => []OutcomeBacked` |
| `PromiseProofs!ExecutesOnce` | with Postgres, `Spec => []ExecutedOnce` |
| `PromiseProofs!ExecutesOnceAlone` | without Postgres, one process and one request at a time (`Alone`), `Spec => []ExecutedOnce` |
| `PromiseProofs!RepliesAreHonest` | `Spec => []HonestReplay` |
| `PromiseProofs!ReplaysHaveACause` | without Postgres, or with one token per key, `Spec => []ReplayHasCause` |
| `PromiseProofs!ImplementsRedemption` | with Postgres and one token per key, `Spec => KeepsPromise` |
| `NegotiationProofs!TypeCorrect` | `Spec => []TypeOK` |
| `NegotiationProofs!OffersAreBounded` | `Spec => []OffersBounded`, for any number of overlapping turns |
| `NegotiationProofs!OnlyConfirmed` | `Spec => []ConfirmedOnly`, likewise |
| `NegotiationProofs!RefundsKeepLimits` | `Spec => []RefundsQualify`, likewise; the flag is only promised of a turn during whose reads the session keeps its customer |
| `NegotiationProofs!AngerIsKept` | without overlap (`OneTurn`), `Spec => []CalmOffers` |
| `NegotiationProofs!HagglingStepsUp` | without overlap, `Spec => []StepUp` |
| `TicketsProofs!TypeCorrect` | `Spec => []TypeOK` |
| `TicketsProofs!QuotesAreFiled` | `Spec => []QuotedIsFiled` |
| `TicketsProofs!ReviewsAreUnique` | with Postgres, `Spec => []OneReview` |
| `MerchantConfigProofs!ClampIsValid` | `Valid(Clamp(row))`, whatever `row` is |
| `MerchantConfigProofs!ClampKeepsSettings` | a value that is legal by itself is not changed, the large model's threshold excepted |
| `MerchantConfigProofs!ClampKeepsValid` | what is valid is left as it is |
| `ConfigStoreProofs!TypeCorrect` | `Spec => []TypeOK` |
| `ConfigStoreProofs!AnswersStand` | `Spec => []AcksInForce` |
| `ConfigStoreProofs!DecidedInBounds` | `Spec => []DecisionsBounded` |
| `ConfigStoreProofs!NoSettingLost` | `Spec => []SettingsKept` |
| `ConfigStoreProofs!AlwaysRepairable` | `Spec => []NeverLockedOut` |
| `ConfigStoreProofs!TurnsDecidedAlike` | with Postgres, `Spec => []TurnsAgree` |
| `ConfigStoreProofs!PromisesKept` | with Postgres, `Spec => []PromisesHold` |
| `SessionStoreProofs!TypeCorrect` | `Spec => []TypeOK` |
| `SessionStoreProofs!PinnedIsPinned` | `Spec => []PinsAgree` |
| `SessionStoreProofs!NeverForgotten` | `Spec => []Remembered` |
| `SessionStoreProofs!ImplementsDurableSession` | `Spec => StaysDurable` |
| `MetricsProofs!TypeCorrect` | `Spec => []TypeOK` |
| `MetricsProofs!CountersAreTrue` | `Spec => []CountersAgree`: no overlap of two records of one conversation; kinds in `torn` count at most as many |
| `MetricsProofs!RatesAreInRange` | `Spec => []RatesInRange`: likewise; a denominator that has been overtaken bounds nothing |
| `MetricsProofs!CostsAddUp` | `Spec => []CostAgrees` |

The arguments:

* *Execution.* `AnswersCommitted` is not inductive: an answer is given from
  `got`, `EXECUTED` or a row. `Backed` says that each of these names a committed
  row (`KnownBacked`, `SlotBacked`, `RowsBacked`, `ToldBacked`) and each outcome,
  in memory, in a snapshot or in the table, has its execution
  (`OutcomesBacked`); `Shape` says what a request carries at each step.
* *Promise.* `Ledger` adds that keys and tokens are unique in the table
  (`RowsUnique`) and that a row is about to be answered, or was answered,
  `executed` at most once (`OneAnswer`). `Honest` says that under one token per
  key every entry of `EXECUTED` describes its own token. With both, each step is
  a step of `Redemption` or leaves its variables alone.
* *Without Postgres* nothing refuses a second row, and the steps of `Ledger` only
  need that none is attempted (`Uncontested`). `Mirrored` provides it for a
  process with one request at a time: the key and the token of every row are in
  `EXECUTED`, but for the row whose request has yet to enter them, and but for a
  crash, which takes the sessions away with `EXECUTED`, so that no call gets past
  verification. `Caused` traces every entry of `EXECUTED` under a key to
  a row of that key, or to a replay that told of the token before; entries under a
  token are backed by `Backed`.
* *Negotiation.* `Counted` bounds the offers made plus the turns that are about
  to make one by the round counter, and the counter by the limit plus the turns
  that passed the check; the last turn to pass it did so below the limit. `Named`
  says that the order of the session, of a request and of a turn that decides has
  been confirmed. `Cleared` says that a refund on its way to the database
  qualifies; it still does when it arrives, because attempts only become more. For
  the risk flag it follows the three queries of a turn (`ReadRight`): as long as the
  session is not given to another customer, the one whose attributes were read is
  the session's, and after the comparison of `app.py:360` the order's.
* *Negotiation, without overlap.* `Watched`: a turn that began with the anger on
  record does not lower it (`feel` writes the maximum) and never writes an offer.
  `Ladder`: the credits made are not above the present step of the ladder, and the
  one being written is on it; the cap of an order does not change, and
  percentages grow with their rate (`PercentGrows`). With overlap both are false,
  as TLC finds: a turn writes an emotion it has read before another's
  (`Negotiation_overlap` with `INVARIANT CalmOffers`), and offers are made in
  another order than their rounds were counted (`StepUp` in `Negotiation_policy` with
  `Slot = {r1, r2}` and, to be quick, `OrderId = {recent}`, `Names = {alice}`,
  `MaxFaults = 0`, `AutoRefund = NoAuto`).
* *Tickets.* `Filed` says that what a turn is going to quote is a row about its
  case; `OneOpen` that at most one row of a case is open.
* *Configuration values.* Bounds of whole fields are whole (`BoundsSound`), so
  that truncation does not leave them (`Truncation`); a clamped value is legal and
  a legal value is kept (`ClampedValueLegal`, `LegalValueKept`). The two emotion
  thresholds cannot be repaired independently: `OrderedEmotions` shows that
  lowering the one below the other stays within its bounds, because the lowest
  hard stop is above the lowest threshold by more than the gap.
* *Configuration store.* `Held`: the table numbers its rows without gaps
  (`Numbered`) and has room for what is being published (`Fitting`, for the
  types); every configuration that a cache, a list or a request has was made by
  `Clamp` from a row that is still where it was found (`Caches`, `SlotOK`, where
  the theorems about `Clamp` come in); what was acknowledged is in the table
  (`Acks`). `Calm` adds, while `disturbed` is false, that all this is about
  *the* row of its version (`FreshCaches`, `Pins`, `Alike`, `Worth`,
  `CalmSlot`): then two turns of a conversation cannot be decided differently,
  and a token is checked against the cap it was issued under. Both need a
  database: the list of a process may give one number to two rows.
* *Session store.* `Held`: an object that a request or `SESSIONS` refers to is
  alive, is about that conversation, and has its pin, as every row and snapshot
  has (`Shelved`, `Collected`, `Pinned`, `SlotOK`); by counting references there
  is always a free object (`FreeExists`, the assumption on `Object`). `Solitude`
  says of a conversation on the books that it is served by one request and held by
  that request's worker (`Owns`), whose snapshot is its object (so that no save
  takes anything back), and that an outcome in the table is in memory too, or
  about to be (`Concluded`). With both, each step is one of `DurableSession` or
  leaves the book alone.
* *Metrics.* The counters are wrong in the middle of a record. `Tally` says how: a
  conversation is counted under its previous record until that is withdrawn,
  under nothing then, and under the new one after it has been applied, scenario,
  action and shares one after the other; every counter is the number of
  conversations counted under it at the moment, or less for a kind in `torn`.
  `Keyed` says that what is withdrawn has a counter. The bounds of a dashboard's
  rates follow from the counters when its numerators are read: those counted as
  deflected are among the conversations, and the addressable ones of them among
  the addressable. `Billed` says the same of the total cost, with
  the amount that the record in progress has yet to add (`Due`) and the total that
  it has read.

What the assumptions say beyond bounds and disjoint names: the constants of
`Negotiation` (orders, configuration, answers, the automatic refund policy) have
the shapes that their parsers give them; there is a worker; without Postgres there
is one process; `Offers` pairs addressable scenarios with deflecting actions;
there are as many objects as can be referred to at once; and `None` is none of the
values it stands beside. TLC evaluates all of them on every run.

Only model-checked: the two liveness properties, `CommittedIsConfirmed` and
`Freed`, since TLAPS proves nothing about fairness that has to do with `ENABLED`.
A sum over a set is a fold, whose values could only be proved by induction over
data; hence `Spent`. The properties listed as disagreements are false.

## Not modelled

* Texts, prompts, localisation, regular expressions, prices and the HTTP client:
  no property is about them; the models take their results as inputs.
* Signatures and API keys (`auth.py`, the HMAC of tokens): taken as unforgeable,
  stateless.
* Dashboards but for the two rates of `metrics.snapshot`, chat history, health and
  observability: they read, nobody reads them.
* `metrics.py`: the counters by model tier and of guardrails and the satisfaction
  samples, which are added to and never withdrawn, and `reset`, which the tests
  use.
* The cost budget and the `degraded` flag of a configuration: read, never
  written. The flag is never set by a failed read, because `db._query` raises
  nothing (`db.py:80`, `merchant_store.py:91`).
* The merging of order attributes (`db.merge_order_attrs`): data without state.

## Plan

Done, in this order: `Execution` with `Redemption` and its proofs; `Policy` and
`Negotiation` with the first two theorems; `ConfigStore`; `Tickets` with proofs;
`SessionStore` with `DurableSession`; `Metrics`; `MerchantConfig` with its proofs,
and `ConfigStore` on it, with crashes and workers cut off from the database.

Then the proofs: the remaining invariants of `Negotiation`, all of `ConfigStore`,
`SessionStore` with its refinement, `Metrics`, and the layer without a database.

Next:

1. Theorems that say more than the runs ask: `Freed` rests on the round and turn
   counters never going back, which is an action property that can be proved;
   monotonicity of `triage` and `ClassifyScenario` in the merchant's limits.
2. Without overlap, the stronger forms of what is a disagreement with overlap
   (`RoundLimit`, `EmotionNeverFalls`), and for `SessionStore` `AnsweredKept` on the
   books, from `Solitude`.
3. `Retention`: `Negotiation`, `ConfigStore` and `Execution` composed on tokens
   and pinned versions, with the composition's refinement from its parts'.
