# Verification of the Clario 360 platform

Clario 360 is a suite of security, legal, data and resilience applications on one
platform: Go services (`src/backend`), a Next.js frontend, a retrieval service in
Python, client SDKs and deployment manifests. The services keep their state in
PostgreSQL, coordinate through Redis, and talk to each other through Kafka. This
directory holds TLA+ models of the parts of that platform whose correctness depends on
the order in which processes, transactions and messages meet, the TLC runs that check
them, and the TLAPS proofs about them.

Paths below are relative to `src/backend/internal`, or to `src/frontend/src` for `.ts` and `.tsx`
files, unless they start with `src/`.
`PROJECT.json` gives the source lines every definition models.

## 1. Inventory

### The core

| component | state | operations | talks to | hard because |
|---|---|---|---|---|
| transactional outbox (`events/outbox`) | rows of `event_outbox`: status, attempts, due and claim times | `Write`/`WriteBatch` in the caller's transaction; relay: claim, publish, mark published / schedule retry / fail; reap; purge | PostgreSQL, Kafka producer; one relay per service replica on one table | a relay dies or stalls between any two statements; lost acks; a reaped claim of a live relay; outcome statements that name the row by id only |
| event consumer and guard (`events/consumer.go`, `events/idempotency.go`, handlers such as `notification/consumer`) | committed offset, session marks, processed markers and processing locks in Redis | fetch, `IsProcessed` (EXISTS, SETNX), handler, `MarkProcessed`, `Release`, retries, dead letter, mark and commit | Kafka group coordinator, Redis, dead letter topics | rebalance while a handler runs; a cancelled session context; expiring locks; commits that are lost or refused |
| leader election and singleton loops (`leadership`, `workflow/service/leader.go`) | one Redis key per role with a TTL; `isLeader`, `closed`, the context of the loop | acquire, renew, lose, release, `Close`; `OnAcquire` starts a loop, `OnLose` cancels and awaits it | Redis; the scheduler, cron, recovery, automation and DR drivers run under it | late renewals, lost replies, shutdown against handover, crash |
| automation runs and gates (`automation/service`, `automation/repository`) | rows of runs, run steps and approval gates | claim, advance one step (start, action, gate, resume, complete), approve, reject, timeout sweep | PostgreSQL, the outbox, other services through actions, the election | READ COMMITTED transactions that write back what they read; crash between a side effect and its record; errors that roll back what they report |
| automation triggers (`automation/trigger`, `automation/rule`) | guard keys, runs unique per tenant and source event | match an event, dispatch once, schedule clock, webhook | consumer, guard, run rows | two exactly-once mechanisms with different keys; a failure between the automations of one event; locks that outlive their owner |
| browser session (`lib/session-refresh.ts`, `lib/bff-refresh.ts`, `lib/session-expiry.ts`, `stores/auth-store.ts`, `iam/service`) | two cookies shared by all tabs, an access token in the memory of each, single-use refresh tokens in the sessions table | refresh, hydrate, probe, login, logout, watchdog, broadcast; rotate, revoke on reuse | route handlers of the web server, gateway, identity service, the other tabs | tabs racing with one single-use token; answers lost after the token was spent; account operations that delete session rows between two statements of an exchange; latches that outlive a page |
| notifications in the browser (`hooks/use-websocket.ts`, `stores/notification-store.ts`, `notification/websocket`) | the socket, its retry timer and attempts; badge, dropdown; rows, hub | connect, reconnect, resume; refresh, read, delete; insert, dispatch | notification service | events of a replaced socket; snapshots applied after newer messages; missed and doubled messages |
| dead letter queue (`events/dead_letter.go`, `notification/handler/dlq_handler.go`) | dead letter topics, entries in PostgreSQL | store, list, replay, acknowledge | consumer, producer | publish and mark are two steps |
| workflow engine (`workflow/service`) | instances, tokens, tasks, timers, incidents; Redis instance lock | start, complete a task, signal, boundary timers, retry, recovery scan | election, outbox, consumer | parallel joins, a lock with a TTL, recovery of running instances |
| audit chain (`audit/service`) | entries linked by hash, chain head per tenant | batched append, verification | consumer, PostgreSQL | concurrent batches on one head, redelivered events |
| notification delivery (`notification/service`) | notifications, deliveries, digests | create, deliver per channel, retry, digest | consumer, mail, push, webhooks, sockets | insert and deliveries are separate |
| gateway (`gateway`) | circuit breakers, entitlement cache, kill switches, rate limits | proxy, trip, probe, invalidate | every service, Redis | half-open probes, stale cache entries |

What makes each correct, in one line:

* outbox: an event staged by a committed transaction reaches the bus at least once, is
  called published only then, is given up only when its attempts are used up, and every
  extra copy has a cause;
* consumer: the committed offset passes an event only when its handler completed or the
  event is in the dead letter topic; two handlers never run for one event while the lock
  lives; a failing handler does not stop its partition;
* election: at most one replica runs the loop, the flag is never behind the loop, a lease
  is not taken from its holder, and there is always a leader again;
* runs: no action behind a gate without the quorum, no step skipped, nothing recorded OK
  executed again, every execution on record before it begins, gate row and run row agree,
  and every run parks or ends, unless stuck runs fill every batch the driver claims;
* triggers: an event is acknowledged only when each automation it should have fired has fired, or
  a named cause stood in the way; every event is acknowledged or dead-lettered;
* browser session: racing tabs are never taken for a replayed token, nobody is logged out
  for nothing, one token never becomes two sessions, the cookies stay usable, every renewal
  is settled;
* notifications in the browser: one socket per tab, a retry or the button at all times, and
  badge and dropdown agree with the rows once nothing is on its way;
* dead letters: an entry is replayed once per request, never lost;
* workflow engine: a join fires once per round, a token is never lost or doubled by a
  retry or a recovery, a task completes once;
* audit: one unbroken chain per tenant under concurrent batches and redelivery;
* notifications: whoever is notified is also told, once per channel;
* gateway: one probe in half-open, no request under a revoked entitlement after the
  invalidation was seen.

### The rest

Licensing and the rest of IAM (request-local computation over the database), the disaster recovery
control and data plane (`dr`, `datastream`: the failover driver has the shape of the run
driver), onboarding (a sequence of idempotent steps), the business suites (`lex`, `cyber`,
`data`, `acta`, `visus`, `siem`, `respond`, `recover`, `migrate`: records, rules and
reports over the core), platform services, binaries and the pages of the frontend. They are
listed in `PROJECT.json` with the reason each is left out.

## 2. How the parts interact

    business transaction ── WriteBatch ──▶ event_outbox ── relay ──▶ Kafka topic
                                                                        │
       Redis guard ◀── IsProcessed / MarkProcessed / Release ── consumer group
                                                                        │
                                                          handler, or dead letter topics
                                                                        │
       trigger dispatcher ──▶ automation_runs ◀── claim ── run driver ◀── leader election
                                    ▲                          │
                              approvers, gate sweeper      actions, lifecycle events
                                                            (into event_outbox)

       consumer group ── insert, dispatch ──▶ notification rows, hub ── socket ──▶ badge, dropdown
                                                                                     │
       sessions table ◀── rotate ── gateway ◀── web server ◀── refresh, hydrate ── tabs of a browser

Each module models one box with the interface it sees: the outbox model's bus is an append-only
sequence, the consumer model's partition is one that an at-least-once producer fills
(the same event may appear twice), the run model's drivers are a set that exclusive leadership
makes a singleton. The theorems that need exclusive leadership say so as a hypothesis; the
election model states which exclusion there is: `OneActive`, of loops whose context is live. Modules
are composed where the parts share state: `BrowserSession` EXTENDS `RefreshExchange` (tabs and
the exchange they await), `NotificationFeed` EXTENDS `NotificationSocket` (store and socket),
and each of its steps is a step of the socket or leaves it alone, which is proved.

## 3. The modules

| module | what it is |
|---|---|
| `OutboxRelay` | the outbox table and its relays |
| `EventDelivery` | what the outbox promises its writers; `OutboxRelay` implements it |
| `OutboxRelayProofs` | theorems about it |
| `EventConsumer` | one partition, one consumer group, the guard |
| `EventConsumerProofs` | theorems about it |
| `Leadership` | the election and the loop run under it |
| `LeadershipProofs` | theorems about it |
| `AutomationRun`, `MCAutomationRun` | one run, its driver, sweeper and approvers; the instance's runbook |
| `AutomationRunProofs` | theorems about it |
| `TriggerDispatch`, `MCTriggerDispatch` | from an event to the row of a run: event source, dispatcher, sink; the instance's automations |
| `TriggerDispatchProofs` | theorems about it |
| `RefreshExchange` | rotation of refresh tokens, behind the single flight of the web server |
| `BrowserSession`, `MCBrowserSession` | the tabs of one browser on top of it; the instance's symmetry |
| `BrowserSessionProofs` | theorems about both |
| `NotificationSocket` | the reconnecting socket of one tab |
| `NotificationFeed`, `MCNotificationFeed` | badge and dropdown on top of it, with service and hub; the instance's symmetry |
| `NotificationFeedProofs`, `FeedAgreementProofs` | theorems about both; types and `FeedAgrees` |

An operator whose comment begins "Mutant of X" is a wrong version of X, with a bug the code could
plausibly have. The specifications do not use it; putting it in the place of X makes the property it is
paired with in `PROJECT.json` fail, which shows that the property notices.

### OutboxRelay

One SQL statement is one step, with its WHERE clause: `Claim` is the claim statement (oldest due
pending rows, at most `BatchSize`, attempts counted here), `MarkPublished`, `ScheduleRetry` and
`Fail` are the three outcome statements, which name the row by id alone and so may hit a row that
was reaped meanwhile; `ReapStuck` and `PurgePublished` run between batches, on the relay's own
goroutine. A publish is accepted, refused, or accepted with a lost reply. `status` is the column,
with `unwritten` and `purged` for rows that do not exist; `due` and `aged` stand for the two time
comparisons; `batch` and `cur` are the relay's slice and loop variable; `bus` is what Kafka has.
`faults` counts, per event, what may cost one redelivery each. A transaction that stages events and
rolls back leaves no trace and is not a step. A relay that stops is `down` with its batch gone; its
rows stay `publishing` until they are old enough.

### EventDelivery

The abstract outbox: an event is `unstaged`, `open`, `parked` or `gone`; a transaction stages its
events, all or none; the bus accepts a staged event, perhaps again; an event is retired only when
the bus has it. `OutboxRelay!Place` maps the columns of a row to these places, and `bus` is the
log. `KeepsPromise` is the abstract specification as a property of the relays; its safety half is
also a theorem.

### EventConsumer

One Redis command, one publish and one commit are one step each; a handler moves through `check`
(EXISTS), `acquire` (SETNX), `work`, `mark` or `undo`/`drop` (Release). A session is live or ending:
once its context is cancelled every command issued with it fails, which is what `CallFails` says.
The coordinator may give up on a member (`Kick`) while its handler is still running; its commits are
refused from then on. `skipped` remembers the offsets that were answered "processed" only because a
lock was there, `excuses` the faults that can cost one more handling each. Abstracted: the 24 h
expiry of processed markers, several handlers per topic, effects per recipient; a consumer without a
dead letter producer behaves like one whose publish fails.

### Leadership

`lease` is the Redis key. `Run` is a goroutine with a stage; the loop it starts is `off`, `on` or
`draining` (its context is cancelled and it has not returned). The scripts compare the owner, so
`AfterDelete` leaves another's key alone. An unrenewed key may expire at any time; expiry under a
leader that is still renewing counts as a fault. `Shutdown` and `Close` are distinct: the latter sets
the flag and deletes the key without `OnLose`.

### AutomationRun

Transactions are READ COMMITTED and lock nothing they read, so a read and the write that
depends on it are two steps; the rows one transaction writes change in one. The claim's
`FOR UPDATE SKIP LOCKED` ends with the claim: the loop works on a copy (`seen`), as approvers
and sweeper do. `at` is the place in the code: for the driver the transactions of
`Advance` (`start`, `look`, `prepare`, `execute`, `done`, `failed`, `gate`, `resume`, `skip`,
`complete`), for the sweeper, on the same goroutine, `listed` and `timeout`, for a request
`approve` or `reject`. `log` and `attempt` are the step rows, `gate` and `votes` the gate rows.
History: `execs` (executions per step), `approvers` (who ever had an approval committed),
`reported` (a recorded failure was reported), `overwritten` (a gate writer wrote over a row it
had not read). `Reopen` is the code's order literally: the failure of a run that meets a
rejected or expired gate is written inside a transaction whose callback returns an error, so it
is rolled back. Other runs share no row with this one, but they share the `LIMIT` of the claim
(`repository.go:588`, oldest first, ten by default): `stuck` is the number of older runs that stay
runnable for ever, because that rollback meets them at every claim (`OlderSticks`), and a run behind
`Batch` of them is never claimed. Abstracted: payloads and variables; deadlines pass
at any time; a step of unknown type (it meets the same rollback); `CancelRun` (no caller outside
tests). `Drivers` may have several elements; TLC runs with one, and `GatesHold` is proved for any
number.

### TriggerDispatch

A worker is a call of `HandleEvent` with its retries: `list` (read the candidates), then for the
first of `todo` EXISTS (`Check`), SETNX (`Acquire`), the transaction of the sink (`Fire`), and
`MarkProcessed`, or `Release` and the error that ends the loop. `Check` is the whole step when
there is no Redis (`guarded`). The sink reads the automation again, so one that was switched off
meanwhile makes no run and is marked. `FireFails` covers both a rolled-back transaction and a
commit whose answer is lost, `LookupFails` a SETNX whose answer is lost. The consumer of
`EventConsumer` appears as `Take`, `Ack`, `Retry`, `DeadLetter` and `Crash`. `skipped` and
`refused` are history: pairs of event and automation that were answered by a lock, and pairs
the unique index refused. Abstracted: payloads, filters and rules (constants `Matches` and
`Selects`), an automation without a runbook (a failure each time), tenants.

### RefreshExchange and BrowserSession

A token pair is a number. A slot is one request of the web server to the identity service,
whose statements are steps of their own: `Lookup`, `DeleteOld`, `CheckAccount`, `CreateNew`, or
`RevokeAll` when the lookup finds nothing or fails. `AccountStep` is whatever else writes the user or
deletes session rows (`iam/service/user_service.go`): `UpdateStatus`, `DeleteAccount`, `ChangePassword`
(and the reset), each of which may owe a `Purge` of the user's rows as a statement of its own, and
`DeleteSession`. `revoked` are the tokens whose rows these deleted, `barred` remembers that the account
was closed; a token of a deleted row is taken for a replayed one, as in the code, and its tab is logged out. The web server joins callers with the same token (`Join`), reuses
a recent result (`recent`), and gives up on a slow one (`BffAbort`) while the service goes on.
A tab shows an app, auth or site page and runs at most one serialized operation (`run`), under
the Web Lock (`LockFree`). Cookies are set when the response arrives, whether or not the page still
wants it. `latch` is `terminating`. `Hear` is the broadcast of another tab's session end.
Gestures of the user are bounded; so are slow requests, lost answers, failed statements and
operations on the account, together (`MaxFaults`); `mishap` remembers that an exchange lost its answer
or failed half-way.
Abstracted: token contents, the profile in the store, the transports of one broadcast; access
and refresh cookie are one pair.

### NotificationSocket and NotificationFeed

The socket module follows the hook: `wsRef`, `attempt`, `timer`, and the effects of mount,
unmount and `reconnectToken`; `loose` and `stray` are timers whose reference was overwritten or
whose mount is gone. A socket that was closed still gets its close event (`Finish`), and its handler
does what the code does, without asking whose socket it was. `replaced` remembers that the
reconnect effect has closed a socket.

The feed adds the rows, the hub, the messages on their way, the two requests of a
refresh, and the optimistic actions. `drift` names the first thing since the last reconciliation
that may set the tab apart from the rows: a message that was missed, a snapshot or request that
raced with another change, a message or dispatch that was repeated, a request that failed, a
notification outside the window of the dropdown, a change made elsewhere. `FeedAgrees` says there
is nothing else, and its strength is in where `drift` is *not* set. A re-open that fetches both
count and list reconciles. A list is given by its elements in increasing order (`InOrder`); two equal
requests of the user under way are one element of `asks`. Abstracted: text and categories, the
list page, toasts.

## 4. The runs

All bounds are constants of the .cfg files: `MaxFaults` caps faults per behaviour (crashes, failed
or lost calls, late renewals, rebalances), `MaxLog` the messages of a partition. Deadlock is not
checked: in each model the faults and the work are bounded, so the system may come to rest with
everything delivered, decided or ended.

| run | instance | states | shows |
|---|---|---|---|
| `outbox` | 2 events, one unreadable, 2 relays, batch 2, 2 attempts, slow relays, 3 faults | 322 thousand | `NoEventLost`, `ParkedOnlyWhenExhausted`, `DuplicatesExplained`, `SingleHolder`, `OutcomeIsFinal`, `EverySettles`, `KeepsPromise` |
| `consumer` | 5 events of different kinds, 2 members, 2 messages, 1 fault | 400 thousand | `LossOnlyByLock`, `RepeatsExplained`, `GuardExcludes`, `EveryMessageDisposed` |
| `consumer_loss` | 1 event, 1 member, 1 fault | violated | a rebalance loses an event |
| `leader` | 3 replicas, 3 faults | 120 thousand | `OneActive`, `LeaseRespected`, `WorkersLead`, `LedAgain` |
| `automation` | gate, action, gate; 2 approvers; quorum 1 or 2; every timeout policy; 2 attempts; 1 fault; batches of one, which an older run may fill | 2.0 million | `NoGap`, `AttemptsRecorded`, `GateHolds`, `DivergeOnlyByOverwrite`, `OkNeverRefired`, `EveryRunSettles` |
| `automation_recorded` | no fault | violated | a "recorded" failure is not recorded |
| `trigger` | 2 events, 2 automations, 2 workers, 2 attempts, 1 switch, 2 faults, with Redis and without | 1.1 million | `FiredOrExplained`, `EventsSettle` |
| `session` | 2 tabs, 4 pairs, 2 exchanges at once, 1 fault or account operation, 1 gesture | 2.4 million | `ReuseExplained`, `NoLogoutForNothing`, `ForksExplained`, `CookieUsable` |
| `session_live` | 2 tabs, 2 pairs, 1 fault or account operation, no gesture | 103 thousand | `RenewalSettlesOrProbeHangs` |
| `session_stranded` | 2 tabs, 2 gestures, no fault | violated | an app page that ignores the end of its session |
| `socket` | 3 sockets, 3 attempts, 3 mounts | 65 thousand | `OneSocketUnlessReplaced`, `NeverStranded`, `ConnectionSettles` |
| `feed` | 2 notifications, a window of 1, 2 sockets, 2 refreshes, 1 action, 1 fault | 5.0 million | `FeedAgrees` |

Every passing run also checks its module's `TypeOK` (`session` leaves that to `session_live`). `session`
explores no state behind a mishap (`BeforeMishap`): its invariants except such states, and a mishap is
never forgotten.

Why the bounds are enough to see the interesting cases. Two relays and two rows make a claim that is
reaped, re-claimed and then overwritten by its first owner; with two attempts the last attempt and
one before it both occur; three faults allow a crash, a lost ack and a failed write in one history.
Two members with two messages cover a rebalance in the middle of a handler and the commit of a message
after a skipped one, and one fault is what each loss and each repeat takes; the five events differ in what the handler and
guard do with them. Three replicas and three faults let a paused former leader, a new leader and
a restarted replica coexist. The runbook gate, action, gate is the shortest in which an approval is
followed by a side effect, a run row can be set back over it, and a run can park a second time;
quorum two with two approvers makes votes accumulate.

Two workers on two events, both of which two automations match, let a failure fall between the
automations of one event and a redelivery overlap its handler; two faults leave a lock behind and
fail the retry. Two tabs are what a race needs, two exchanges what the single flight has to
join, four pairs a rotation of a rotated token after a login; one gesture and one fault already combine a
logout with a lost answer, and one account operation deletes the rows at every place of an exchange
(several of them, and an operation together with a fault, are left to the theorems). A batch of one is
filled by a single stuck run; a larger batch only takes more of them. Three names for sockets hold a live one beside two that are closing,
and three mounts re-arm the reconnect effect after it was used. A window of one with a
second notification is the smallest in which something falls out of the dropdown.

Symmetry (tabs and slots in `session`, sockets and refreshes in `feed`) is used only where no liveness
property is checked and nothing distinguishes the elements.

### What the violated runs say

* `consumer_loss`, `idempotency.go:62`: a lock is answered as "processed"; when a rebalance cancels
  the session, neither the handler's calls nor `Release` succeed, the message is read again while the
  lock is still there, answered "processed", and committed.
* `automation_recorded`, `orchestrator.go:757`: the failure is written in the transaction its own
  error rolls back; the run stays RUNNING and every later claim repeats this.
* `session_stranded`, `session-expiry.ts:155`: a login page that hears another tab's logout sets
  `terminating`; the login that follows is a client-side navigation, and the app page it enters ignores
  every later end of its session.

### What the passing properties concede

Where the code does less than a comment says, the property names the exception instead of
leaving it out, and holds with it:

* `LossOnlyByLock`: loss happens only through a lock (see `consumer_loss`).
* `SingleHolder`, `OutcomeIsFinal`: `relay.go:86` says that no two instances ever hold the same row;
  the reaper returns a row on age alone, so they hold until a live relay has outlived
  `ClaimTimeout` (`overrun`).
* no order of the bus is stated: `outbox.go:84` promises the order of a tenant, but rows of one
  transaction share `created_at`, and a retried row is overtaken.
* `OneActive`: at most one loop whose context is live; `leader.go:15` says one replica at a
  time, but on shutdown the key is deleted (`redis.go:152`) before the loop has returned.
* `DivergeOnlyByOverwrite`: `gates.go:27` says gate and run never diverge; neither row is locked
  between read and write, and the timeout trusts the gate as it was listed (`gates.go:173`), so a
  decision and a timeout can overwrite each other.
* `FiredOrExplained`: `trigger.go:81` says two automations that match one event each fire; the unique
  index of `automation_runs` is per tenant and event
  (`src/backend/migrations/automation_db/000001_init_schema.up.sql:106`), so whichever comes second is
  refused its run, and the refusal is taken for a duplicate (`refused`). A lock left behind answers
  for a dispatch that never was (`skipped`), as in the consumer.
* `EveryRunSettles`: `CrowdedOut`, when as many older runs are stuck as a claim takes. With the rollback of
  `automation_recorded` that is a state the service can reach: ten runs that a stale write re-armed at a rejected or expired
  gate, or that meet a step of unknown type, and no younger run is advanced any more.
* `ReuseExplained`, `NoLogoutForNothing`, `CookieUsable`: `revoked`. A refresh cannot tell a row that an
  account operation deleted from one a rotation deleted, so it reports reuse and deletes the sessions
  the user has opened since. `ChangePassword` deletes the caller's own session too, against its comment
  "all other sessions" (`user_service.go:339`).
* `RenewalSettlesOrProbeHangs`: every holder of the cross-tab lock bounds its fetch, except the
  session probe of the public site (`hero-session-badge.tsx:68`); one that hangs keeps the app
  tabs from renewing.
* `OneSocketUnlessReplaced`: the close event of a socket the reconnect effect replaced is taken for
  a loss (`use-websocket.ts:138`) and dials again beside the live one.
* `FeedAgrees`: the six causes; the badge in particular is not the number of unread notifications once
  the user has read or deleted one that is not in the dropdown.

## 5. Fairness

* `OutboxRelay`: weak fairness of a relay's claim, publish, record and reap (its `select` serves both
  tickers for ever), of restarting a stopped relay (the orchestrator's restart policy), and of the
  passing of time for backoffs and claims.
* `EventConsumer`: weak fairness of assigning a free partition (the coordinator), of a member's next step,
  of leaving an ended session and of restarting a process. No fault, new message or expiry is forced.
* `Leadership`: weak fairness of each replica's next step, of a cancelled loop returning (the loops select on
  their context), of restart and of the TTL of an unrenewed key.
* `AutomationRun`: weak fairness of `Advance` and of a started sweep (straight-line code), and strong
  fairness of `Claim`, which is disabled while the loop sweeps and while `stuck = Batch`. The loop's
  `select` may serve the sweep ticker again and again, but both tickers are ready repeatedly and
  `select` picks among ready cases uniformly, so polls go on. Each poll takes the `Batch` oldest runnable
  runs. An older run that is not stuck parks or ends after finitely many claims, which is
  `EveryRunSettles` for that run, by induction over the age of the runs, and it is re-armed once per gate
  and stale write; so while fewer than `Batch` older runs are stuck, poll after poll comes to have this
  run within its limit. Runs started later come behind it. Once `Batch` are stuck nothing is owed:
  that is the guard of `Claim`. No request, decision, timeout, fault or stuck run is forced.
* `TriggerDispatch`: weak fairness of a worker's next step and of the bus handing out an event that is
  neither disposed of nor in work. No fault, switch or expiry is forced.
* `BrowserSession` (`LiveSpec`): weak fairness of a request that is not slow, of the timers that end
  one that is, of a timed operation's answer reaching its tab; strong fairness of the
  Web Lock, which is granted in the order it is asked for. Nothing is owed to the probe, whose fetch
  has no timer.
* `NotificationSocket`: weak fairness of armed timers, of a handshake being answered one way or the
  other (the browser gives up on it), and of the close event of a closed socket. No loss, mount or
  button press is forced.

## 6. What is proved

All theorems hold for every value of the constants (any number of relays, replicas, members,
approvers, faults, any runbook), under the `ASSUME` each module states.

| theorem | says | inductive invariant |
|---|---|---|
| `TypeCorrect` (six), `FeedTypeCorrect`, `SocketTypeCorrect` | `TypeOK`, `SocketTypeOK` | itself |
| `PromiseKept` | the safety half of `EventDelivery`, under the refinement mapping `Place` | that of `DeliverySafe`: every step of a relay maps to a step of the promise or a stutter |
| `DeliverySafe` | `NoEventLost` | what a relay is about to mark is in the bus (`SentIsInBus`) |
| `DuplicatesBounded` | `DuplicatesExplained` | `ChargeExplained`: copies on the bus, sends that are owed, and a claim that may follow are together within the budget |
| `ParkingJustified` | `ParkedOnlyWhenExhausted` | a claim remembers no more attempts than its row has (`ClaimsRemembered`) |
| `ClaimsExclusive`, `OutcomesFinal` | `SingleHolder`, `OutcomeIsFinal` | `PromptInv`: until a live relay has outlived `ClaimTimeout`, `ExclusiveInv`: a held row is publishing with a fresh claim, and a relay's claims are of different rows |
| `HandlersExclusive` | `GuardExcludes` | whoever is between SETNX and the end of its handler owns the lock (`LockOwned`) |
| `RepeatsBounded` | `RepeatsExplained` | `HandlingsExplained`: handlings, handlers under way, and one that may enter are together within the budget |
| `LossNeedsLock`, `UnguardedDelivers` | `LossOnlyByLock`; `AtLeastOnce` when no handler has a guard | `PassedInv`: every offset that is committed, marked or behind a member is accounted for, and a marker implies an effect |
| `LeaseHeld`, `ActiveLoopUnique`, `WorkingMeansLeading` | `LeaseRespected`, `OneActive`, `WorkersLead` | `LeaseRespected` is inductive; `WorkInv` ties the loop to stage and flag |
| `GatesHold` | `GateHolds`, any number of drivers | `ApprovalInv` |
| `AttemptsOnRecord`, `NoStepSkipped`, `RecordedOnce` | `AttemptsRecorded`, `NoGap`, `OkNeverRefired`, if there is one driver | `LogInv`, on top of `ApprovalInv` |
| `OverwriteOnly` | `DivergeOnlyByOverwrite`, if there is one driver | `AgreeInv`, on top of the other two: until something is overwritten, the copy of a working driver is the run row |
| `FiredIsExplained` | `FiredOrExplained` | `DispatchInv`: an automation is behind a worker, or has a marker, only with its run or a reason not to (`WorkerExplained`, `MarkersExplained`) |
| `ReuseIsExplained`, `LogoutIsExplained`, `ForksAreExplained`, `CookieStaysUsable` | `ReuseExplained`, `NoLogoutForNothing`, `ForksExplained`, `CookieUsable` | `IInv`: while there was no mishap one operation runs, awaits the only exchange there is, and that holds a token which is live, unless its row was revoked, until it deletes it; the token in the cookies is live, revoked, or about to be replaced |
| `OneSocketAtATime`, `AlwaysARetry` | `OneSocketUnlessReplaced`, `NeverStranded` | `Single`: until a replacement, every socket of the present mount is the one in `wsRef`, and a timer is armed only while `wsRef` is null |
| `FeedImplementsSocket` | `Spec => SocketSpec`: what holds of the socket holds in the feed | none needed: each action of the feed takes its socket part from `NotificationSocket` |
| `FeedAgreesAlways` | `FeedAgrees` | `Order` (of the rows, the dispatches and the links, whatever goes wrong) and `Synced` (of the tab, while `drift` is `"none"`) |

`DispatchAssumption` states that every non-empty set of automations has a first one, in the order of
their names. It is true of any set of numbers; the prover cannot instantiate the library theorem that
says so, hence the assumption, which TLC evaluates.
`ConsumerAssumption` includes that a group has finitely many members, so that they can be counted.

Two invariants of the run model show why it survives its unlocked rows. `ApprovalInv`: approvals
are only ever added, so everything a process has read about approvals stays true; every copy of
the run is at a step whose gates are all passed, and writing any copy back keeps that. The
same holds of steps in `LogInv`: the steps before the `current_step` of *any* copy, however old, are
through, because a step that is OK or APPROVED stays so (`ThroughStays`) as long as nobody else
writes step rows. That is where the single driver is needed: a second one may record a failed
attempt over an OK.
The third, `AgreeInv`, says what the unlocked rows do cost. While the driver works the run is runnable, and a
writer of gates has read a parked run or an open gate; if its copy still holds when it writes, the run
is parked at that gate (`FreshCopy`) and gate and run change together (`DecideInStep`). So whatever
makes the rows diverge has written from a copy that no longer held.

Two invariants bound how often something happens, and neither bound is inductive: a relay about to send
will break it unless what it may still do is counted in advance. `Charge` does that: it adds to what
has happened the relays (or handlers) that hold the right to do it once more, and one more if somebody can
still acquire that right. Every ordinary step moves a unit from one summand to another; the steps
that create a unit are those that `faults`, or `excuses`, count.

`Synced` says what the tab shows *before* everything has settled. `View` gives each row the state the
tab should show: none while the news of it is on its way (`Pending`), gone or read as soon as the user has
asked for it (`Wanted`), else what the row says. The dropdown is the newest window of the view and the badge
counts its unread rows (`Showing`), except between a "mark all" of the service and its answer
(`ReadAll`), or while a refresh is under way, which then is all that matters, and what it has already
read is still so (`Snapshots`). It takes more than that to be inductive: news arrives in the order of
the rows and over one socket (`ToldFirst`, `ChannelInTurn`, `OneChannel`), so a new item belongs in
front; what is pending is unread (`PendingUnread`); and the user asks only for what the tab has heard of
(`AsksKnown`), which holds because anything else would have been `"window"`. These are what `drift`
excludes step by step: an action that breaks one of them names a cause. Nothing on its way, the
view is the rows, and a window of them is determined by its length and places (`OneWindow`).

## 7. What is only model-checked

Liveness (`EverySettles`, `EveryMessageDisposed`, `LedAgain`, `EveryRunSettles`, `EventsSettle`,
`RenewalSettlesOrProbeHangs`, `ConnectionSettles`, and the liveness half of `KeepsPromise`), since it
needs fairness and ENABLED, which the prover does not support; and the violated statements. Every
invariant the passing runs check is a theorem, under the hypotheses named above.

## 8. Not modelled

What would come next, by what could go wrong there:

1. The workflow engine: tokens, parallel joins, the instance lock with its TTL, boundary timers and
   the recovery scan. The largest part of the core that is left, and one whose steps
   interleave.
2. `AutomationRun` under `Leadership`: the driver set of the run model given by the election model,
   to say what two overlapping drivers do to one run.
3. The audit chain (concurrent batches against one chain head), the gateway's breaker and
   entitlement cache, the retry worker and digests of notification delivery.
4. The DR failover driver, which has the shape of the run driver, and the execution of a migration
   cutover.
5. The clock of schedule triggers (`automation/trigger/schedule_source.go`), for which the boundaries
   of cron expressions and the change of leaders would have to be one model.

Left out within the modelled parts: dead letter replay (a request of an operator that publishes
under a fresh event id; nothing concurrent decides its outcome), the rule engine and the filters (pure
evaluations), second factors and the switch of tenants in the browser, mail, push and webhook
channels. Of the session rows: the suspension of a whole tenant (`tenants/service.go`) and its
deprovisioning (`onboarding/service/deprovisioner.go`), which have the shape of `UpdateStatus` for each of
its users; rows that expire; a logout by a client that passes the token in the
body instead of the cookie.

Left out for good: most lines of the repository are pages, tables, forms, translations and generated
types of the frontend and records and reports of the business suites. They render what a query
returned, or validate and store one record in one transaction; no order of steps, failure or
message tells a right one from a wrong one, so a model would repeat them line by line. The same holds of
formatting, metrics and logging, and of what only a driver of an external system decides. The share
of the whole repository that the modules stand for is small for that reason.
