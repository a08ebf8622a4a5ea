# Kanera: a verification project

Kanera is a multi-tenant work board: a Fastify/PostgreSQL/Redis API, background
workers, Socket.IO clients, outbound webhooks, chat destinations and MCP event
subscriptions. This directory models the parts whose correctness depends on the
order in which processes, requests and failures meet, checks the models with TLC
and proves their main invariants with TLAPS. Paths are relative to
`src/apps/api/src` unless they start with `src/`.

## 1. The system

Four Node.js programs share one database: the API (`server.ts`), the public API
(`public-api-server.ts`, no Socket.IO), the worker (`worker-server.ts`, which owns the
pollers) and the admin server (`admin/`). They interact through rows, through
`NOTIFY`, and through Redis (rate limits, idempotency, Socket.IO adapter).

A mutation runs in a transaction, then publishes an event: inline to Socket.IO if
the process has it, and in any case as a row of `event_outbox`. Dispatchers drain
that table: broadcast, enqueue MCP deliveries, enqueue webhook deliveries, mark done.
Deliveries are tables of their own that the worker claims and posts. Everything else
(mail, push, mirrors, reminders, cleanups) is a sweep under the same scheduler.

| Component | State | Operations | Hard behaviour | What makes it correct |
| --- | --- | --- | --- | --- |
| Event outbox (`realtime/outbox.ts`, `emit.ts`, `admin/ops.routes.ts`) | rows, two flags, a lease | publish to a room, to the integrations only, claim, process, mark, clean, purge, operator's retry and cancel | leases that expire or are freed under a live run, failures between broadcast and flag, purge or cancellation under a run, rows that no room may hear of | flags tell the truth, no needless rebroadcast, no silent loss, every row is settled |
| Direct outbox (same file) | rows, one flag, lease | publish to users or clients, drain, clean | flags written once per batch, after all broadcasts | heard at least once, once without a cause, every row is settled |
| Sweep scheduler (`lib/sweep-scheduler.ts`) | flags, timer, stop promise | run, trigger, settle, stop | wake during a run, stop during a run | single flight, no lost wake, stop drains |
| NOTIFY listener (`realtime/notify-listener.ts`) | a pool connection | connect, listen, release | release during connect or LISTEN | returned once, never kept |
| Worker process (`worker-server.ts`) | schedulers, listeners, pool | start, shutdown | everything stops while it works | pool outlives its users, shutdown ends |
| Webhook deliveries (`lib/webhooks.ts`, `modules/integrations`, `admin/ops.routes.ts`) | rows, endpoint, plan | enqueue, claim, deliver, retry, test, cancel, clean | unconditional writes by id from stale copies | budget, truthful success, no causeless duplicate, downgrade is final |
| MCP deliveries (`lib/mcp-events.ts`, `mcp-events.routes.ts`) | rows, subscription | subscribe, lapse, revoke, enqueue, claim, post, record | gate resolved once per batch, renewal between | counted attempts, no replay, order |
| Email queue (`lib/email-queue.ts`) | rows, lease, retries | send at once, claim, send, record, clean, operator's retry and cancel | crash after the send, a request and a sweep and an operator at one row | truthful success, no duplicate without a cause, an end |
| Push queue (`lib/push-queue.ts`, `web-push.ts`) | rows, targets, lease, subscriptions | the same, to several devices side by side | one device of a row failed | only what failed is retried, no device hides another |
| Board mirrors (`lib/board-mirror/`) | cursor, dirty cards | tail, mark dirty, apply, reconcile, pause, plan change | changes announced after their commit, late or never; reconcile requests during a reconcile | the mirror converges |
| Public API idempotency (`lib/public-api-idempotency.ts`) | one Redis record per key | claim, reclaim, replay, store, drop | crash or failed command between claim and outcome, expiry between SET and GET | one handler at a time, one mutation, honest replays |
| SDK retry loop (`src/packages/sdk/src/client.ts`) | attempts of a call | attempt, retry, give up | time-out while the server still works | success is ours, and shared under one key |
| Refresh tokens, OAuth (`auth/jwt.ts`, `oauth/routes.ts`) | token family | rotate, grace, reuse | two tabs, a replay | one live successor, reuse revokes |
| Positions, priority queue, lanes (`lib/position.ts`, `rebalance.ts`, `modules/card-priorities`) | ordered rows | add, move, remove, rebalance | exhausted gaps, anchors that are hidden entries' neighbours, stale eligibility | the order is what was said |
| Card dependencies and card locks (`lib/card-relations.ts`, `card-write-lock.ts`, `archived-card-cleanup.ts`) | graph, graph lock, row locks | relate, complete, reopen, archive, restore, delete, comment, purge | cycles closed from two ends, last blockers closed together, lock order, rules that chain | acyclic, every crossing told, no deadlock |
| Keyed task queue (`lib/keyed-task-queue.ts`) | waiting and running keys | enqueue, settle | a key that is set again and again | no overlap, no starvation |
| Card creation and keys (`modules/cards/create-card.ts`, `lib/card-keys.ts`, triggers of migration 0044) | cards, a counter and a prefix per workspace, reserved prefixes | create, copy, rename, found, move, delete | a retry while the first attempt runs, a rename or a deletion between a number and its card | one card per token, a key never changes hands, no gap |
| Note locks, agent runs | rows | lock, heartbeat | expiry against a late holder | one holder |
| Plans, seats, billing (`lib/plan-conversion.ts`, `tier-limits.ts`, `billing.ts`) | client row, plan actions | convert, check a cap, settle | check before lock, out-of-order Stripe events | caps hold, conversions reverse |
| Automations, notifications, schedule graph, imports, media, access | card data | rules and selections | mostly sequential data work | out of scope so far |
| Web client, admin web, MCP server, CLI | | | | out of scope so far |

`PROJECT.json` lists every component with its status and every hazard at its line.

## 2. Modules

| Module | Models | Correspondence |
| --- | --- | --- |
| `EventDelivery` | what the event outbox promises | abstract: accepted for a room or for none, heard, queued, settled, or purged or cancelled before |
| `EventOutbox` | `realtime/outbox.ts`, `emit.ts`, the integrations-only rows of `lib/card-relations.ts` and `lib/schedule-events.ts`, events of `admin/ops.routes.ts` | one action per await of `processRealtimeOutbox` and `processEvent`; `quiet` are the rows inserted with `realtimeDispatched: true` that no room hears of; `adminAct` is an operator's request between its read and its write; `seenDispatched` is the claimed copy of `realtimeDispatched` (the copy of `webhooksEnqueued` is always false: see `FlagsTellTheTruth`); `lease` abstracts the timestamp |
| `LeaseQueue` | what the other queues under a lease promise | abstract: known, open, done, sent how often, excused |
| `DirectOutbox` | direct events of `realtime/outbox.ts`, `emit.ts` | `left` and `heard` are a run's batch before and after the broadcast; the marks are one statement at its end |
| `EmailQueue` | `lib/email-queue.ts`, mail of `admin/ops.routes.ts` | `mailJob` is the next await per sender and mail; a sender is a sweep or the request that mails at once |
| `PushQueue` | `lib/push-queue.ts`, `lib/web-push.ts`, test routes, pushes of `admin/ops.routes.ts` | `pushStage` is the row's next await, `job` that of each device; `pushTargets` is `targetSubscriptionIds` |
| `SweepScheduler` | `lib/sweep-scheduler.ts` | one action per turn of the event loop; closure flags are sets of schedulers |
| `NotifyListener` | `realtime/notify-listener.ts` | `phase` is the connect callback, `release` the call of `release()` |
| `WorkerProcess` | `worker-server.ts`, `graceful-shutdown.ts`, `close-service-resources.ts` | composes the two above (it extends both) and adds who wakes whom and the shutdown |
| `BoardMirror` | `lib/board-mirror/drain.ts`, `apply.ts`, the mirror routes, the publication of `emit.ts` | a change commits (`EditCommits`) and is then announced by an insert of its own: `unannounced` before the insert starts, `openRows` from its `created_at` until it is visible, `AnnouncementsLost` if it fails or the server dies; `mirrorStep` is where the worker's run is, `mirrorCopy` the mirror row as it was read; the facets of a card are one revision |
| `KeyedTaskQueue` | `lib/keyed-task-queue.ts` | the waiting keys, who is ahead of each (the order of a Map's keys) and the running keys |
| `WebhookDelivery` | `lib/webhooks.ts`, manual retry, chat test, operator routes, `plan-conversion.ts` | `stage` is the next await of `deliverWebhookDelivery` per agent and row; `snap` the attempts in the agent's copy; `due` says that `nextAttemptAt` is past, for backoff and lease alike |
| `McpDelivery` | `lib/mcp-events.ts`, subscription routes | `step` and `batch` are the drain; `gate` is the resolved right to post, as the epoch (`startsAt`) it was resolved for |
| `Idempotency` | `lib/public-api-idempotency.ts` | `stage` is the next Redis command or the handler of each request with the key; `record` and `owner` are the Redis value |
| `IdempotentCalls` | `src/packages/sdk/src/client.ts` | extends `Idempotency`: a request is an attempt of a call, which decides when it arrives |
| `CardDependencies` | `lib/card-relations.ts`, `card-write-lock.ts`, the writes of `modules/cards` that close or open cards, `automations`' completions, `archived-card-cleanup.ts` | a request is a transaction; `agenda` the tasks it has left (rules push more), `held` its row locks, `plus`/`minus`/`link`/`unlink` its uncommitted writes, `news` its crossings |
| `CardCreation` | `create-card.ts`, `card-keys.ts`, prefix changes of `modules/workspaces`, `duplicate-card.ts`, `workspace-delete.ts`, the triggers of migration 0044 | a writer is one request and its transaction, and names the card it makes; `writerAt` is the last lock it took (graph, token, workspace row, prefix), `drawn` its uncommitted number; a place is a board, a list and a creator |
| `PriorityQueue` | `modules/card-priorities`, `lib/position.ts`, `lib/rebalance.ts` | one action per transaction under the queue's advisory lock; `adding` holds what was read before it |
| `EventOutboxProofs`, `QueueProofs`, `WorkerProcessProofs`, `WebhookDeliveryProofs`, `McpDeliveryProofs`, `IdempotentCallsProofs`, `DependencyProofs`, `CardProofs` | | the theorems: those of `BoardMirror` are in `WorkerProcessProofs`, of `Idempotency` in `IdempotentCallsProofs`, of `CardCreation` and `PriorityQueue` in `CardProofs` |
| `MC*` | | instances for TLC |

Operators introduced by a comment "Slip" are the plausible mistakes the checks are
measured against: each replaces one definition and must violate one property. They take
no part in `Next`.

History variables (`broadcasts`, `late`, `dropped`, `accepted`, `posts`, `disturbed`,
`owed`, `keysHad`, `mailOdd`, `pushOdd`, `quiet`, `cancelled`, `unheard`, `forgotten`, `chained`, ...) are read by properties only, never by a guard that
stands for code.

### Abstractions

* Time is not counted. A lease or a backoff may end at any moment; if it ends under
  a live worker that is a stall and costs a fault, so that stalls are bounded where a
  liveness property needs it.
* `FOR UPDATE SKIP LOCKED` may pass over any row that another run might be writing.
* `Fail`, `RecordFails`, `RowFails`, `Crash`, `Abandon` and their kin are the error paths: a query that rejects, a
  process that dies. The fault bounds limit them.
* Payloads, error texts, response excerpts, metrics and logs are left out. A receiver's answer is
  accepted, lost, or refused.
* One webhook endpoint, one MCP subscription, one board mirror, one person's priority queue, one workspace's
  dependency graph: rows of others share only a batch.
* One idempotency key: keys share nothing. The fingerprint in a record is that of the request
  that wrote it. A request does not work for a day, so a record expires under no live owner.
  What Fastify does with an error inside onSend (the hook again, or none) is a choice.
* In `EventOutbox` every event has both an MCP and a webhook consumer; an event without
  one skips the insert and changes nothing else.
* Of a filtered publication `EventOutbox` has the row that the integrations get. What the users are told one by one goes
  through the direct outbox, which `DirectOutbox` models for any event.
* In `BoardMirror` every announcement names the card that changed. Rows that a transaction inserts itself (a dependency
  boundary, a schedule boundary) come in addition to the announcement of the write that caused them, and only move the cursor.
* A request that reopens several restored cards tells of all their crossings first and runs the rules these set off after that. The code
  tells card by card, with the rules that one sets off before the next, in one transaction and under one lock of the graph.
* A mail sweep finds SMTP configured. Without it a sweep ends before its claim and changes nothing.
* A card is its id, in the order row locks are taken. A transaction sees the committed rows under its own
  writes; a row lock or the graph lock is what keeps others from changing what it has read. An automation rule
  is kept only if it completes its card: that is how one transaction reaches a second card it has not locked.
* A position is a whole number of units of the column's last digit, so that a midpoint rounds as `numeric` does.
* A waiting key of the keyed queue stands for its newest value: a value that is replaced was never started.

## 3. Runs

A run may check components that share no rows: a variable of the MC module (`active`, `part`, `scene`) picks one
in the initial state and never changes, so the run explores each in turn and not their product.

| Run | Question | Bounds |
| --- | --- | --- |
| `board` | what a write to a board goes through: dependencies, locks and crossings of its cards; their creation and keys; the order of a person's queue; the safety of the event outbox and its refinement of `EventDelivery` | see below |
| `queues` | every queue drained under a lease implements what it promises, fairness included | events: one, for a room or for none, two faults, one request of the operator; direct: two events in one batch, two faults; mail: one, two tries, two faults, two operator's acts; push: one push, to two devices or to the personal channel, two tries, one failure or one act of the user or operator; two processes each |
| `worker` | scheduler, listener and shutdown; a mirror misses no edit and converges; no key starves | four schedulers: two with a listener, one woken by a sibling, one that waits for its first delay; a mirror of two cards, tail batches of one, two attempts, two edits and two acts of people, three together, one fault (a failure, a crash or lost announcements); four keys of which two run |
| `webhook` | one row, ordinary or a chat test, against two sweeps, a retry request, an operator, a downgrade | two attempts, two faults, one intervention |
| `mcp` | `race`: one occurrence through renewals and revocations with two workers; `queue`: two occurrences in one batch, oldest first | two epochs and two faults; one epoch and one fault |
| `idempotency` | the server's side of a key and what callers are told of it | two SDK calls with different payloads and two attempts each, hence four requests; two faults: enough for a failed command, a crash and a vanished record to meet two reclaiming requests |
| `mcp_budget`, `retry_twice`, `retry_limited`, `push_twice`, `purge`, `asked` | what a document, a comment or an error text says (violated) | the smallest instance that shows it |

`board` has five parts. `outbox`: two events, two dispatchers, batches of two; one fault or one request of the operator; one event that is for no room, purged or
the operator's. So a stalled run, a purge, a cancellation and a failure can all meet a second dispatcher on the same row. `cards`: two requests of any kind over cards
1 to 3, two at a time, from the listed `Scenes`: a card alone, a blocker, two of them, a chain, cards that are done or archived
already, and rules on the middle card; `PurgesInTime` keeps the purge to what its comment says of it, since `purge`
shows that it can be otherwise. `ends`: two relations between four cards, and two requests that may join their ends, the shape of a cycle closed from
both sides. `creation`: three writers, who may be three attempts of one create, a create among a rename and a new workspace, and so on; one
workspace and one to be founded, two prefixes, one token, two places. `priority`: three cards, a spacing of four units and a least gap of two, so that one insertion between neighbours
uses up the gap; two live cards at most; one card at a time between its check and the lock.

Bounds are in guards of the MC modules or named constants (`MaxFaults`, `MaxEdits`, `MaxPosition`, ...). Each
is large enough for two stale writers to meet at one row after one failure, which is what the properties are about.
In `worker`, `mcp` and `webhook` the fairness conditions speak of the bounded actions, so they ask for nothing that a bound forbids.

Symmetry is used over workers and requests in `board`, which checks safety only. `CHECK_DEADLOCK FALSE`
stands where a run may really end: the outbox and the queues once everything is settled, the worker once its process has exited, two
requests once both are over, the idempotency runs once every call is done.

### What the runs show

* Clearing the outbox lease in the same UPDATE that records the broadcast (`outbox.ts:181-189`) hands
  the row to a second dispatcher while the first still enqueues. It is harmless: deliveries
  are unique per event and consumer, and the row already says dispatched
  (`EnqueueRetryNeverRebroadcasts`).
* A second broadcast needs an expired lease, a lease that an operator's retry freed under its holder, or a failed
  flag write, nothing else (`NoNeedlessRebroadcast`).
* `realtime_dispatched` does not say that a room was told. Rows for the integrations only (`emit.ts:190`,
  `card-relations.ts:295-301`, `schedule-events.ts:230-236`) carry it from the insert, and an operator's cancellation sets it. What holds is
  that a flagged row was broadcast, or is one that no room may hear of and is never broadcast, or was cancelled (`FlagsTellTheTruth`).
  An insert that forgot the flag would broadcast to a whole room what only some of its users may know.
* A cancellation does not stop a run that has the row in its batch: the event may be delivered all the same. It is a loss only if it was
  not (`ImplementsSafely`, theorem `NoSilentLoss`).
* A webhook is delivered twice only after a lost answer, a failed write, an expired
  lease, or a person's act (`DuplicateNeedsCause`). The catch block that
  requeues a delivered row after a failed record (`webhooks.ts:453`) is one of these causes. Mail and push
  have the same excuses and no others (`ImplementsMailQueue`, `ImplementsPushQueue`); both are settled in the end.
* The unconditional writes of stale copies never schedule an attempt beyond the budget
  (`PendingHasBudget`) and never forge a success (`SuccessIsReal`).
* A PATCH that enables an endpoint may pass its plan check before a downgrade and be
  written after it. The check at the outbound boundary (`webhooks.ts:353`) is what keeps
  `DowngradeHolds` true.
* A key excludes: under crashes, failing Redis commands and expiry two handlers never run together
  (`OneHandler`), and only a request that committed and then reported a 5xx makes room for a
  second mutation (`DoneOnce`). The owner check in onSend is needed: a removal that was carried out but
  reported as failed sends the request through the hook again, when the key may be another's.
* The graph lock is what keeps blocking acyclic when two requests close a cycle from both ends
  (`AcyclicBlocking`), and what lets two requests that close the last two blockers of a card tell of its release
  exactly once (`HandoffsAreTold`). That nobody else is told has a limit, which a bigger instance than the run's shows: a reopened card may be
  told that it is blocked, be completed by a rule in the same transaction and so tell a third card that it is ready again, which
  never was otherwise at any commit. The property asks for truth only where no rule of the transaction moved the card.
* Requests that lock all their cards up front never wait for each other in a ring. Deletes and requests that ran a completing rule
  are excused (`chained`): they take further rows late and out of order. Among themselves the graph lock keeps them apart; a
  bulk comment takes no graph lock, and can deadlock with them. PostgreSQL then aborts one of the two. The comment
  at `card-write-lock.ts:11` limits itself to batches that lock up front, so this is not counted as a divergence.
* One wait crosses two of the parts, so `board` does not show it. A prefix change locks its workspace row and then the cards it renames
  (`update-workspace.ts:21`); a card write locks its card and then, by the foreign key of the activity it records, a share of the workspace
  row. Started at once on one workspace they may wait for each other, and PostgreSQL aborts one. Neither part reads what the
  other writes, so what each shows stands; that nobody waits in a ring is claimed of requests over cards only.
* A key leads to its card for as long as the card lives, and never to another one: what makes it so is that reservations outlive
  renames and workspaces (`KeysNeverChangeHands`). The look for the token under its lock, and not the one before the transaction, is
  what gives all retries of a create one card (`RetriesShareTheCard`).
* A full gap renumbers the queue before the write, so that rounding never turns "after c" into "before c" (`OrderIsWhatWasSaid`).
* A copy that lags always has a trace that leads to it: a change still to be announced, a dirty row, an event beyond the cursor, a request, or
  a reconcile that has its card still before it (`NothingIsMissed`). There is one exception, and it lasts: publication is fail-open, so a change whose
  insert failed, or whose server died between the commit and the insert, leaves no trace (`unheard`). No later run looks for it; the card's next
  announced change, or the next reconcile, brings it up to date, and nothing asks for a reconcile then. A card that a reconcile fails on must become dirty, since the request goes all the same.
* A mirror converges through late edits, pauses, retention gaps and crashes (`MirrorConverges`), except for cards in `unheard` and for `asked`
  below. `unheard` holds the cards with a lost announcement, and those whose row became visible behind the cursor because a row with
  a later `created_at` was visible first; a reconcile that copies the current revision takes them out.

Divergences and bugs, each with its run:

* `mcp_budget`: MCP_EVENTS.md promises at most
  five attempts, but a worker that dies between the POST and `recordOutcome` leaves a row that
  is claimed again whatever its counter says.
* `retry_twice`: a 5xx after the commit frees the key and the SDK
  retries 5xx, so the write happens twice although client.ts:14 promises it will not.
* `retry_limited`:
  organisation rate limits are charged inside the handler (`access.ts:202`), after the claim, so their 429
  is stored like an outcome and replayed for a day to a caller who was told to retry shortly.
* `push_twice`: `clearSubscriptionErrors` (`push-queue.ts:158`) is inside the try whose catch counts the device as failed, so a
  device that got the push is retried, against the comment at line 443.
* `purge`: the purge of archived cards selects ids and deletes by id alone (`archived-card-cleanup.ts:52`): a card restored in between is deleted
  while it blocks others, which are never told, against the comment at line 49.
* `asked`: a reconcile clears `reconcileRequestedAt` without a condition (`drain.ts:91`), also a request made while it ran; if the
  run then dies, the edits of the pause are never copied, against the comment at line 150.

A behaviour worth knowing, not counted as a divergence: the SDK's retry of an attempt that timed out while its
handler still works meets its own pending record and gets a 409, which the SDK throws, although the write
goes on to commit. A create that is retried after somebody has moved its card is refused ("client token was already used for another
card create", `create-card.ts:97, 201`) rather than answered with the card. A card that is completed between the check of
`addPriority` (`priority-queue-writes.ts:43`) and the queue lock still enters the queue, where every reader filters it out.

## 4. Fairness

Weak fairness only, and only for what the scheduling gives: sweeps poll for ever
(`setTimeout` re-armed after every run, `WakeIsServiced`), an await settles (queries, SMTP, pushes and
fetches have timeouts), time passes. `Claim` of the webhook model, and the claims of mail and push, are fair per row, because a row is
locked only for a statement and batches are taken from the oldest. Mirrors are drained by one worker, whose run goes on
(`MirrorWork`), and their backoffs end. A server that has committed a change goes on to the insert that announces it, unless it dies or the
insert fails, which is a fault (`Announce`); that anything is changed, or published to the outbox, is not assumed. A fan-out of the keyed
queue settles; nobody has to enqueue anything. Nothing is assumed of people, signals, notifications or retention. Liveness holds for finitely many
faults and interventions.

## 5. Proofs

The eight proof modules prove, for any events, workers, schedulers, listeners, requests, calls, mails, devices, cards,
batch limits and fault bounds: every invariant the runs check, that `EventOutbox` implements the
safety part of `EventDelivery`, that `DirectOutbox`, `EmailQueue` and `PushQueue` implement the safety part of `LeaseQueue`, and that
`IdempotentCalls` implements `Idempotency`. They rest on the named ASSUMEs of the
modules and on nothing else.

`EventOutboxProofs`. None of the outbox invariants is inductive alone: a flag is
written from a copy of the row made at the claim, so what a run will write depends
on what its copy, its stage and its `completedIds` say. `IInv` therefore relates each
run to the table: a copied flag was true, an event past the broadcast stage was broadcast, a completed event
is delivered, an event whose row was broadcast without its flag is either late or in the hands of
exactly one run that is about to write the flag. A quiet row has its flag from the insert, so no copy of it lacks the flag and no run broadcasts it;
a cancelled row has both flags, which is why each clause about a flag names `cancelled`, and a run that claimed it
before goes on by its copy. Every action has a lemma that it preserves `IInv`; `Invariance` puts
them together; each property follows from `IInv`. `Refinement` uses `IInv` for
`Queue` (the event was heard, or is for no room) and `Settle` (it was queued).

`QueueProofs`. A step of `LeaseQueue` needs three things of the state: what is sent without an excuse was not sent before, what is
reported as done was sent, and what was never accepted has left no trace. Hence three conjuncts per queue.
`...Steady` speaks of rows without an excuse only: one agent at most holds such a row, under a lease that has not run out, with a
true copy of it, and what it has still to send has not been sent (for push, per device: `PushUnsent`). `...Earned` (for push
`PushCovered`) ties a mark, a recorded outcome and a job past its send to a send. `...Fresh` says that rows outside the table have no jobs.
Every action has a lemma that it keeps the invariant and one that it is a step of `LeaseQueue` or none; an operator's act and an expired
lease are `Excuse`, a batch of marks is one `Record`.

`WorkerProcessProofs`, the process. `SchedShape` ties flags, timer and history of a scheduler
together, `ListenShape` the phases of connect and release and who holds the connection,
`ShutdownShape` what is already stopped in each phase of the shutdown. `PoolOutlivesWork`
needs all three.

`WorkerProcessProofs`, the shutdown. What fairness works on in `ShutdownCompletes` is proved without it: from the signal on every
scheduler is stopped and the outbox listener is being released (`ClosingShape`), so some step of a task, a listener or `close()`
always has its guard (`NeverStuck`), and every step except the break of a connection uses up a stock of tasks, `connect()`s and
`release()`s that nothing refills (`ShutdownUsesUpWork`). That fair, descending steps end is the part left to TLC. Of `WakeIsServiced` the
same half is proved from `SchedShape`: an unserviced wake rides on a task in flight, which never goes idle with it (`WakeIsCarried`).

`WorkerProcessProofs`, the keyed queue. An order that a Map keeps is modelled by who is ahead of each key, so that the proofs count and never
recurse. `InLine` says that this is an order: no key is ahead of itself, of two waiting keys one is ahead of the other, and being ahead
is transitive; hence who is ahead has fewer ahead of it (`FewerAhead`). `Started` takes in one step what the loop of `drain` takes one by one; `DrainFills` shows that the loop
leaves no slot free for a key that could run, by taking the first key left behind (`EndsOfLine`) and counting whoever was started or runs
(`RoomIsUsed`). `DrainIsInOrder` shows that whoever was started was ahead of those left behind, but for keys whose own task still runs;
with `EnqueueJoinsLine` that gives `NobodyCutsIn`. Together they are the safety beneath `EveryKeyHasItsTurn`: what is ahead of a key only shrinks.

`WorkerProcessProofs`, the mirrors. `NothingIsMissed` is the safety beneath `MirrorConverges`: it needs no fairness, hence no bound on
faults or people. It is not inductive, since a reason for looking at a card may vanish while the run that saw it goes on. `Announced` therefore says which
reasons count at each stage. A change still to be announced counts at all of them, and an announcement hands its card on to the tail, or, behind the cursor,
to `unheard`, which only a reconcile's copy of the current revision leaves. While a reconcile runs no request does, for it will be cleared, and an event counts from the cursor that
the run copied; in the tail a request counts that came in since. `ReadsAreTraced` says the same of the revision that was read and not yet written. `MirrorClocks` keeps
the copied cursor behind the row's, `CopiedMarks` keeps what the run has seen of the requests in the row until the run clears it.
`BatchIsAPrefix` is about the tail: the cursor moves to the last event of a batch that leaves none out before it.

`WebhookDeliveryProofs` and `McpDeliveryProofs` share a shape. `Steady` speaks of undisturbed rows only:
one job at most has such a row, it holds the lease, and what it may have posted agrees with its stage
(`Held`); hence `DuplicateNeedsCause`, `DoneStaysDone` and the budget of MCP. `Earned` ties a success
to an acceptance for all rows, stale jobs included. The webhook budget needs neither: a write
that leaves a row pending writes its attempts as well (`Budgeted`). `NoReplay` and `DowngradeHolds` are
action properties: each follows from the guard of the one step that could break it.
`OldestFirst` holds while one worker drains, as in its scene: with two, the second may overtake the first. `OrderIsByAge` has that as its
hypothesis (`Alone`). `InTurn` is the invariant it needs: a row that was never tried and lost no lease is not passed over, by the
claim, which takes the oldest due rows, nor by the batch, which is posted from its oldest row on.

`McpDeliveryProofs`, disturbed rows. Run `mcp_budget` shows that a receiver may get more than `MaxAttempts` POSTs; two theorems say how many. Every POST
was counted by a claim (`EveryPostIsCounted`): the drains that hold a row and have not posted it (`Owing`), each with one attempt counted
for it, make up at least the difference. And a claim beyond the budget has cost a failure of its own (`OverrunsNeedFaults`): `attempts` is at most
`MaxAttempts + faults`. That is not obvious, since an outcome is recorded by id from the count as claimed, so a stale drain can
queue a row again that another has closed. `Metered` is the measure: below the budget the drains that read a count below it (`Reopeners`), with the row's own chance to be
claimed at no further failure (`Reclaims`), are at most one more than the failures; from there on each of them is good for one claim, and uses itself up
in giving it. TLC checked `Metered` on the instances of run `mcp` before it was proved.

`IdempotentCallsProofs`. `Held` says that a request in its handler or about to write owns the pending
record, which is what excludes a second one; `Earned` what a reply stands for at each stage; `Once` that
until a record runs out whoever committed without reporting a failure still has it, from which
`DoneOnce` follows. `FirstOutcomeIsKept` is an action property: a complete record leaves no request in a
writing stage. `ServerBeneath` shows that every step of the callers is a step of `Idempotency` or none,
which carries its guarantees to what the callers are told.

`DependencyProofs`, the graph. `Acyclic` is stated without paths: every set of cards has a member that no member of it blocks.
That form needs no induction. `CheckedEdgeStaysAcyclic` shows that the check of `assertNoBlockingCycle` is right: its refusal is the
only obstacle to a new edge. `GuardedGraph` says that whoever has stored or removed relations holds the graph lock, that the committed graph
is acyclic, and that so is what each open transaction would leave of it. A commit changes the graph under the other requests,
but they have no uncommitted relations then, since the lock was the committer's. The purge and the row locks only ever remove edges.

`DependencyProofs`, the requests. `RunInv` describes a request twice: as it is while it holds the graph lock (`Holder`) and as it is otherwise (`Bystander`: nothing
uncommitted, and either nothing locked or rows being locked in order). So a step of one request leaves the others' part alone but for what the holder commits, and that is
what the lock keeps from them. Of the holder it says what its agenda stands for (`Disciplined`), that what its guard reads under the locks are rows it
was promised (`Fresh`), that what it has opened it holds (`Own`), and that the tasks left want rows it has (`Ahead`).
`PlainWritesNeverDeadlock` follows without induction over rings: in a ring of waiting requests take the greatest row that is waited for; whoever
holds it waits for a row below it, out of order, so it deletes or ran a rule. `HandoffsAreTold` follows from `NewsRight` (whom the request has told agrees with its
view of the graph, card by card) and `RulesClose` (a card whose state the request did not mean to change was closed by a rule that a told crossing set off).
Both theorems assume `PurgesBlockNothing` of the behaviour, as the run `board` does: a purge that deletes a restored card, which run `purge`
shows to be possible, takes a row and its relations from under whoever holds the graph lock. Both need that the cards are finitely many (`CardsAssumption`).

`CardProofs`, the queue. A rank is a cardinality, so that order needs no recursion: `RankOrders` shows ranks to be one to one and in order, `OrderByRank`,
by the pigeonhole, that every place of the list is taken, and `OrderIsUnique` that a list with every card at its rank is the order. `InsertionOrders` turns the claim into two facts of
positions: the others keep their order, and the card lies behind exactly the first i of them. `RebalanceKeepsOrder` and `SlotIsBetween` supply them; the
second is where a least gap of at least two digits (`PositionAssumption`) is used: half of it, rounded down, is still strictly between.
Nothing is assumed of ties, since two equal positions are a gap that is used up.

`CardProofs`, creation. `CreationInv` says what the locks exclude (`LocksHold`: one writer past the row of a workspace, one past a token, and
that one has found no card of it), who may be where (`WriterStages`, `Founded`), that a prefix is reserved for one workspace (`Reservations`),
that numbers are below their counter and the next one is free (`Numbered`), and that whatever key was shown is still reserved
for its card's workspace (`Remembered`). `NothingClashes` follows: no insert ever runs into an index or the trigger's check. Steps that commit
nothing share one lemma (`UncommittedStep`), steps that only move or remove cards another (`RowsThin`).

The compositions. A run's specification puts a scene, bounds and fairness on top of its components. `PartsOfWorker`, `PartsOfQueues` and
`PartsOfBoard` show that its behaviours are behaviours of each component, one step of one component being a stutter of the others; so every
theorem above holds of what TLC runs, the joint type invariants (`WorkerTyped`, `QueuesTyped`, `BoardTyped`) with them. `BoardWritesAreSafe` also
discharges the hypothesis about purges, which run `board` has in its bounds (`PurgesInTime`).

Only model-checked: liveness and the fair refinements. `ImplementsEventDelivery`, `ImplementsDirectQueue`, `ImplementsMailQueue` and
`ImplementsPushQueue` (their safety parts are proved), `EventuallySettled` for webhooks and MCP, `WakeIsServiced`, `ShutdownCompletes`, `MirrorConverges` and
`EveryKeyHasItsTurn`: fairness and ENABLED are beyond the prover. What of them needs no fairness is proved: `WakeIsCarried`, `NeverStuck` and
`ShutdownUsesUpWork`, `NothingIsMissed`, `RoomIsUsed` and `NobodyCutsIn`, and for MCP that failures alone prolong a delivery (`OverrunsNeedFaults`).
These halves, where no run lists them, are checked by the prover only.

## 6. Not modelled, and what would come next

The map covers a small share of the lines because most of the repository's 2,244 files are the Angular client, rendering, routes whose
transactions read and write rows in sequence under one lock, schemas, seed data and tests. What decides by order and failure
is small and is mostly covered. Left out, in the order in which it would be worth adding:

* The rest of a create: positions, assignees, external references, and the batches of imports and templates, which draw several numbers at once.
* `relates_to` relations, the feature switch of dependencies, boards archived by a plan conversion.
* The topology and list mappings of mirrors, and which facets of a card they copy.
* Lanes of cards, which use the positions and the rebalancing of `PriorityQueue` under other locks.
* Agent runs and notes: one conditional statement per operation on one row.
* Realtime presence: Redis sets with a time to live, and the sockets themselves.
* Refresh tokens, OAuth, invitations, access control: left to their tests.
* Seats and billing: they depend on the order of Stripe's events, which the source does not define.
* The schedule graph and the rest of the automations: they select and edit card data in one transaction.
* Rate limits and caches, imports, search, media, exports, the clients, the MCP server and the CLI: process-local tables, pure
  functions or I/O, where tests reach what a model checker would.
